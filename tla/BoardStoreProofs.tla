-------------------------- MODULE BoardStoreProofs --------------------------
(***************************************************************************)
(* What BoardStore promises, for any boards, columns, cards and handlers.  *)
(*                                                                         *)
(* The inductive invariant StoreInv has five parts.  TypeInv adds to the   *)
(* types what a handler's locals hold at each statement, and says who      *)
(* holds which row lock.  IdsOnce and BatchOnce say that an id and a batch *)
(* number are one request's: without them an insert could put back a card  *)
(* that a cascade has locked, and one cascade's rows could be taken for    *)
(* another's.  SweepHolds is what a cascade knows of the card it works on, *)
(* and DeletesAhead counts the delete rows already written for deletions   *)
(* still to come.  ParentHistoryExact needs only TypeInv.                  *)
(*                                                                         *)
(* Each part has a section: what each statement does to it, then the step. *)
(* The statements are summarised once, by GoesOn and the lemmas ...GoesOn, *)
(* and the arrivals by Arrived, so that the parts after TypeInv never open *)
(* a handler's record again.                                               *)
(***************************************************************************)
EXTENDS BoardStore, FiniteSetTheorems, TLAPS

\* The statements of a cascade.
Sweeping == {"sweep", "lock_card", "record_swept", "drop_swept", "list_columns",
             "drop_column", "record_column", "drop_parent", "record_parent"}

Cascading(p) == req[p].pc \in Sweeping

\* What a handler's locals hold at the statements that use them.
LabelOK(r, rows, n) ==
    /\ r.pc = "insert_card" => r.id \in Cards /\ r.col \in Columns /\ r.body \in Bodies
    /\ r.pc = "insert_column" => r.id \in Columns
    /\ r.pc \in {"find_home", "load_target"} =>
          r.op \in {"move", "update"} /\ r.id \in Cards /\ r.old \in Row
    /\ r.pc = "load_target" => r.col \in Columns
    /\ r.pc = "find_home" /\ r.op = "move" => r.col \in Columns
    /\ r.pc \in {"write", "record_card", "drop_card"} => r.id \in Cards
    /\ r.pc = "record_card" => r.old \in Row /\ r.batch = 0
    /\ r.pc \in Sweeping =>
          /\ \/ r.op = "delete_column" /\ r.id \in Columns
             \/ r.op = "delete_board" /\ r.id \in Boards
          /\ r.batch \in 1 .. n
    /\ r.pc \in {"record_swept", "drop_swept"} => r.pick \in Cards /\ r.old \in Row
    /\ r.pc = "record_column" => r.pick \in Columns
    /\ r.pc \in {"check_row", "check_parent", "reinsert"} => r.rest # {}
    /\ r.pc = "read_batch" => \E i \in DOMAIN rows : rows[i].batch = r.batch

TypeInv == StateType /\ \A p \in Procs : HoldsItsCard(p) /\ LabelOK(req[p], history, issued)

Inserting(p) == req[p].pc \in {"insert_card", "insert_column"}

\* The ids that were given out and are nobody's row yet, and those that have been a row.
Fresh == {req[p].id : p \in {q \in Procs : Inserting(q)}}
Known == used \ Fresh

\* An id given out is one handler's until its row is in: no row, no history and no other
\* handler has it.
IdsOnce ==
    /\ Present \cup columns \subseteq Known
    /\ Fresh \subseteq used
    /\ \A i \in DOMAIN history : history[i].id \in Known \cup Boards
    /\ \A p \in Procs :
          /\ ~Inserting(p) => req[p].id \in Known \cup Boards \cup {NoOne}
          /\ req[p].pick \in Known \cup {NoOne}
    /\ \A p, q \in Procs : Inserting(p) /\ Inserting(q) /\ req[p].id = req[q].id => p = q

\* A batch is one cascade's.
BatchOnce ==
    \A p, q \in Procs : Cascading(p) /\ Cascading(q) /\ req[p].batch = req[q].batch => p = q

\* The delete rows of the card that cascade p works on, and the last of them.
RowsOfPick(p) ==
    {i \in DOMAIN history : history[i].id = req[p].pick /\ history[i].batch = req[p].batch}

LastSays(p) ==
    \E i \in RowsOfPick(p) :
        (\A j \in RowsOfPick(p) : j <= i) /\ history[i].snap = req[p].old

\* What a cascade has read of the card it works on stays so, and is in the cascade's scope.
SweepHolds ==
    \A p \in Procs : LET r == req[p] IN
        /\ Cascading(p) => \A t \in r.todo : InScope(r, t[2])
        /\ r.pc \in {"record_swept", "drop_swept"} =>
              card[r.pick] = r.old /\ InScope(r, r.old.column)
        /\ r.pc = "drop_swept" => LastSays(p)

\* The handlers that have recorded the deletion of card c and have yet to run it.
Deleting(c) ==
    {p \in Procs : \/ req[p].pc = "drop_card" /\ req[p].id = c
                   \/ req[p].pc = "drop_swept" /\ req[p].pick = c}

DeletesAhead == \A c \in Cards : gone[c] + Cardinality(Deleting(c)) <= RowsFor(c)

StoreInv == TypeInv /\ IdsOnce /\ BatchOnce /\ SweepHolds /\ DeletesAhead

----------------------------------------------------------------------------

\* History only grows, by one row at a time.
Grows == history' = history \/ \E row \in DeleteRow : history' = Append(history, row)

LEMMA GrowsType ==
    ASSUME history \in Seq(DeleteRow), Grows
    PROVE  /\ history' \in Seq(DeleteRow)
           /\ DOMAIN history = 1 .. Len(history)
           /\ DOMAIN history' = 1 .. Len(history')
           /\ Len(history) \in Nat
           /\ Len(history') \in {Len(history), Len(history) + 1}
           /\ \A i \in DOMAIN history : i \in DOMAIN history' /\ history'[i] = history[i]
BY DEF Grows

\* Handler p goes on as r: the others stay as they are, and well labelled.
LEMMA BecomeType ==
    ASSUME TypeInv, NEW p \in Procs, NEW r \in Locals', Become(p, r), Grows,
           issued' \in Nat, issued' >= issued, LabelOK(r, history', issued')
    PROVE  /\ req' \in [Procs -> Locals']
           /\ history' \in Seq(DeleteRow)
           /\ req'[p] = r
           /\ \A q \in Procs : q # p => req'[q] = req[q]
           /\ \A q \in Procs : LabelOK(req'[q], history', issued')
<1>1. req \in [Procs -> Locals] /\ issued \in Nat /\ history \in Seq(DeleteRow)
  BY DEF TypeInv, StateType
<1>2. Locals \subseteq Locals'
  <2>1. 1 .. Len(history) \subseteq 1 .. Len(history')
    BY <1>1, GrowsType
  <2>2. QED BY <2>1 DEF Locals
<1>3. req' \in [Procs -> Locals']
  BY <1>1, <1>2 DEF Become
<1>4. req'[p] = r /\ \A q \in Procs : q # p => req'[q] = req[q]
  BY <1>1 DEF Become
<1>5. ASSUME NEW q \in Procs, q # p
      PROVE  LabelOK(req[q], history', issued')
  <2>1. LabelOK(req[q], history, issued)
    BY DEF TypeInv
  <2>2. \A i \in DOMAIN history : i \in DOMAIN history' /\ history'[i] = history[i]
    BY <1>1, GrowsType
  <2>3. req[q].batch \in 1 .. issued => req[q].batch \in 1 .. issued'
    BY <1>1
  <2>4. QED BY <2>1, <2>2, <2>3 DEF LabelOK
<1>6. QED BY <1>1, <1>3, <1>4, <1>5, GrowsType

LEMMA IdleType ==
    /\ Idle \in Locals /\ Idle.pc \notin {"record_swept", "drop_swept"}
    /\ \A rows, n : LabelOK(Idle, rows, n)
BY NoneAssumption, BoundsAssumption DEF Idle, Locals, Labels, AllOps, LabelOK, Sweeping

\* What there is to show of a step of handler p that goes on as r.
LEMMA StepKeepsType ==
    ASSUME TypeInv, NEW p \in Procs, NEW r \in Locals', Become(p, r), Grows,
           issued' \in Nat, issued' >= issued, LabelOK(r, history', issued'),
           TablesType', dropped' \in Nat,
           \A q \in Procs : HoldsItsCard(q)'
    PROVE  TypeInv'
<1>1. StateType'
  BY BecomeType DEF StateType
<1>2. QED BY <1>1, BecomeType DEF TypeInv

\* The statements at which a cascade holds a row lock.
Locking == {"record_swept", "drop_swept"}

\* A step between two statements that hold no row lock.
LEMMA LocksStay ==
    ASSUME TypeInv, NEW p \in Procs, NEW r \in Locals', Become(p, r), rowLock' = rowLock,
           r.pc \notin Locking, req[p].pc \notin Locking
    PROVE  \A q \in Procs : HoldsItsCard(q)'
<1> SUFFICES ASSUME NEW q \in Procs PROVE HoldsItsCard(q)'
  OBVIOUS
<1>1. HoldsItsCard(q) /\ req \in [Procs -> Locals]
  BY DEF TypeInv, StateType
<1>2. req'[q] = IF q = p THEN r ELSE req[q]
  BY <1>1 DEF Become
<1>3. QED BY <1>1, <1>2 DEF HoldsItsCard, Locking

\* A statement of a handler that reads and goes on as r.
LEMMA ReadKeepsType ==
    ASSUME TypeInv, NEW p \in Procs, NEW label \in Labels \ Locking, Reads(p, label),
           NEW r \in Locals, Become(p, r), r.pc \notin Locking, LabelOK(r, history, issued)
    PROVE  TypeInv'
<1>1. /\ Grows /\ history' = history /\ issued' = issued /\ issued \in Nat
      /\ dropped' \in Nat /\ rowLock' = rowLock /\ req[p].pc \notin Locking
  BY DEF Reads, Grows, TypeInv, StateType
<1>2. TablesType'
  BY DEF Reads, tables, TypeInv, StateType, TablesType
<1>3. r \in Locals'
  BY <1>1 DEF Locals
<1>4. \A q \in Procs : HoldsItsCard(q)'
  BY <1>1, <1>3, LocksStay
<1>5. QED BY <1>1, <1>2, <1>3, <1>4, StepKeepsType

\* A statement that appends a delete row, and goes on as r.
LEMMA RecordKeepsType ==
    ASSUME TypeInv, NEW p \in Procs, NEW label \in Labels \ Locking, NEW kind, NEW id, NEW snap,
           Records(p, label, kind, id, snap),
           [kind |-> kind, id |-> id, batch |-> req[p].batch, snap |-> snap] \in DeleteRow,
           NEW r \in Locals, Become(p, r), r.pc \notin Locking,
           LabelOK(r, history, issued)
    PROVE  TypeInv'
<1>1. /\ Grows /\ issued' = issued /\ issued \in Nat /\ history \in Seq(DeleteRow)
      /\ dropped' \in Nat /\ rowLock' = rowLock /\ req[p].pc \notin Locking
  BY DEF Records, Grows, TypeInv, StateType
<1>2. TablesType'
  BY DEF Records, tables, TypeInv, StateType, TablesType
<1>3. r \in Locals'
  <2>1. 1 .. Len(history) \subseteq 1 .. Len(history')
    BY <1>1, GrowsType
  <2>2. QED BY <2>1 DEF Locals
<1>4. LabelOK(r, history', issued')
  BY <1>1, GrowsType DEF LabelOK
<1>5. \A q \in Procs : HoldsItsCard(q)'
  BY <1>1, <1>3, LocksStay
<1>6. QED BY <1>1, <1>2, <1>3, <1>4, <1>5, StepKeepsType

\* A statement that writes rows under no row lock of its own, and goes on as r.
LEMMA WriteKeepsType ==
    ASSUME TypeInv, NEW p \in Procs, NEW label \in Labels \ Locking, Writes(p, label),
           TablesType', rowLock' = rowLock,
           NEW r \in Locals, Become(p, r), r.pc \notin Locking, LabelOK(r, history, issued)
    PROVE  TypeInv'
<1>1. /\ Grows /\ history' = history /\ issued' = issued /\ issued \in Nat
      /\ dropped' \in Nat /\ req[p].pc \notin Locking
  BY DEF Writes, Grows, TypeInv, StateType
<1>2. r \in Locals'
  BY <1>1 DEF Locals
<1>3. \A q \in Procs : HoldsItsCard(q)'
  BY <1>1, <1>2, LocksStay
<1>4. QED BY <1>1, <1>2, <1>3, StepKeepsType

----------------------------------------------------------------------------

LEMMA InsertCardKeepsType ==
    ASSUME TypeInv, NEW p \in Procs, InsertCard(p)
    PROVE  TypeInv'
<1>1. TablesType'
  BY DEF InsertCard, Writes, TypeInv, StateType, TablesType, LabelOK, Row
<1>2. "insert_card" \in Labels \ Locking
  BY DEF Labels, Locking
<1>3. QED
  BY <1>1, <1>2, IdleType, WriteKeepsType DEF InsertCard, Answer, Locking

LEMMA InsertColumnKeepsType ==
    ASSUME TypeInv, NEW p \in Procs, InsertColumn(p)
    PROVE  TypeInv'
<1>1. TablesType'
  BY DEF InsertColumn, Writes, TypeInv, StateType, TablesType, LabelOK
<1>2. "insert_column" \in Labels \ Locking
  BY DEF Labels, Locking
<1>3. QED
  BY <1>1, <1>2, IdleType, WriteKeepsType DEF InsertColumn, Answer, Locking

\* The handler of a step, its locals typed.
LEMMA AtType ==
    ASSUME TypeInv, NEW p \in Procs
    PROVE  req[p] \in Locals /\ LabelOK(req[p], history, issued)
BY DEF TypeInv, StateType

LEMMA FindHomeKeepsType ==
    ASSUME TypeInv, NEW p \in Procs, FindHome(p)
    PROVE  TypeInv'
<1>1. PICK r \in Locals : r = req[p] /\ LabelOK(r, history, issued) /\ r.pc = "find_home"
  BY AtType DEF FindHome, Reads
<1>2. PICK here \in Boards \cup {NoOne} :
        here = IF r.old.column \in columns THEN BoardOf[r.old.column] ELSE NoOne
  BY BoardOfAssumption DEF TypeInv, StateType, TablesType
<1> DEFINE to(next) == [r EXCEPT !.pc = next, !.home = here]
<1>3. \/ Become(p, Idle) \/ Become(p, to("write"))
      \/ Become(p, to("load_target")) /\ r.col \in Columns
  BY <1>1, <1>2 DEF FindHome, Answer, Locals
<1>4. ASSUME NEW next \in {"write", "load_target"}, next = "load_target" => r.col \in Columns
      PROVE  to(next) \in Locals /\ to(next).pc = next /\ LabelOK(to(next), history, issued)
  <2>1. next \in Labels
    BY DEF Labels
  <2>2. to(next) \in Locals
    BY <2>1 DEF Locals
  <2>3. /\ to(next).pc = next /\ to(next).id = r.id /\ to(next).col = r.col
        /\ to(next).op = r.op /\ to(next).old = r.old
    BY DEF Locals
  <2> HIDE DEF to
  <2>4. LabelOK(to(next), history, issued)
    BY <1>1, <1>4, <2>3 DEF LabelOK, Sweeping
  <2>5. QED BY <2>2, <2>3, <2>4
<1>5. "find_home" \in Labels \ Locking /\ Reads(p, "find_home")
  BY DEF Labels, Locking, FindHome
<1>6. CASE Become(p, Idle)
  BY <1>5, <1>6, IdleType, ReadKeepsType DEF Locking
<1>7. ASSUME NEW next \in {"write", "load_target"}, Become(p, to(next)),
             next = "load_target" => r.col \in Columns
      PROVE  TypeInv'
  BY <1>4, <1>5, <1>7, ReadKeepsType DEF Locking
<1>8. QED BY <1>3, <1>6, <1>7

LEMMA Relabel ==
    ASSUME NEW r \in Locals, NEW label \in Labels, NEW n, n = [r EXCEPT !.pc = label]
    PROVE  /\ n \in Locals /\ n.pc = label
           /\ n.op = r.op /\ n.id = r.id /\ n.col = r.col /\ n.body = r.body /\ n.old = r.old
           /\ n.batch = r.batch /\ n.todo = r.todo /\ n.pick = r.pick /\ n.rest = r.rest
BY DEF Locals

\* A handler that only goes on to another statement.
LEMMA GotoType ==
    ASSUME TypeInv, NEW p \in Procs, NEW label \in Labels, Goto(p, label)
    PROVE  \E n \in Locals :
              /\ Become(p, n)
              /\ n = [req[p] EXCEPT !.pc = label]
              /\ n.pc = label /\ n.op = req[p].op /\ n.id = req[p].id /\ n.col = req[p].col
              /\ n.body = req[p].body /\ n.old = req[p].old /\ n.batch = req[p].batch
              /\ n.todo = req[p].todo /\ n.pick = req[p].pick /\ n.rest = req[p].rest
BY AtType, Relabel DEF Goto

LEMMA AnswerKeepsType ==
    ASSUME TypeInv, NEW p \in Procs, NEW label \in Labels \ Locking, Reads(p, label), Answer(p)
    PROVE  TypeInv'
BY IdleType, ReadKeepsType DEF Answer, Locking

LEMMA LoadTargetKeepsType ==
    ASSUME TypeInv, NEW p \in Procs, LoadTarget(p)
    PROVE  TypeInv'
<1>1. Reads(p, "load_target") /\ req[p].pc = "load_target" /\ "load_target" \in Labels \ Locking
  BY DEF LoadTarget, Reads, Labels, Locking
<1>2. LabelOK(req[p], history, issued)
  BY AtType
<1>3. CASE Answer(p)
  BY <1>1, <1>3, AnswerKeepsType
<1>4. ASSUME NEW label \in {"write", "find_home"}, Goto(p, label)
      PROVE  TypeInv'
  <2>1. label \in Labels /\ label \notin Locking
    BY DEF Labels, Locking
  <2>2. PICK n \in Locals :
          /\ Become(p, n) /\ n.pc = label /\ n.op = req[p].op /\ n.id = req[p].id
          /\ n.col = req[p].col /\ n.old = req[p].old
    BY <1>4, <2>1, GotoType
  <2>3. LabelOK(n, history, issued)
    BY <1>1, <1>2, <2>2 DEF LabelOK, Sweeping
  <2>4. QED BY <1>1, <2>1, <2>2, <2>3, ReadKeepsType
<1>5. QED BY <1>3, <1>4 DEF LoadTarget

LEMMA RecordCardKeepsType ==
    ASSUME TypeInv, NEW p \in Procs, RecordCard(p)
    PROVE  TypeInv'
<1>1. PICK r \in Locals : r = req[p] /\ LabelOK(r, history, issued) /\ r.pc = "record_card"
  BY AtType DEF RecordCard, Records
<1>2. PICK n \in Locals : Become(p, n) /\ n.pc = "drop_card" /\ n.id = r.id
  BY <1>1, GotoType DEF RecordCard, Labels
<1>3. "record_card" \in Labels \ Locking /\ "drop_card" \notin Locking
  BY DEF Labels, Locking
<1>4. LabelOK(n, history, issued)
  BY <1>1, <1>2 DEF LabelOK, Sweeping
<1>5. [kind |-> "card", id |-> r.id, batch |-> r.batch, snap |-> r.old] \in DeleteRow
  BY <1>1 DEF LabelOK, DeleteRow
<1>6. QED BY <1>1, <1>2, <1>3, <1>4, <1>5, RecordKeepsType DEF RecordCard

LEMMA DeleteCardRowType ==
    ASSUME TablesType, NEW c \in Cards, DeleteCardRow(c)
    PROVE  /\ card' \in [Cards -> Row \cup {NoRow}]
           /\ gone' \in [Cards \cup Columns \cup Boards -> Nat]
BY DEF TablesType, DeleteCardRow

LEMMA DropCardKeepsType ==
    ASSUME TypeInv, NEW p \in Procs, DropCard(p)
    PROVE  TypeInv'
<1>1. req[p].id \in Cards /\ TablesType
  BY AtType DEF DropCard, Writes, LabelOK, TypeInv, StateType
<1>2. TablesType'
  BY <1>1, DeleteCardRowType DEF DropCard, Writes, TablesType
<1>3. "drop_card" \in Labels \ Locking
  BY DEF Labels, Locking
<1>4. QED BY <1>2, <1>3, IdleType, WriteKeepsType DEF DropCard, Answer, Locking

LEMMA WriteCardKeepsType ==
    ASSUME TypeInv, NEW p \in Procs, Write(p)
    PROVE  TypeInv'
<1>1. PICK r \in Locals : r = req[p] /\ r.id \in Cards
  BY AtType DEF Write, Writes, LabelOK
<1>2. card' \in [Cards -> Row \cup {NoRow}]
  <2> DEFINE new == [column |-> IF r.col = NoOne THEN card[r.id].column ELSE r.col,
                     body |-> IF r.body = NoOne THEN card[r.id].body ELSE r.body]
  <2>1. card \in [Cards -> Row \cup {NoRow}]
    BY DEF TypeInv, StateType, TablesType
  <2>2. card[r.id] # NoRow => new \in Row
    BY <1>1, <2>1 DEF Row, Locals
  <2>3. card' = IF card[r.id] # NoRow /\ new.column \in columns
                THEN [card EXCEPT ![r.id] = new] ELSE card
    BY <1>1 DEF Write
  <2> HIDE DEF new
  <2>4. QED BY <1>1, <2>1, <2>2, <2>3
<1>3. TablesType'
  BY <1>2 DEF Write, Writes, TypeInv, StateType, TablesType
<1>4. "write" \in Labels \ Locking
  BY DEF Labels, Locking
<1>5. QED BY <1>3, <1>4, IdleType, WriteKeepsType DEF Write, Answer, Locking

----------------------------------------------------------------------------
(* The cascades' statements.                                               *)

LEMMA NextSweptType ==
    ASSUME TypeInv, NEW r \in Locals, NEW left \in SUBSET (Cards \X Columns), NEW n,
           LabelOK(r, history, issued), r.pc \in Sweeping, n = NextSwept(r, left)
    PROVE  /\ n \in Locals /\ LabelOK(n, history, issued) /\ n.pc \in Sweeping \ Locking
           /\ n.op = r.op /\ n.id = r.id /\ n.batch = r.batch /\ n.todo = left
           /\ n.pick = NoOne /\ n.pc # "sweep"
<1>1. PICK label \in {"lock_card", "drop_parent", "list_columns"} :
        label = IF left # {} THEN "lock_card"
                ELSE IF r.op = "delete_column" THEN "drop_parent" ELSE "list_columns"
  OBVIOUS
<1>2. label \in Labels /\ label \in Sweeping \ Locking
  BY DEF Labels, Sweeping, Locking
<1>3. n = [r EXCEPT !.todo = left, !.pick = NoOne, !.old = NoRow, !.pc = label]
  BY <1>1 DEF NextSwept
<1>4. n \in Locals
  BY <1>2, <1>3 DEF Locals
<1>5. /\ n.pc = label /\ n.op = r.op /\ n.id = r.id /\ n.batch = r.batch
      /\ n.todo = left /\ n.pick = NoOne
  BY <1>3 DEF Locals
<1>6. LabelOK(n, history, issued)
  BY <1>1, <1>2, <1>5 DEF LabelOK, Sweeping
<1>7. QED BY <1>1, <1>2, <1>4, <1>5, <1>6

LEMMA SweepKeepsType ==
    ASSUME TypeInv, NEW p \in Procs, Sweep(p)
    PROVE  TypeInv'
<1>1. PICK r \in Locals : r = req[p] /\ LabelOK(r, history, issued) /\ r.pc = "sweep"
  BY AtType DEF Sweep, Reads
<1>2. PICK left \in SUBSET (Cards \X Columns) : Become(p, NextSwept(r, left))
  <2>1. \A d \in Present : card[d].column \in Columns /\ d \in Cards
    BY DEF TypeInv, StateType, TablesType, Present, Row
  <2>2. QED BY <1>1, <2>1 DEF Sweep
<1>3. "sweep" \in Labels \ Locking /\ "sweep" \in Sweeping
  BY DEF Labels, Locking, Sweeping
<1>4. QED BY <1>1, <1>2, <1>3, NextSweptType, ReadKeepsType DEF Sweep

LEMMA LockCardKeepsType ==
    ASSUME TypeInv, NEW p \in Procs, LockCard(p)
    PROVE  TypeInv'
<1>1. PICK r \in Locals : r = req[p] /\ LabelOK(r, history, issued) /\ r.pc = "lock_card"
  BY AtType DEF LockCard
<1>2. PICK t \in r.todo :
        /\ rowLock[t[1]] = NoOne
        /\ IF card[t[1]] # NoRow /\ card[t[1]].column = t[2]
           THEN /\ rowLock' = [rowLock EXCEPT ![t[1]] = p]
                /\ Become(p, [r EXCEPT !.pick = t[1], !.old = card[t[1]],
                                       !.todo = @ \ {t}, !.pc = "record_swept"])
           ELSE UNCHANGED rowLock /\ Become(p, NextSwept(r, r.todo \ {t}))
  BY <1>1 DEF LockCard
<1>3. r.todo \in SUBSET (Cards \X Columns) /\ t[1] \in Cards
  BY DEF Locals
<1>4. "lock_card" \in Labels \ Locking /\ "lock_card" \in Sweeping
      /\ "record_swept" \in Labels /\ "record_swept" \in Sweeping
  BY DEF Labels, Locking, Sweeping
<1>5. CASE card[t[1]] # NoRow /\ card[t[1]].column = t[2]
  <2> DEFINE n == [r EXCEPT !.pick = t[1], !.old = card[t[1]],
                            !.todo = @ \ {t}, !.pc = "record_swept"]
  <2>1. Become(p, n) /\ rowLock' = [rowLock EXCEPT ![t[1]] = p]
    BY <1>2, <1>5
  <2>2. card[t[1]] \in Row
    BY <1>3, <1>5 DEF TypeInv, StateType, TablesType
  <2>3. n \in Locals
    <3>1. PICK left \in SUBSET (Cards \X Columns), old \in Row, c \in Cards :
            left = r.todo \ {t} /\ old = card[t[1]] /\ c = t[1]
      BY <1>3, <2>2
    <3>2. n = [r EXCEPT !.pick = c, !.old = old, !.todo = left, !.pc = "record_swept"]
      BY <3>1
    <3>3. QED BY <1>4, <3>2 DEF Locals
  <2>4. /\ n.pc = "record_swept" /\ n.op = r.op /\ n.id = r.id /\ n.batch = r.batch
        /\ n.pick = t[1] /\ n.old = card[t[1]]
    BY DEF Locals
  <2> HIDE DEF n
  <2>5. LabelOK(n, history, issued)
    BY <1>1, <1>3, <1>4, <2>2, <2>4 DEF LabelOK, Sweeping
  <2>6. /\ Grows /\ history' = history /\ issued' = issued /\ issued \in Nat /\ dropped' \in Nat
        /\ TablesType'
    BY <1>3, <2>1 DEF LockCard, Grows, tables, TypeInv, StateType, TablesType
  <2>7. n \in Locals'
    BY <2>3, <2>6 DEF Locals
  <2>8. ASSUME NEW q \in Procs PROVE HoldsItsCard(q)'
    <3>1. HoldsItsCard(q) /\ req \in [Procs -> Locals] /\ rowLock \in [Cards -> Procs \cup {NoOne}]
      BY DEF TypeInv, StateType, TablesType
    <3>2. req'[q] = IF q = p THEN n ELSE req[q]
      BY <2>1, <3>1 DEF Become
    <3>3. CASE q = p
      BY <1>1, <1>2, <1>3, <2>1, <2>4, <3>1, <3>2, <3>3 DEF HoldsItsCard
    <3>4. CASE q # p
      <4>1. {c \in Cards : rowLock'[c] = q} = {c \in Cards : rowLock[c] = q}
        BY <1>2, <1>3, <2>1, <3>1, <3>4, NoneAssumption
      <4>2. QED BY <3>1, <3>2, <3>4, <4>1 DEF HoldsItsCard
    <3>5. QED BY <3>3, <3>4
  <2>9. QED BY <2>1, <2>5, <2>6, <2>7, <2>8, StepKeepsType
<1>6. CASE ~(card[t[1]] # NoRow /\ card[t[1]].column = t[2])
  <2>1. Reads(p, "lock_card") /\ Become(p, NextSwept(r, r.todo \ {t}))
    BY <1>1, <1>2, <1>6 DEF Reads, LockCard
  <2>2. QED BY <1>1, <1>3, <1>4, <2>1, NextSweptType, ReadKeepsType
<1>7. QED BY <1>5, <1>6

LEMMA RecordSweptKeepsType ==
    ASSUME TypeInv, NEW p \in Procs, RecordSwept(p)
    PROVE  TypeInv'
<1>1. PICK r \in Locals : r = req[p] /\ LabelOK(r, history, issued) /\ r.pc = "record_swept"
  BY AtType DEF RecordSwept, Records
<1>2. PICK n \in Locals :
        /\ Become(p, n) /\ n.pc = "drop_swept" /\ n.op = r.op /\ n.id = r.id
        /\ n.batch = r.batch /\ n.pick = r.pick /\ n.old = r.old
  BY <1>1, GotoType DEF RecordSwept, Labels
<1>3. LabelOK(n, history, issued)
  BY <1>1, <1>2 DEF LabelOK, Sweeping
<1>4. [kind |-> "card", id |-> r.pick, batch |-> r.batch, snap |-> r.old] \in DeleteRow
  BY <1>1 DEF LabelOK, DeleteRow, Locals
<1>5. /\ Grows /\ issued' = issued /\ issued \in Nat /\ history \in Seq(DeleteRow)
      /\ dropped' \in Nat /\ rowLock' = rowLock /\ TablesType'
  BY <1>1, <1>4 DEF RecordSwept, Records, Grows, tables, TypeInv, StateType, TablesType
<1>6. n \in Locals'
  <2>1. 1 .. Len(history) \subseteq 1 .. Len(history')
    BY <1>5, GrowsType
  <2>2. QED BY <2>1 DEF Locals
<1>7. LabelOK(n, history', issued')
  BY <1>3, <1>5, GrowsType DEF LabelOK
<1>8. ASSUME NEW q \in Procs PROVE HoldsItsCard(q)'
  <2>1. HoldsItsCard(q) /\ req \in [Procs -> Locals]
    BY DEF TypeInv, StateType
  <2>2. req'[q] = IF q = p THEN n ELSE req[q]
    BY <1>2, <2>1 DEF Become
  <2>3. QED BY <1>1, <1>2, <1>5, <2>1, <2>2 DEF HoldsItsCard
<1>9. QED BY <1>2, <1>5, <1>6, <1>7, <1>8, StepKeepsType

LEMMA DropSweptKeepsType ==
    ASSUME TypeInv, NEW p \in Procs, DropSwept(p)
    PROVE  TypeInv'
<1>1. PICK r \in Locals : r = req[p] /\ LabelOK(r, history, issued) /\ r.pc = "drop_swept"
  BY AtType DEF DropSwept, Writes
<1>2. "drop_swept" \in Sweeping
  BY DEF Sweeping
<1>3. r.pick \in Cards /\ r.todo \in SUBSET (Cards \X Columns)
  BY <1>1 DEF LabelOK, Locals
<1>4. PICK n \in Locals : Become(p, n) /\ LabelOK(n, history, issued) /\ n.pc \notin Locking
  <2>1. CASE Answer(p)
    BY <2>1, IdleType DEF Answer, Locking
  <2>2. CASE Become(p, NextSwept(r, r.todo))
    BY <1>1, <1>2, <1>3, <2>2, NextSweptType
  <2>3. QED BY <1>1, <2>1, <2>2 DEF DropSwept
<1>5. /\ Grows /\ history' = history /\ issued' = issued /\ issued \in Nat
      /\ dropped' \in Nat /\ rowLock' = [rowLock EXCEPT ![r.pick] = NoOne]
  BY <1>1 DEF DropSwept, Writes, Grows, TypeInv, StateType
<1>6. TablesType'
  <2>1. TablesType
    BY DEF TypeInv, StateType
  <2>2. DeleteCardRow(r.pick) \/ UNCHANGED <<card, gone>>
    BY <1>1 DEF DropSwept
  <2>3. /\ card' \in [Cards -> Row \cup {NoRow}]
        /\ gone' \in [Cards \cup Columns \cup Boards -> Nat]
    BY <1>3, <2>1, <2>2, DeleteCardRowType DEF TablesType
  <2>4. rowLock' \in [Cards -> Procs \cup {NoOne}]
    BY <1>5, <2>1 DEF TablesType
  <2>5. QED BY <2>1, <2>3, <2>4 DEF DropSwept, Writes, TablesType
<1>7. n \in Locals'
  BY <1>5 DEF Locals
<1>8. ASSUME NEW q \in Procs PROVE HoldsItsCard(q)'
  <2>1. HoldsItsCard(q) /\ HoldsItsCard(p) /\ req \in [Procs -> Locals]
        /\ rowLock \in [Cards -> Procs \cup {NoOne}]
    BY DEF TypeInv, StateType, TablesType
  <2>2. req'[q] = IF q = p THEN n ELSE req[q]
    BY <1>4, <2>1 DEF Become
  <2>3. rowLock[r.pick] = p
    BY <1>1, <1>3, <2>1 DEF HoldsItsCard
  <2>4. {c \in Cards : rowLock'[c] = q} = IF q = p THEN {} ELSE {c \in Cards : rowLock[c] = q}
    BY <1>1, <1>3, <1>5, <2>1, <2>3, NoneAssumption DEF HoldsItsCard
  <2>5. QED BY <1>4, <2>1, <2>2, <2>4 DEF HoldsItsCard, Locking
<1>9. QED BY <1>4, <1>5, <1>6, <1>7, <1>8, StepKeepsType

LEMMA ListColumnsKeepsType ==
    ASSUME TypeInv, NEW p \in Procs, ListColumns(p)
    PROVE  TypeInv'
<1>1. PICK r \in Locals : r = req[p] /\ LabelOK(r, history, issued) /\ r.pc = "list_columns"
  BY AtType DEF ListColumns, Reads
<1>2. PICK cols \in SUBSET Columns : cols = ColumnsOf(r.id)
  BY DEF ColumnsOf, TypeInv, StateType, TablesType
<1>3. PICK label \in {"drop_parent", "drop_column"} :
        label = IF cols = {} THEN "drop_parent" ELSE "drop_column"
  OBVIOUS
<1>4. /\ label \in Labels \ Locking /\ label \in Sweeping
      /\ "list_columns" \in Labels \ Locking /\ "list_columns" \in Sweeping
  BY DEF Labels, Sweeping, Locking
<1> DEFINE n == [r EXCEPT !.cols = cols, !.pc = label]
<1>5. n \in Locals
  BY <1>4 DEF Locals
<1>6. /\ n.pc = label /\ n.op = r.op /\ n.id = r.id /\ n.batch = r.batch
  BY DEF Locals
<1>7. Become(p, n) /\ Reads(p, "list_columns")
  BY <1>1, <1>2, <1>3 DEF ListColumns
<1> HIDE DEF n
<1>8. LabelOK(n, history, issued)
  BY <1>1, <1>3, <1>4, <1>6 DEF LabelOK
<1>9. QED BY <1>4, <1>5, <1>6, <1>7, <1>8, ReadKeepsType

LEMMA DeleteColumnRowType ==
    ASSUME TablesType, NEW x \in Columns, DeleteColumnRow(x)
    PROVE  /\ columns' \subseteq Columns
           /\ gone' \in [Cards \cup Columns \cup Boards -> Nat]
BY DEF TablesType, DeleteColumnRow

LEMMA DropColumnKeepsType ==
    ASSUME TypeInv, NEW p \in Procs, DropColumn(p)
    PROVE  TypeInv'
<1>1. PICK r \in Locals : r = req[p] /\ LabelOK(r, history, issued) /\ r.pc = "drop_column"
  BY AtType DEF DropColumn, Writes
<1>2. PICK x \in Columns :
        /\ DeleteColumnRow(x)
        /\ Become(p, IF columns' # columns
                     THEN [r EXCEPT !.pick = x, !.cols = @ \ {x}, !.pc = "record_column"]
                     ELSE [r EXCEPT !.cols = @ \ {x},
                              !.pc = IF r.cols = {x} THEN "drop_parent" ELSE "drop_column"])
  BY <1>1 DEF DropColumn, Locals
<1>3. PICK cols \in SUBSET Columns : cols = r.cols \ {x}
  BY DEF Locals
<1>4. PICK pick \in Cards \cup Columns \cup {NoOne} :
        pick = IF columns' # columns THEN x ELSE r.pick
  BY DEF Locals
<1>5. PICK label \in {"record_column", "drop_parent", "drop_column"} :
        label = IF columns' # columns THEN "record_column"
                ELSE IF r.cols = {x} THEN "drop_parent" ELSE "drop_column"
  OBVIOUS
<1>6. /\ label \in Labels \ Locking /\ label \in Sweeping
      /\ "drop_column" \in Labels \ Locking /\ "drop_column" \in Sweeping
  BY DEF Labels, Sweeping, Locking
<1> DEFINE n == [r EXCEPT !.pick = pick, !.cols = cols, !.pc = label]
<1>7. Become(p, n)
  <2>1. CASE columns' # columns
    BY <1>2, <1>3, <1>4, <1>5, <2>1
  <2>2. CASE columns' = columns
    <3>1. n = [r EXCEPT !.cols = cols, !.pc = label]
      BY <1>4, <2>2 DEF Locals
    <3>2. QED BY <1>2, <1>3, <1>5, <2>2, <3>1
  <2>3. QED BY <2>1, <2>2
<1>8. n \in Locals
  BY <1>6 DEF Locals
<1>9. n.pc = label /\ n.op = r.op /\ n.id = r.id /\ n.batch = r.batch /\ n.pick = pick
  BY DEF Locals
<1> HIDE DEF n
<1>10. LabelOK(n, history, issued)
  BY <1>1, <1>4, <1>5, <1>6, <1>9 DEF LabelOK
<1>11. TablesType' /\ rowLock' = rowLock /\ Writes(p, "drop_column")
  BY <1>2, DeleteColumnRowType DEF DropColumn, Writes, TypeInv, StateType, TablesType
<1>12. QED BY <1>6, <1>7, <1>8, <1>9, <1>10, <1>11, WriteKeepsType

LEMMA RecordColumnKeepsType ==
    ASSUME TypeInv, NEW p \in Procs, RecordColumn(p)
    PROVE  TypeInv'
<1>1. PICK r \in Locals : r = req[p] /\ LabelOK(r, history, issued) /\ r.pc = "record_column"
  BY AtType DEF RecordColumn, Records
<1>2. PICK label \in {"drop_parent", "drop_column"} :
        label = IF r.cols = {} THEN "drop_parent" ELSE "drop_column"
  OBVIOUS
<1>3. /\ label \in Labels \ Locking /\ label \in Sweeping
      /\ "record_column" \in Labels \ Locking /\ "record_column" \in Sweeping
  BY DEF Labels, Sweeping, Locking
<1> DEFINE n == [r EXCEPT !.pick = NoOne, !.pc = label]
<1>4. n \in Locals
  BY <1>3 DEF Locals
<1>5. n.pc = label /\ n.op = r.op /\ n.id = r.id /\ n.batch = r.batch
  BY DEF Locals
<1>6. Become(p, n) /\ Records(p, "record_column", "column", r.pick, NoRow)
  BY <1>1, <1>2 DEF RecordColumn
<1> HIDE DEF n
<1>7. LabelOK(n, history, issued)
  BY <1>1, <1>2, <1>3, <1>5 DEF LabelOK
<1>8. [kind |-> "column", id |-> r.pick, batch |-> r.batch, snap |-> NoRow] \in DeleteRow
  BY <1>1 DEF LabelOK, DeleteRow, Locals
<1>9. QED BY <1>1, <1>3, <1>4, <1>5, <1>6, <1>7, <1>8, RecordKeepsType

\* Handler p ends its request, or goes back to its sweep.
LEMMA RetryType ==
    ASSUME TypeInv, NEW p \in Procs, req[p].pc \in Sweeping, Retry(p) \/ Answer(p)
    PROVE  \E n \in Locals :
              /\ Become(p, n) /\ LabelOK(n, history, issued)
              /\ \/ n = Idle
                 \/ /\ n.pc = "sweep" /\ n.op = req[p].op /\ n.id = req[p].id
                    /\ n.batch = req[p].batch /\ n.todo = req[p].todo /\ n.pick = req[p].pick
<1>1. PICK r \in Locals : r = req[p] /\ LabelOK(r, history, issued)
  BY AtType
<1>2. CASE Answer(p)
  BY <1>2, IdleType DEF Answer
<1>3. CASE ~Answer(p)
  <2>1. r.tries + 1 # Attempts /\ Become(p, [r EXCEPT !.pc = "sweep", !.tries = @ + 1])
    BY <1>1, <1>3 DEF Retry
  <2>2. PICK k \in 0 .. Attempts - 1 : k = r.tries + 1
    BY <2>1, BoundsAssumption DEF Locals
  <2> DEFINE n == [r EXCEPT !.pc = "sweep", !.tries = k]
  <2>3. Become(p, n)
    BY <2>1, <2>2
  <2>4. "sweep" \in Labels /\ "sweep" \in Sweeping
    BY DEF Labels, Sweeping
  <2>5. n \in Locals
    BY <2>4 DEF Locals
  <2>6. n.pc = "sweep" /\ n.op = r.op /\ n.id = r.id /\ n.batch = r.batch
        /\ n.todo = r.todo /\ n.pick = r.pick
    BY DEF Locals
  <2> HIDE DEF n
  <2>7. LabelOK(n, history, issued)
    BY <1>1, <2>4, <2>6 DEF LabelOK
  <2>8. QED BY <1>1, <2>3, <2>5, <2>6, <2>7
<1>4. QED BY <1>2, <1>3

\* What becomes of the handler once the parent has had its DELETE.
LEMMA ParentType ==
    ASSUME TypeInv, NEW p \in Procs, req[p].pc = "drop_parent",
           Goto(p, "record_parent") \/ Retry(p) \/ Answer(p)
    PROVE  \E n \in Locals : Become(p, n) /\ LabelOK(n, history, issued) /\ n.pc \notin Locking
<1>1. "record_parent" \in Labels /\ {"record_parent", "drop_parent"} \subseteq Sweeping
      /\ {"record_parent", "sweep"} \cap Locking = {} /\ Idle.pc \notin Locking
  BY IdleType DEF Labels, Sweeping, Locking
<1>2. CASE Goto(p, "record_parent")
  <2>1. PICK n \in Locals :
          /\ Become(p, n) /\ n.pc = "record_parent" /\ n.op = req[p].op /\ n.id = req[p].id
          /\ n.batch = req[p].batch
    BY <1>1, <1>2, GotoType
  <2>2. LabelOK(n, history, issued)
    BY <1>1, <2>1, AtType DEF LabelOK
  <2>3. QED BY <1>1, <2>1, <2>2
<1>3. CASE Retry(p) \/ Answer(p)
  BY <1>1, <1>3, RetryType
<1>4. QED BY <1>2, <1>3

LEMMA DropColumnParentKeepsType ==
    ASSUME TypeInv, NEW p \in Procs, DropColumnParent(p)
    PROVE  TypeInv'
<1>1. req[p].pc = "drop_parent" /\ req[p].op = "delete_column" /\ Writes(p, "drop_parent")
      /\ "drop_parent" \in Labels \ Locking /\ "drop_parent" \in Sweeping
  BY DEF DropColumnParent, Writes, Labels, Locking, Sweeping
<1>2. req[p].id \in Columns
  BY <1>1, AtType DEF LabelOK
<1>3. TablesType' /\ rowLock' = rowLock
  BY <1>2, DeleteColumnRowType DEF DropColumnParent, Writes, TypeInv, StateType, TablesType
<1>4. Goto(p, "record_parent") \/ Retry(p) \/ Answer(p)
  BY DEF DropColumnParent
<1>5. QED BY <1>1, <1>3, <1>4, ParentType, WriteKeepsType

LEMMA DropBoardKeepsType ==
    ASSUME TypeInv, NEW p \in Procs, DropBoard(p)
    PROVE  TypeInv'
<1>1. req[p].pc = "drop_parent" /\ req[p].op = "delete_board" /\ Writes(p, "drop_parent")
      /\ "drop_parent" \in Labels \ Locking /\ "drop_parent" \in Sweeping
  BY DEF DropBoard, Writes, Labels, Locking, Sweeping
<1>2. req[p].id \in Boards
  BY <1>1, AtType DEF LabelOK
<1>3. TablesType' /\ rowLock' = rowLock
  BY <1>2 DEF DropBoard, Writes, TypeInv, StateType, TablesType
<1>4. Goto(p, "record_parent") \/ Retry(p) \/ Answer(p)
  BY DEF DropBoard
<1>5. QED BY <1>1, <1>3, <1>4, ParentType, WriteKeepsType

LEMMA RecordParentKeepsType ==
    ASSUME TypeInv, NEW p \in Procs, RecordParent(p)
    PROVE  TypeInv'
<1>1. PICK r \in Locals : r = req[p] /\ LabelOK(r, history, issued) /\ r.pc = "record_parent"
  BY AtType DEF RecordParent, Records
<1>2. "record_parent" \in Labels \ Locking /\ "record_parent" \in Sweeping
  BY DEF Labels, Locking, Sweeping
<1>3. PICK kind \in {"column", "board"} :
        kind = IF r.op = "delete_column" THEN "column" ELSE "board"
  OBVIOUS
<1>4. [kind |-> kind, id |-> r.id, batch |-> r.batch, snap |-> NoRow] \in DeleteRow
  BY <1>1, <1>2, <1>3 DEF LabelOK, DeleteRow, Locals
<1>5. Records(p, "record_parent", kind, r.id, NoRow) /\ Become(p, Idle)
  BY <1>1, <1>3 DEF RecordParent, Answer
<1>6. QED BY <1>1, <1>2, <1>4, <1>5, IdleType, RecordKeepsType DEF Locking

----------------------------------------------------------------------------
(* The restore's statements.                                               *)

\* The newest of some of history's rows is one of them.
LEMMA MaxIn ==
    ASSUME NEW n \in Nat, NEW S \in SUBSET (1 .. n), S # {}
    PROVE  Max(S) \in S /\ \A i \in S : i <= Max(S)
<1> DEFINE R == OpToRel(<, Nat)
           T == {n - i : i \in S}
<1>1. T \subseteq Nat /\ T # {}
  <2>1. \A i \in S : n - i \in Nat
    OBVIOUS
  <2>2. QED BY <2>1
<1>2. PICK x \in T : \A y \in T : <<y, x>> \notin R
  <2>1. IsWellFoundedOn(R, Nat)
    BY NatLessThanWellFounded
  <2> HIDE DEF R, T
  <2>2. QED BY <1>1, <2>1, WFMin
<1>3. \A y \in T : ~(y < x)
  BY <1>1, <1>2 DEF OpToRel
<1>4. PICK m \in S : x = n - m
  BY <1>2
<1>5. ASSUME NEW i \in S PROVE m >= i
  <2>1. n - i \in T
    OBVIOUS
  <2>2. ~(n - i < n - m)
    BY <1>3, <1>4, <2>1
  <2>3. i \in Nat /\ m \in Nat
    OBVIOUS
  <2>4. QED BY <2>2, <2>3
<1>6. Max(S) \in S /\ \A i \in S : Max(S) >= i
  <2>1. \E k \in S : \A y \in S : k >= y
    BY <1>5
  <2>2. Max(S) = CHOOSE k \in S : \A y \in S : k >= y
    BY DEF Max
  <2>3. QED BY <2>1, <2>2, Zenon
<1>7. QED BY <1>6

\* A restore's statements work on a delete row.
LEMMA NewestType ==
    ASSUME TypeInv, NEW p \in Procs, req[p].pc \in {"check_row", "check_parent", "reinsert"}
    PROVE  /\ Newest(p) \in req[p].rest
           /\ Newest(p) \in DOMAIN history
           /\ history[Newest(p)] \in DeleteRow
<1>1. history \in Seq(DeleteRow) /\ Len(history) \in Nat /\ DOMAIN history = 1 .. Len(history)
  BY DEF TypeInv, StateType
<1>2. req[p].rest \in SUBSET (1 .. Len(history)) /\ req[p].rest # {}
  BY AtType DEF LabelOK, Locals
<1>3. Newest(p) \in req[p].rest
  BY <1>1, <1>2, MaxIn DEF Newest
<1>4. QED BY <1>1, <1>2, <1>3

LEMMA ReadBatchKeepsType ==
    ASSUME TypeInv, NEW p \in Procs, ReadBatch(p)
    PROVE  TypeInv'
<1>1. PICK r \in Locals : r = req[p] /\ LabelOK(r, history, issued) /\ r.pc = "read_batch"
  BY AtType DEF ReadBatch, Reads
<1>2. PICK batch \in SUBSET (1 .. Len(history)) :
        batch = {i \in DOMAIN history : history[i].batch = r.batch}
  <2>1. DOMAIN history = 1 .. Len(history)
    BY DEF TypeInv, StateType
  <2>2. QED BY <2>1
<1>3. batch # {}
  <2>1. PICK i \in DOMAIN history : history[i].batch = r.batch
    BY <1>1 DEF LabelOK
  <2>2. QED BY <1>2, <2>1
<1>4. {"check_row", "read_batch"} \subseteq Labels \ Locking
  BY DEF Labels, Locking
<1> DEFINE n == [r EXCEPT !.pc = "check_row", !.rest = batch]
<1>5. n \in Locals
  BY <1>4 DEF Locals
<1>6. n.pc = "check_row" /\ n.rest = batch
  BY DEF Locals
<1>7. Become(p, n) /\ Reads(p, "read_batch")
  BY <1>1, <1>2 DEF ReadBatch
<1> HIDE DEF n
<1>8. LabelOK(n, history, issued)
  BY <1>3, <1>6 DEF LabelOK, Sweeping
<1>9. QED BY <1>4, <1>5, <1>6, <1>7, <1>8, ReadKeepsType

\* A restore that goes on to another statement about the row it is at.
LEMMA RestoreGoesOn ==
    ASSUME TypeInv, NEW p \in Procs, NEW label \in {"check_row", "check_parent"},
           Reads(p, label), NEW next \in {"check_parent", "reinsert"},
           Goto(p, next) \/ Answer(p)
    PROVE  TypeInv'
<1>1. req[p].pc = label /\ {label, next} \subseteq Labels \ Locking
  BY DEF Reads, Labels, Locking
<1>2. CASE Goto(p, next)
  <2>1. PICK n \in Locals : Become(p, n) /\ n.pc = next /\ n.rest = req[p].rest
    BY <1>1, <1>2, GotoType
  <2>2. LabelOK(n, history, issued)
    BY <1>1, <2>1, AtType DEF LabelOK, Sweeping
  <2>3. QED BY <1>1, <2>1, <2>2, ReadKeepsType
<1>3. CASE Answer(p)
  BY <1>1, <1>3, AnswerKeepsType
<1>4. QED BY <1>2, <1>3

LEMMA CheckRowKeepsType ==
    ASSUME TypeInv, NEW p \in Procs, CheckRow(p)
    PROVE  TypeInv'
BY RestoreGoesOn DEF CheckRow

LEMMA CheckParentKeepsType ==
    ASSUME TypeInv, NEW p \in Procs, CheckParent(p)
    PROVE  TypeInv'
BY RestoreGoesOn DEF CheckParent

LEMMA ReinsertKeepsType ==
    ASSUME TypeInv, NEW p \in Procs, Reinsert(p)
    PROVE  TypeInv'
<1>1. PICK r \in Locals : r = req[p] /\ LabelOK(r, history, issued) /\ r.pc = "reinsert"
  BY AtType DEF Reinsert, Writes
<1>2. PICK row \in DeleteRow : row = history[Newest(p)]
  BY <1>1, NewestType
<1>3. PICK rest \in SUBSET (1 .. Len(history)) : rest = r.rest \ {Newest(p)}
  BY DEF Locals
<1>4. {"check_row", "reinsert"} \subseteq Labels \ Locking /\ Idle.pc \notin Locking
  BY IdleType DEF Labels, Locking
<1>5. TablesType'
  <2>1. /\ row.kind = "card" => row.id \in Cards /\ row.snap \in Row
        /\ row.kind = "column" => row.id \in Columns
        /\ row.kind = "board" => row.id \in Boards
    BY DEF DeleteRow
  <2>2. TablesType
    BY DEF TypeInv, StateType
  <2>3. card' \in [Cards -> Row \cup {NoRow}]
    BY <1>2, <2>1, <2>2 DEF Reinsert, TablesType
  <2>4. columns' \subseteq Columns /\ boards' \subseteq Boards
    BY <1>2, <2>1, <2>2 DEF Reinsert, TablesType
  <2>5. QED BY <2>2, <2>3, <2>4 DEF Reinsert, Writes, TablesType
<1> DEFINE n == [r EXCEPT !.rest = rest, !.pc = "check_row"]
<1>6. (rest # {} /\ Become(p, n)) \/ Answer(p)
  BY <1>1, <1>3 DEF Reinsert
<1>7. rowLock' = rowLock /\ Writes(p, "reinsert")
  BY DEF Reinsert
<1>8. CASE rest # {} /\ Become(p, n)
  <2>1. n \in Locals
    BY <1>4 DEF Locals
  <2>2. n.pc = "check_row" /\ n.rest = rest
    BY DEF Locals
  <2> HIDE DEF n
  <2>3. LabelOK(n, history, issued)
    BY <1>8, <2>2 DEF LabelOK, Sweeping
  <2>4. QED BY <1>4, <1>5, <1>7, <1>8, <2>1, <2>2, <2>3, WriteKeepsType
<1>9. CASE Answer(p)
  BY <1>4, <1>5, <1>7, <1>9, IdleType, WriteKeepsType DEF Answer
<1>10. QED BY <1>6, <1>8, <1>9

LEMMA DroppedKeepsType ==
    ASSUME TypeInv, NEW p \in Procs, Dropped(p)
    PROVE  TypeInv'
<1>1. TypeInv /\ Become(p, Idle)
  BY DEF Dropped, Answer
<1>2. /\ Grows /\ history' = history /\ issued' = issued /\ issued \in Nat /\ dropped' \in Nat
      /\ TablesType'
  BY DEF Dropped, tables, Grows, TypeInv, StateType, TablesType
<1>3. Idle \in Locals'
  BY <1>2, IdleType DEF Locals
<1>4. ASSUME NEW q \in Procs PROVE HoldsItsCard(q)'
  <2>1. HoldsItsCard(q) /\ req \in [Procs -> Locals]
    BY DEF TypeInv, StateType
  <2>2. req'[q] = IF q = p THEN Idle ELSE req[q]
    BY <1>1, <2>1 DEF Become
  <2>3. {c \in Cards : rowLock'[c] = q} = IF q = p THEN {} ELSE {c \in Cards : rowLock[c] = q}
    BY NoneAssumption DEF Dropped
  <2>4. QED BY <2>1, <2>2, <2>3, IdleType DEF HoldsItsCard
<1>5. QED BY <1>1, <1>2, <1>3, <1>4, IdleType, StepKeepsType

----------------------------------------------------------------------------
(* The arrivals.                                                           *)

\* A request that arrives is typed when the locals n it goes on with are.
LEMMA ArriveKeepsType ==
    ASSUME TypeInv, NEW p \in Procs, NEW o, NEW r, Arrive(p, o, r),
           NEW n \in Locals, n = [r EXCEPT !.op = o],
           n.pc \notin Locking, LabelOK(n, history, issued + 1),
           used' \subseteq Cards \cup Columns
    PROVE  TypeInv'
<1>2. Become(p, n)
  BY DEF Arrive
<1>3. /\ Grows /\ history' = history /\ issued \in Nat /\ issued' = issued + 1
      /\ dropped' \in Nat /\ rowLock' = rowLock /\ TablesType'
  BY DEF Arrive, Grows, TypeInv, StateType, TablesType
<1>4. n \in Locals'
  BY <1>3 DEF Locals
<1>5. req[p].pc \notin Locking
  BY IdleType DEF Arrive, Locking
<1>6. \A q \in Procs : HoldsItsCard(q)'
  BY <1>2, <1>3, <1>4, <1>5, LocksStay
<1>7. QED BY <1>2, <1>3, <1>4, <1>6, StepKeepsType

LEMMA CreateCardArrivesType ==
    ASSUME TypeInv, NEW p \in Procs, NEW x \in Columns, NEW c \in Cards, NEW b \in Bodies,
           CreateCardArrives(p, x, c, b)
    PROVE  TypeInv'
<1> DEFINE r == [Idle EXCEPT !.pc = "insert_card", !.id = c, !.col = x, !.body = b]
           n == [r EXCEPT !.op = "create_card"]
<1>1. {"insert_card"} \subseteq Labels \ (Locking \cup Sweeping) /\ "create_card" \in AllOps
  BY DEF Labels, Locking, Sweeping, AllOps
<1>2. n \in Locals
  BY <1>1, IdleType DEF Locals
<1>3. n.pc = "insert_card" /\ n.id = c /\ n.col = x /\ n.body = b
  BY IdleType DEF Locals
<1>4. used' \subseteq Cards \cup Columns /\ Arrive(p, "create_card", r)
  BY DEF CreateCardArrives, TypeInv, StateType, TablesType
<1>5. n = [r EXCEPT !.op = "create_card"]
  OBVIOUS
<1> HIDE DEF n, r
<1>6. LabelOK(n, history, issued + 1)
  BY <1>1, <1>3 DEF LabelOK
<1>7. QED BY <1>1, <1>2, <1>3, <1>4, <1>5, <1>6, ArriveKeepsType

LEMMA CreateColumnArrivesType ==
    ASSUME TypeInv, NEW p \in Procs, NEW x \in Columns, CreateColumnArrives(p, x)
    PROVE  TypeInv'
<1> DEFINE r == [Idle EXCEPT !.pc = "insert_column", !.id = x]
           n == [r EXCEPT !.op = "create_column"]
<1>1. {"insert_column"} \subseteq Labels \ (Locking \cup Sweeping) /\ "create_column" \in AllOps
  BY DEF Labels, Locking, Sweeping, AllOps
<1>2. n \in Locals
  BY <1>1, IdleType DEF Locals
<1>3. n.pc = "insert_column" /\ n.id = x
  BY IdleType DEF Locals
<1>4. used' \subseteq Cards \cup Columns /\ Arrive(p, "create_column", r)
  BY DEF CreateColumnArrives, TypeInv, StateType, TablesType
<1>5. n = [r EXCEPT !.op = "create_column"]
  OBVIOUS
<1> HIDE DEF n, r
<1>6. LabelOK(n, history, issued + 1)
  BY <1>1, <1>3 DEF LabelOK
<1>7. QED BY <1>1, <1>2, <1>3, <1>4, <1>5, <1>6, ArriveKeepsType

LEMMA MoveArrivesType ==
    ASSUME TypeInv, NEW p \in Procs, NEW c \in Cards, NEW x \in Columns, MoveArrives(p, c, x)
    PROVE  TypeInv'
<1> DEFINE r == [Idle EXCEPT !.pc = "load_target", !.id = c, !.col = x, !.old = card[c]]
           n == [r EXCEPT !.op = "move"]
<1>1. {"load_target"} \subseteq Labels \ (Locking \cup Sweeping) /\ "move" \in AllOps
  BY DEF Labels, Locking, Sweeping, AllOps
<1>2. card[c] \in Row
  BY DEF MoveArrives, TypeInv, StateType, TablesType
<1>3. n \in Locals
  BY <1>1, <1>2, IdleType DEF Locals
<1>4. n.pc = "load_target" /\ n.op = "move" /\ n.id = c /\ n.col = x /\ n.old = card[c]
  BY IdleType DEF Locals
<1>5. used' \subseteq Cards \cup Columns /\ Arrive(p, "move", r)
  BY DEF MoveArrives, TypeInv, StateType, TablesType
<1>6. n = [r EXCEPT !.op = "move"]
  OBVIOUS
<1> HIDE DEF n, r
<1>7. LabelOK(n, history, issued + 1)
  BY <1>1, <1>2, <1>4 DEF LabelOK
<1>8. QED BY <1>1, <1>3, <1>4, <1>5, <1>6, <1>7, ArriveKeepsType

LEMMA UpdateArrivesType ==
    ASSUME TypeInv, NEW p \in Procs, NEW c \in Cards, NEW x \in Columns \cup {NoOne},
           NEW b \in Bodies \cup {NoOne}, UpdateArrives(p, c, x, b)
    PROVE  TypeInv'
<1> DEFINE r == [Idle EXCEPT !.pc = "find_home", !.id = c, !.col = x, !.body = b,
                             !.old = card[c]]
           n == [r EXCEPT !.op = "update"]
<1>1. {"find_home"} \subseteq Labels \ (Locking \cup Sweeping) /\ "update" \in AllOps
  BY DEF Labels, Locking, Sweeping, AllOps
<1>2. card[c] \in Row
  BY DEF UpdateArrives, TypeInv, StateType, TablesType
<1>3. n \in Locals
  BY <1>1, <1>2, IdleType DEF Locals
<1>4. n.pc = "find_home" /\ n.op = "update" /\ n.id = c /\ n.old = card[c]
  BY IdleType DEF Locals
<1>5. used' \subseteq Cards \cup Columns /\ Arrive(p, "update", r)
  BY DEF UpdateArrives, TypeInv, StateType, TablesType
<1>6. n = [r EXCEPT !.op = "update"]
  OBVIOUS
<1> HIDE DEF n, r
<1>7. LabelOK(n, history, issued + 1)
  BY <1>1, <1>2, <1>4 DEF LabelOK
<1>8. QED BY <1>1, <1>3, <1>4, <1>5, <1>6, <1>7, ArriveKeepsType

LEMMA RestoreContentArrivesType ==
    ASSUME TypeInv, NEW p \in Procs, NEW c \in Cards, NEW b \in Bodies,
           RestoreContentArrives(p, c, b)
    PROVE  TypeInv'
<1> DEFINE r == [Idle EXCEPT !.pc = "write", !.id = c, !.body = b]
           n == [r EXCEPT !.op = "restore_content"]
<1>1. {"write"} \subseteq Labels \ (Locking \cup Sweeping) /\ "restore_content" \in AllOps
  BY DEF Labels, Locking, Sweeping, AllOps
<1>2. n \in Locals
  BY <1>1, IdleType DEF Locals
<1>3. n.pc = "write" /\ n.id = c
  BY IdleType DEF Locals
<1>4. used' \subseteq Cards \cup Columns /\ Arrive(p, "restore_content", r)
  BY DEF RestoreContentArrives, TypeInv, StateType, TablesType
<1>5. n = [r EXCEPT !.op = "restore_content"]
  OBVIOUS
<1> HIDE DEF n, r
<1>6. LabelOK(n, history, issued + 1)
  BY <1>1, <1>3 DEF LabelOK
<1>7. QED BY <1>1, <1>2, <1>3, <1>4, <1>5, <1>6, ArriveKeepsType

LEMMA DeleteCardArrivesType ==
    ASSUME TypeInv, NEW p \in Procs, NEW c \in Cards, DeleteCardArrives(p, c)
    PROVE  TypeInv'
<1> DEFINE r == [Idle EXCEPT !.pc = "record_card", !.id = c, !.old = card[c]]
           n == [r EXCEPT !.op = "delete_card"]
<1>1. {"record_card"} \subseteq Labels \ (Locking \cup Sweeping) /\ "delete_card" \in AllOps
  BY DEF Labels, Locking, Sweeping, AllOps
<1>2. card[c] \in Row
  BY DEF DeleteCardArrives, TypeInv, StateType, TablesType
<1>3. n \in Locals
  BY <1>1, <1>2, IdleType DEF Locals
<1>4. n.pc = "record_card" /\ n.id = c /\ n.old = card[c] /\ n.batch = 0
  BY IdleType DEF Locals, Idle
<1>5. used' \subseteq Cards \cup Columns /\ Arrive(p, "delete_card", r)
  BY DEF DeleteCardArrives, TypeInv, StateType, TablesType
<1>6. n = [r EXCEPT !.op = "delete_card"]
  OBVIOUS
<1> HIDE DEF n, r
<1>7. LabelOK(n, history, issued + 1)
  BY <1>1, <1>2, <1>4 DEF LabelOK
<1>8. QED BY <1>1, <1>3, <1>4, <1>5, <1>6, <1>7, ArriveKeepsType

\* A cascade of a column, or of a board, arrives.
LEMMA CascadeArrivesType ==
    ASSUME TypeInv, NEW p \in Procs, NEW x,
           \/ x \in Columns /\ DeleteColumnArrives(p, x)
           \/ x \in Boards /\ DeleteBoardArrives(p, x)
    PROVE  TypeInv'
<1>1. PICK o \in {"delete_column", "delete_board"} :
        /\ Arrive(p, o, [Idle EXCEPT !.pc = "sweep", !.id = x, !.batch = issued + 1])
        /\ o = "delete_column" => x \in Columns
        /\ o = "delete_board" => x \in Boards
        /\ used' = used
  BY DEF DeleteColumnArrives, DeleteBoardArrives
<1>2. "sweep" \in Labels \ Locking /\ "sweep" \in Sweeping /\ o \in AllOps
  BY DEF Labels, Locking, Sweeping, AllOps
<1>3. issued \in Nat /\ x \in Columns \cup Boards
  BY <1>1 DEF TypeInv, StateType
<1>4. PICK k \in Nat, id \in Cards \cup Columns \cup Boards \cup {NoOne} :
        k = issued + 1 /\ id = x
  BY <1>3
<1> DEFINE r == [Idle EXCEPT !.pc = "sweep", !.id = id, !.batch = k]
           n == [r EXCEPT !.op = o]
<1>5. n \in Locals
  BY <1>2, IdleType DEF Locals
<1>6. n.pc = "sweep" /\ n.op = o /\ n.id = id /\ n.batch = k
  BY IdleType DEF Locals
<1>7. used' \subseteq Cards \cup Columns /\ Arrive(p, o, r)
  BY <1>1, <1>4 DEF TypeInv, StateType, TablesType
<1>8. n = [r EXCEPT !.op = o]
  OBVIOUS
<1> HIDE DEF n, r
<1>9. LabelOK(n, history, issued + 1) /\ n.pc \notin Locking
  BY <1>1, <1>2, <1>3, <1>4, <1>6 DEF LabelOK
<1>10. QED BY <1>5, <1>7, <1>8, <1>9, ArriveKeepsType

LEMMA RestoreArrivesType ==
    ASSUME TypeInv, NEW p \in Procs, NEW i \in DOMAIN history, RestoreArrives(p, i)
    PROVE  TypeInv'
<1>1. history[i] \in DeleteRow /\ i \in 1 .. Len(history) /\ history[i].batch \in Nat
  BY DEF TypeInv, StateType, DeleteRow
<1>2. PICK rest \in SUBSET (1 .. Len(history)), label \in {"check_row", "read_batch"} :
        /\ rest = IF history[i].kind = "card" THEN {i} ELSE {}
        /\ label = IF history[i].kind = "card" THEN "check_row" ELSE "read_batch"
  <2>1. {i} \in SUBSET (1 .. Len(history)) /\ {} \in SUBSET (1 .. Len(history))
    BY <1>1
  <2>2. QED BY <2>1
<1> DEFINE r == [Idle EXCEPT !.batch = history[i].batch, !.rest = rest, !.pc = label]
           n == [r EXCEPT !.op = "restore"]
<1>3. label \in Labels \ (Locking \cup Sweeping) /\ "restore" \in AllOps
  BY DEF Labels, Locking, Sweeping, AllOps
<1>4. n \in Locals
  BY <1>1, <1>3, IdleType DEF Locals
<1>5. n.pc = label /\ n.rest = rest /\ n.batch = history[i].batch
  BY IdleType DEF Locals
<1>6. used' \subseteq Cards \cup Columns /\ Arrive(p, "restore", r)
  <2>1. used' \subseteq Cards \cup Columns
    BY DEF RestoreArrives, TypeInv, StateType, TablesType
  <2>2. r = [Idle EXCEPT !.batch = history[i].batch,
                         !.rest = IF history[i].kind = "card" THEN {i} ELSE {},
                         !.pc = IF history[i].kind = "card" THEN "check_row" ELSE "read_batch"]
    BY <1>2
  <2> HIDE DEF r
  <2>3. QED BY <2>1, <2>2 DEF RestoreArrives
<1>7. n = [r EXCEPT !.op = "restore"]
  OBVIOUS
<1> HIDE DEF n, r
<1>8. LabelOK(n, history, issued + 1)
  BY <1>2, <1>3, <1>5 DEF LabelOK
<1>9. QED BY <1>3, <1>4, <1>5, <1>6, <1>7, <1>8, ArriveKeepsType

LEMMA ArrivalsKeepType ==
    ASSUME TypeInv, NEW p \in Procs, Arrivals(p)
    PROVE  TypeInv'
BY CreateCardArrivesType, CreateColumnArrivesType, MoveArrivesType, UpdateArrivesType,
   RestoreContentArrivesType, DeleteCardArrivesType, CascadeArrivesType, RestoreArrivesType
   DEF Arrivals

----------------------------------------------------------------------------

LEMMA StepsKeepType ==
    ASSUME TypeInv, NEW p \in Procs, Step(p)
    PROVE  TypeInv'
BY InsertCardKeepsType, InsertColumnKeepsType, FindHomeKeepsType, LoadTargetKeepsType,
   WriteCardKeepsType, RecordCardKeepsType, DropCardKeepsType, SweepKeepsType,
   LockCardKeepsType, RecordSweptKeepsType, DropSweptKeepsType, ListColumnsKeepsType,
   DropColumnKeepsType, RecordColumnKeepsType, DropColumnParentKeepsType,
   DropBoardKeepsType, RecordParentKeepsType, ReadBatchKeepsType, CheckRowKeepsType,
   CheckParentKeepsType, ReinsertKeepsType
   DEF Step

LEMMA InitType == Init => TypeInv
<1> SUFFICES ASSUME Init PROVE TypeInv
  OBVIOUS
<1>1. TablesType
  BY FirstAssumption, NoneAssumption DEF Init, TablesType
<1>2. StateType
  BY <1>1, IdleType DEF Init, StateType
<1>3. ASSUME NEW p \in Procs PROVE HoldsItsCard(p) /\ LabelOK(req[p], history, issued)
  <2>1. req[p] = Idle /\ {c \in Cards : rowLock[c] = p} = {}
    BY NoneAssumption DEF Init
  <2>2. QED BY <2>1, IdleType DEF HoldsItsCard
<1>4. QED BY <1>2, <1>3 DEF TypeInv

LEMMA NextKeepsType == TypeInv /\ [Next]_vars => TypeInv'
<1> SUFFICES ASSUME TypeInv, [Next]_vars PROVE TypeInv'
  OBVIOUS
<1>1. CASE UNCHANGED vars
  <2>1. \A r : r \in Locals <=> r \in Locals'
    BY <1>1 DEF Locals, vars
  <2>2. StateType'
    BY <1>1, <2>1 DEF TypeInv, StateType, TablesType, vars, tables
  <2>3. ASSUME NEW p \in Procs PROVE HoldsItsCard(p)' /\ LabelOK(req'[p], history', issued')
    BY <1>1 DEF TypeInv, HoldsItsCard, vars
  <2>4. QED BY <2>2, <2>3 DEF TypeInv
<1>2. CASE Next
  BY <1>2, ArrivalsKeepType, StepsKeepType, DroppedKeepsType DEF Next
<1>3. QED BY <1>1, <1>2

----------------------------------------------------------------------------
(* What a statement of handler p makes of its request.                     *)

\* The other handlers stay as they are; p is done, or goes on with the same request.
GoesOn(p) ==
    /\ \A q \in Procs \ {p} : req'[q] = req[q]
    /\ \/ req'[p] = Idle
       \/ /\ ~Inserting(p) /\ ~Inserting(p)'
          /\ Cascading(p)' => Cascading(p)
          /\ req'[p].op = req[p].op /\ req'[p].id = req[p].id /\ req'[p].batch = req[p].batch
          /\ req'[p].pick \in {req[p].pick, NoOne} \cup Present \cup columns

LEMMA Becomes ==
    ASSUME TypeInv, NEW p \in Procs, NEW n, Become(p, n)
    PROVE  req'[p] = n /\ \A q \in Procs \ {p} : req'[q] = req[q]
BY DEF Become, TypeInv, StateType

LEMMA AnswerGoesOn ==
    ASSUME TypeInv, NEW p \in Procs, Answer(p)
    PROVE  GoesOn(p) /\ req'[p] = Idle
BY Becomes DEF Answer, GoesOn

LEMMA GotoGoesOn ==
    ASSUME TypeInv, NEW p \in Procs, NEW label \in Labels, Goto(p, label),
           ~Inserting(p), label \notin {"insert_card", "insert_column"},
           label \in Sweeping => Cascading(p)
    PROVE  /\ GoesOn(p)
           /\ req'[p].pc = label /\ req'[p].todo = req[p].todo
           /\ req'[p].pick = req[p].pick /\ req'[p].old = req[p].old
<1>1. PICK n \in Locals :
        /\ Become(p, n) /\ n.pc = label /\ n.op = req[p].op /\ n.id = req[p].id
        /\ n.batch = req[p].batch /\ n.todo = req[p].todo /\ n.pick = req[p].pick
        /\ n.old = req[p].old
  BY GotoType
<1>2. QED BY <1>1, Becomes DEF GoesOn, Inserting, Cascading

LEMMA NextSweptGoesOn ==
    ASSUME TypeInv, NEW p \in Procs, NEW left \in SUBSET (Cards \X Columns), Cascading(p),
           Become(p, NextSwept(req[p], left))
    PROVE  /\ GoesOn(p)
           /\ req'[p].pc \in Sweeping \ Locking
           /\ req'[p].todo = left /\ req'[p].pick = NoOne
<1>1. PICK n \in Locals :
        /\ n = NextSwept(req[p], left)
        /\ n.pc \in Sweeping \ Locking /\ n.op = req[p].op /\ n.id = req[p].id
        /\ n.batch = req[p].batch /\ n.todo = left /\ n.pick = NoOne
  BY AtType, NextSweptType DEF Cascading
<1>2. QED BY <1>1, Becomes DEF GoesOn, Inserting, Cascading, Sweeping

LEMMA FindHomeGoesOn ==
    ASSUME TypeInv, NEW p \in Procs, FindHome(p)
    PROVE  GoesOn(p) /\ req'[p].pc \in {"idle", "write", "load_target"}
<1>1. req[p] \in Locals /\ req[p].pc = "find_home"
  BY AtType DEF FindHome, Reads
<1>2. CASE Answer(p)
  BY <1>2, AnswerGoesOn DEF Idle
<1>3. ASSUME NEW next \in {"write", "load_target"}, NEW here,
             Become(p, [req[p] EXCEPT !.pc = next, !.home = here])
      PROVE  GoesOn(p) /\ req'[p].pc = next
  <2> DEFINE n == [req[p] EXCEPT !.pc = next, !.home = here]
  <2>1. /\ n.pc = next /\ n.op = req[p].op /\ n.id = req[p].id
        /\ n.batch = req[p].batch /\ n.pick = req[p].pick
    BY <1>1 DEF Locals
  <2> HIDE DEF n
  <2>2. QED BY <1>1, <1>3, <2>1, Becomes DEF n, GoesOn, Inserting, Cascading, Sweeping
<1>4. QED BY <1>2, <1>3 DEF FindHome

LEMMA SweepGoesOn ==
    ASSUME TypeInv, NEW p \in Procs, Sweep(p)
    PROVE  /\ GoesOn(p)
           /\ req'[p].pc \in Sweeping \ Locking
           /\ \A t \in req'[p].todo : InScope(req[p], t[2])
<1>1. req[p] \in Locals /\ Cascading(p)
  BY AtType DEF Sweep, Reads, Cascading, Sweeping
<1>2. PICK left \in SUBSET (Cards \X Columns) :
        Become(p, NextSwept(req[p], left)) /\ \A t \in left : InScope(req[p], t[2])
  <2>1. \A d \in Present : card[d].column \in Columns /\ d \in Cards
    BY DEF TypeInv, StateType, TablesType, Present, Row
  <2> DEFINE left == {<<c, card[c].column>> :
                        c \in {d \in Present : InScope(req[p], card[d].column)}}
  <2>2. left \in SUBSET (Cards \X Columns)
    BY <2>1
  <2>3. \A t \in left : InScope(req[p], t[2])
    OBVIOUS
  <2>4. Become(p, NextSwept(req[p], left))
    BY DEF Sweep
  <2> HIDE DEF left
  <2>5. QED BY <2>2, <2>3, <2>4
<1>3. QED BY <1>1, <1>2, NextSweptGoesOn

\* A cascade goes on to the next swept card, or has locked the row of one that is where it
\* was when it was swept.
LEMMA LockCardGoesOn ==
    ASSUME TypeInv, NEW p \in Procs, LockCard(p)
    PROVE  /\ GoesOn(p)
           /\ req[p].pc = "lock_card" /\ Cascading(p)
           /\ req'[p].todo \subseteq req[p].todo
           /\ req'[p].pc \in Sweeping \ {"drop_swept", "record_column", "record_parent"}
           /\ req'[p].pc \in Locking =>
                 \E t \in req[p].todo :
                    /\ t[1] \in Cards /\ rowLock[t[1]] = NoOne /\ card[t[1]] # NoRow
                    /\ card[t[1]].column = t[2]
                    /\ req'[p].pick = t[1] /\ req'[p].old = card[t[1]]
<1>1. req[p] \in Locals /\ req[p].pc = "lock_card" /\ Cascading(p) /\ ~Inserting(p)
  BY AtType DEF LockCard, Cascading, Sweeping, Inserting
<1>2. PICK t \in req[p].todo :
        /\ rowLock[t[1]] = NoOne
        /\ IF card[t[1]] # NoRow /\ card[t[1]].column = t[2]
           THEN Become(p, [req[p] EXCEPT !.pick = t[1], !.old = card[t[1]],
                                         !.todo = @ \ {t}, !.pc = "record_swept"])
           ELSE Become(p, NextSwept(req[p], req[p].todo \ {t}))
  BY DEF LockCard
<1>3. req[p].todo \in SUBSET (Cards \X Columns) /\ t[1] \in Cards
  BY <1>1 DEF Locals
<1>4. CASE card[t[1]] # NoRow /\ card[t[1]].column = t[2]
  <2> DEFINE n == [req[p] EXCEPT !.pick = t[1], !.old = card[t[1]],
                                 !.todo = @ \ {t}, !.pc = "record_swept"]
  <2>1. Become(p, n)
    BY <1>2, <1>4
  <2>2. /\ n.pc = "record_swept" /\ n.op = req[p].op /\ n.id = req[p].id
        /\ n.batch = req[p].batch /\ n.pick = t[1] /\ n.old = card[t[1]]
        /\ n.todo \subseteq req[p].todo
    BY <1>1 DEF Locals
  <2> HIDE DEF n
  <2>3. t[1] \in Present
    BY <1>3, <1>4 DEF Present
  <2>4. "record_swept" \in Sweeping \ {"drop_swept", "record_column", "record_parent"}
    BY DEF Sweeping
  <2>5. req'[p] = n /\ \A q \in Procs \ {p} : req'[q] = req[q]
    BY <2>1, Becomes
  <2>6. GoesOn(p)
    BY <1>1, <2>2, <2>3, <2>5 DEF GoesOn, Inserting, Cascading
  <2>7. QED BY <1>1, <1>2, <1>3, <1>4, <2>2, <2>4, <2>5, <2>6
<1>5. CASE ~(card[t[1]] # NoRow /\ card[t[1]].column = t[2])
  <2>1. Become(p, NextSwept(req[p], req[p].todo \ {t}))
    BY <1>2, <1>5
  <2>2. NextSwept(req[p], req[p].todo \ {t}).pc \in {"lock_card", "drop_parent", "list_columns"}
    BY <1>1 DEF NextSwept, Locals
  <2>3. req'[p].pc \in {"lock_card", "drop_parent", "list_columns"}
    BY <2>1, <2>2, Becomes
  <2>4. GoesOn(p) /\ req'[p].todo = req[p].todo \ {t} /\ req'[p].pc \in Sweeping \ Locking
    BY <1>1, <1>3, <2>1, NextSweptGoesOn
  <2>5. QED BY <1>1, <2>3, <2>4
<1>6. QED BY <1>4, <1>5

LEMMA RecordSweptGoesOn ==
    ASSUME TypeInv, NEW p \in Procs, RecordSwept(p)
    PROVE  /\ GoesOn(p) /\ Cascading(p) /\ req[p].pc = "record_swept"
           /\ req'[p].pc = "drop_swept" /\ req'[p].todo = req[p].todo
           /\ req'[p].pick = req[p].pick /\ req'[p].old = req[p].old
           /\ req'[p].batch = req[p].batch
<1>1. /\ req[p].pc = "record_swept" /\ Cascading(p) /\ ~Inserting(p) /\ "drop_swept" \in Labels
      /\ Goto(p, "drop_swept")
  BY DEF RecordSwept, Records, Cascading, Sweeping, Inserting, Labels
<1>2. GoesOn(p)
  BY <1>1, GotoGoesOn
<1>3. PICK n \in Locals :
        /\ Become(p, n) /\ n.pc = "drop_swept" /\ n.batch = req[p].batch
        /\ n.todo = req[p].todo /\ n.pick = req[p].pick /\ n.old = req[p].old
  BY <1>1, GotoType
<1>4. QED BY <1>1, <1>2, <1>3, Becomes

LEMMA DropSweptGoesOn ==
    ASSUME TypeInv, NEW p \in Procs, DropSwept(p)
    PROVE  /\ GoesOn(p) /\ Cascading(p) /\ req[p].pc = "drop_swept"
           /\ req'[p].pc \notin Locking
           /\ req'[p].pc \notin {"record_parent", "record_column", "drop_card"}
           /\ Cascading(p)' => req'[p].todo = req[p].todo
<1>1. req[p] \in Locals /\ req[p].pc = "drop_swept" /\ Cascading(p)
  BY AtType DEF DropSwept, Writes, Cascading, Sweeping
<1>2. CASE Answer(p)
  BY <1>1, <1>2, AnswerGoesOn DEF Idle, Cascading, Sweeping, Locking
<1>3. CASE Become(p, NextSwept(req[p], req[p].todo))
  <2>1. req[p].todo \in SUBSET (Cards \X Columns)
    BY <1>1 DEF Locals
  <2>2. NextSwept(req[p], req[p].todo).pc \in {"lock_card", "drop_parent", "list_columns"}
    BY <1>1 DEF NextSwept, Locals
  <2>3. req'[p].pc \in {"lock_card", "drop_parent", "list_columns"}
    BY <1>3, <2>2, Becomes
  <2>4. QED BY <1>1, <1>3, <2>1, <2>3, NextSweptGoesOn
<1>4. QED BY <1>2, <1>3 DEF DropSwept

LEMMA ListColumnsGoesOn ==
    ASSUME TypeInv, NEW p \in Procs, ListColumns(p)
    PROVE  /\ GoesOn(p) /\ Cascading(p)
           /\ req'[p].pc \in {"drop_parent", "drop_column"} /\ req'[p].todo = req[p].todo
<1>1. req[p] \in Locals /\ req[p].pc = "list_columns" /\ Cascading(p) /\ ~Inserting(p)
  BY AtType DEF ListColumns, Reads, Cascading, Sweeping, Inserting
<1>2. PICK label \in {"drop_parent", "drop_column"} :
        label = IF ColumnsOf(req[p].id) = {} THEN "drop_parent" ELSE "drop_column"
  OBVIOUS
<1> DEFINE n == [req[p] EXCEPT !.cols = ColumnsOf(req[p].id), !.pc = label]
<1>3. /\ n.pc = label /\ n.op = req[p].op /\ n.id = req[p].id /\ n.batch = req[p].batch
      /\ n.pick = req[p].pick /\ n.todo = req[p].todo
  BY <1>1 DEF Locals
<1>4. Become(p, n)
  BY <1>2 DEF ListColumns
<1> HIDE DEF n
<1>5. QED BY <1>1, <1>3, <1>4, Becomes DEF GoesOn, Inserting, Cascading, Sweeping

\* The column whose DELETE found it and no card in it is the one to record.
LEMMA DropColumnGoesOn ==
    ASSUME TypeInv, NEW p \in Procs, DropColumn(p)
    PROVE  /\ GoesOn(p) /\ Cascading(p) /\ req[p].pc = "drop_column"
           /\ req'[p].todo = req[p].todo
           /\ \/ /\ columns' = columns /\ gone' = gone
                 /\ req'[p].pc \in {"drop_parent", "drop_column"}
              \/ /\ req'[p].pc = "record_column" /\ req'[p].pick \in Columns
                 /\ columns' = columns \ {req'[p].pick}
                 /\ gone' = [gone EXCEPT ![req'[p].pick] = @ + 1]
<1>1. /\ req[p] \in Locals /\ req[p].pc = "drop_column" /\ Cascading(p) /\ ~Inserting(p)
      /\ columns \subseteq Columns
  BY AtType DEF DropColumn, Writes, Cascading, Sweeping, Inserting, TypeInv, StateType, TablesType
<1>2. PICK x \in Columns :
        /\ DeleteColumnRow(x)
        /\ Become(p, IF columns' # columns
                     THEN [req[p] EXCEPT !.pick = x, !.cols = @ \ {x}, !.pc = "record_column"]
                     ELSE [req[p] EXCEPT !.cols = @ \ {x},
                              !.pc = IF req[p].cols = {x} THEN "drop_parent" ELSE "drop_column"])
  BY <1>1 DEF DropColumn, Locals
<1>3. CASE columns' # columns
  <2> DEFINE n == [req[p] EXCEPT !.pick = x, !.cols = @ \ {x}, !.pc = "record_column"]
  <2>1. /\ n.pc = "record_column" /\ n.op = req[p].op /\ n.id = req[p].id
        /\ n.batch = req[p].batch /\ n.pick = x /\ n.todo = req[p].todo
    BY <1>1 DEF Locals
  <2>2. Become(p, n)
    BY <1>2, <1>3
  <2> HIDE DEF n
  <2>3. x \in columns /\ columns' = columns \ {x} /\ gone' = [gone EXCEPT ![x] = @ + 1]
    BY <1>2, <1>3 DEF DeleteColumnRow
  <2>4. req'[p] = n /\ \A q \in Procs \ {p} : req'[q] = req[q]
    BY <2>2, Becomes
  <2>5. GoesOn(p)
    BY <1>1, <2>1, <2>3, <2>4 DEF GoesOn, Inserting, Cascading, Sweeping
  <2>6. QED BY <1>1, <2>1, <2>3, <2>4, <2>5
<1>4. CASE columns' = columns
  <2>1. PICK label \in {"drop_parent", "drop_column"} :
          label = IF req[p].cols = {x} THEN "drop_parent" ELSE "drop_column"
    OBVIOUS
  <2> DEFINE n == [req[p] EXCEPT !.cols = @ \ {x}, !.pc = label]
  <2>2. /\ n.pc = label /\ n.op = req[p].op /\ n.id = req[p].id
        /\ n.batch = req[p].batch /\ n.pick = req[p].pick /\ n.todo = req[p].todo
    BY <1>1 DEF Locals
  <2>3. Become(p, n)
    BY <1>2, <1>4, <2>1
  <2> HIDE DEF n
  <2>4. gone' = gone
    BY <1>2, <1>4 DEF DeleteColumnRow
  <2>5. req'[p] = n /\ \A q \in Procs \ {p} : req'[q] = req[q]
    BY <2>3, Becomes
  <2>6. GoesOn(p)
    BY <1>1, <2>2, <2>5 DEF GoesOn, Inserting, Cascading, Sweeping
  <2>7. QED BY <1>1, <1>4, <2>2, <2>4, <2>5, <2>6
<1>5. QED BY <1>3, <1>4

LEMMA RecordColumnGoesOn ==
    ASSUME TypeInv, NEW p \in Procs, RecordColumn(p)
    PROVE  /\ GoesOn(p) /\ Cascading(p) /\ req[p].pc = "record_column"
           /\ req'[p].pc \in {"drop_parent", "drop_column"} /\ req'[p].todo = req[p].todo
<1>1. req[p] \in Locals /\ req[p].pc = "record_column" /\ Cascading(p) /\ ~Inserting(p)
  BY AtType DEF RecordColumn, Records, Cascading, Sweeping, Inserting
<1>2. PICK label \in {"drop_parent", "drop_column"} :
        Become(p, [req[p] EXCEPT !.pick = NoOne, !.pc = label])
  BY DEF RecordColumn
<1> DEFINE n == [req[p] EXCEPT !.pick = NoOne, !.pc = label]
<1>3. /\ n.pc = label /\ n.op = req[p].op /\ n.id = req[p].id /\ n.batch = req[p].batch
      /\ n.pick = NoOne /\ n.todo = req[p].todo
  BY <1>1 DEF Locals
<1>4. Become(p, n)
  BY <1>2
<1> HIDE DEF n
<1>5. QED BY <1>1, <1>3, <1>4, Becomes DEF GoesOn, Inserting, Cascading, Sweeping

\* The parent's DELETE: it found the row and nothing in it, or another sweep is due, or not.
LEMMA DropParentGoesOn ==
    ASSUME TypeInv, NEW p \in Procs, DropColumnParent(p) \/ DropBoard(p)
    PROVE  /\ GoesOn(p) /\ Cascading(p) /\ req[p].pc = "drop_parent"
           /\ req[p].id \in Columns \cup Boards
           /\ Cascading(p)' => req'[p].todo = req[p].todo
           /\ columns' \subseteq columns
           /\ \/ req'[p].pc \in {"idle", "sweep"} /\ gone' = gone
              \/ /\ req'[p].pc = "record_parent" /\ req'[p].id = req[p].id
                 /\ gone' = [gone EXCEPT ![req[p].id] = @ + 1]
<1>1. /\ req[p].pc = "drop_parent" /\ Cascading(p) /\ ~Inserting(p)
      /\ {"record_parent"} \subseteq Labels /\ "record_parent" \in Sweeping
      /\ "drop_parent" \in Sweeping
  BY DEF DropColumnParent, DropBoard, Writes, Cascading, Sweeping, Inserting, Labels
<1>2. req[p].id \in Columns \cup Boards
  BY <1>1, AtType DEF LabelOK
<1>3. CASE Goto(p, "record_parent")
  <2>1. GoesOn(p) /\ req'[p].pc = "record_parent" /\ req'[p].todo = req[p].todo
    BY <1>1, <1>3, GotoGoesOn
  <2>2. PICK n \in Locals : Become(p, n) /\ n.id = req[p].id /\ n.pc = "record_parent"
    BY <1>1, <1>3, GotoType
  <2>3. req'[p].id = req[p].id
    BY <2>2, Becomes
  <2>4. Idle.pc # "record_parent" /\ Idle.pc # "sweep"
    BY DEF Idle
  <2>5. /\ gone' = [gone EXCEPT ![req[p].id] = @ + 1] /\ columns' \subseteq columns
    <3>1. CASE DropColumnParent(p)
      <4>1. columns' # columns
        <5>1. CASE columns' = columns
          <6>1. Retry(p) \/ Answer(p)
            BY <3>1, <5>1 DEF DropColumnParent
          <6>2. PICK k \in Locals : Become(p, k) /\ (k = Idle \/ k.pc = "sweep")
            BY <1>1, <6>1, RetryType DEF Cascading
          <6>3. FALSE
            BY <2>2, <2>4, <6>2, Becomes
          <6>4. QED BY <6>3
        <5>2. QED BY <5>1
      <4>2. QED BY <3>1, <4>1 DEF DropColumnParent, DeleteColumnRow
    <3>2. CASE DropBoard(p)
      <4>1. req[p].id \in boards /\ ColumnsOf(req[p].id) = {}
        <5>1. CASE ~(req[p].id \in boards /\ ColumnsOf(req[p].id) = {})
          <6>1. Retry(p) \/ Answer(p)
            BY <3>2, <5>1 DEF DropBoard
          <6>2. PICK k \in Locals : Become(p, k) /\ (k = Idle \/ k.pc = "sweep")
            BY <1>1, <6>1, RetryType DEF Cascading
          <6>3. FALSE
            BY <2>2, <2>4, <6>2, Becomes
          <6>4. QED BY <6>3
        <5>2. QED BY <5>1
      <4>2. QED BY <3>2, <4>1 DEF DropBoard
    <3>3. QED BY <3>1, <3>2
  <2>6. QED BY <1>1, <1>2, <2>1, <2>3, <2>5
<1>4. CASE ~Goto(p, "record_parent")
  <2>1. Retry(p) \/ Answer(p)
    BY <1>4 DEF DropColumnParent, DropBoard
  <2>2. PICK n \in Locals :
          /\ Become(p, n)
          /\ \/ n = Idle
             \/ /\ n.pc = "sweep" /\ n.op = req[p].op /\ n.id = req[p].id
                /\ n.batch = req[p].batch /\ n.todo = req[p].todo /\ n.pick = req[p].pick
    BY <1>1, <2>1, RetryType DEF Cascading
  <2>3. req'[p] = n /\ \A q \in Procs \ {p} : req'[q] = req[q]
    BY <2>2, Becomes
  <2>4. Idle.pc = "idle" /\ "idle" \notin Sweeping
    BY DEF Idle, Sweeping
  <2>5. GoesOn(p) /\ (Cascading(p)' => req'[p].todo = req[p].todo) /\ req'[p].pc \in {"idle", "sweep"}
    BY <1>1, <2>2, <2>3, <2>4 DEF GoesOn, Inserting, Cascading
  <2>6. gone' = gone /\ columns' \subseteq columns
    BY <1>4 DEF DropColumnParent, DropBoard, DeleteColumnRow
  <2>7. QED BY <1>1, <1>2, <2>5, <2>6
<1>5. QED BY <1>3, <1>4

LEMMA RestoreGoesOnSame ==
    ASSUME TypeInv, NEW p \in Procs,
           ReadBatch(p) \/ CheckRow(p) \/ CheckParent(p) \/ Reinsert(p)
    PROVE  GoesOn(p) /\ req'[p].pc \in {"idle", "check_row", "check_parent", "reinsert"}
<1>1. /\ req[p] \in Locals /\ ~Inserting(p)
      /\ req[p].pc \in {"read_batch", "check_row", "check_parent", "reinsert"}
  BY AtType DEF ReadBatch, CheckRow, CheckParent, Reinsert, Reads, Writes, Inserting
<1>2. CASE Answer(p)
  BY <1>2, AnswerGoesOn DEF Idle
<1>3. ASSUME NEW label \in {"check_row", "check_parent", "reinsert"}, NEW rest,
             Become(p, [req[p] EXCEPT !.pc = label, !.rest = rest])
      PROVE  GoesOn(p) /\ req'[p].pc = label
  <2> DEFINE n == [req[p] EXCEPT !.pc = label, !.rest = rest]
  <2>1. /\ n.pc = label /\ n.op = req[p].op /\ n.id = req[p].id
        /\ n.batch = req[p].batch /\ n.pick = req[p].pick
    BY <1>1 DEF Locals
  <2>2. Become(p, n)
    BY <1>3
  <2> HIDE DEF n
  <2>3. QED BY <1>1, <2>1, <2>2, Becomes DEF GoesOn, Inserting, Cascading, Sweeping
<1>4. CASE ReadBatch(p)
  BY <1>3, <1>4 DEF ReadBatch
<1>5. CASE Reinsert(p)
  <2>1. \A rest : [req[p] EXCEPT !.rest = rest, !.pc = "check_row"]
                  = [req[p] EXCEPT !.pc = "check_row", !.rest = rest]
    BY <1>1 DEF Locals
  <2>2. QED BY <1>2, <1>3, <1>5, <2>1 DEF Reinsert
<1>6. ASSUME NEW label \in {"check_parent", "reinsert"}, Goto(p, label)
      PROVE  GoesOn(p) /\ req'[p].pc = label
  <2>1. label \in Labels /\ label \notin Sweeping
    BY DEF Labels, Sweeping
  <2>2. QED BY <1>1, <1>6, <2>1, GotoGoesOn
<1>7. QED BY <1>2, <1>4, <1>5, <1>6 DEF CheckRow, CheckParent

LEMMA LoadTargetGoesOn ==
    ASSUME TypeInv, NEW p \in Procs, LoadTarget(p)
    PROVE  GoesOn(p) /\ req'[p].pc \in {"idle", "write", "find_home"}
<1>1. ~Inserting(p)
  BY DEF LoadTarget, Reads, Inserting
<1>2. ASSUME NEW label \in {"write", "find_home"}, Goto(p, label)
      PROVE  GoesOn(p) /\ req'[p].pc = label
  <2>1. label \in Labels /\ label \notin Sweeping
    BY DEF Labels, Sweeping
  <2>2. QED BY <1>1, <1>2, <2>1, GotoGoesOn
<1>3. QED BY <1>2, AnswerGoesOn DEF LoadTarget, Idle

LEMMA RecordCardGoesOn ==
    ASSUME TypeInv, NEW p \in Procs, RecordCard(p)
    PROVE  GoesOn(p) /\ req[p].pc = "record_card" /\ req'[p].pc = "drop_card"
<1>1. req[p].pc = "record_card" /\ ~Inserting(p) /\ "drop_card" \in Labels \ Sweeping
  BY DEF RecordCard, Records, Inserting, Labels, Sweeping
<1>2. QED BY <1>1, GotoGoesOn DEF RecordCard

\* The statements that end a request, whatever they find.
Last(p) == InsertCard(p) \/ InsertColumn(p) \/ Write(p) \/ DropCard(p) \/ RecordParent(p)

LEMMA LastGoesOn ==
    ASSUME TypeInv, NEW p \in Procs, Last(p)
    PROVE  GoesOn(p) /\ req'[p] = Idle
BY AnswerGoesOn DEF Last, InsertCard, InsertColumn, Write, DropCard, RecordParent

LEMMA StepGoesOn ==
    ASSUME TypeInv, NEW p \in Procs, Step(p)
    PROVE  GoesOn(p)
BY LastGoesOn, FindHomeGoesOn, LoadTargetGoesOn, RecordCardGoesOn, SweepGoesOn,
   LockCardGoesOn, RecordSweptGoesOn, DropSweptGoesOn, ListColumnsGoesOn,
   DropColumnGoesOn, RecordColumnGoesOn, DropParentGoesOn, RestoreGoesOnSame
   DEF Step, Last

----------------------------------------------------------------------------
(* The rows a statement appends to history.                                *)

\* `row` is the one handler p is to record at its statement.
ToRecord(p, row) ==
    /\ row.batch = req[p].batch
    /\ \/ req[p].pc = "record_card" /\ row.id = req[p].id /\ row.id \in Cards /\ row.batch = 0
       \/ /\ req[p].pc = "record_swept" /\ row.id = req[p].pick /\ row.id \in Cards
          /\ row.snap = req[p].old
       \/ req[p].pc = "record_column" /\ row.id = req[p].pick /\ row.id \in Columns
       \/ req[p].pc = "record_parent" /\ row.id = req[p].id /\ row.id \in Columns \cup Boards

Recording(p) == RecordCard(p) \/ RecordSwept(p) \/ RecordColumn(p) \/ RecordParent(p)

LEMMA RecordedRow ==
    ASSUME TypeInv, NEW p \in Procs, Recording(p)
    PROVE  /\ \E row \in DeleteRow : history' = Append(history, row) /\ ToRecord(p, row)
           /\ UNCHANGED <<tables, gone, rowLock, issued, dropped>>
<1>1. LabelOK(req[p], history, issued) /\ req[p].batch \in Nat
  BY AtType DEF Locals
<1>2. ASSUME NEW label, NEW kind, NEW id, NEW snap, Records(p, label, kind, id, snap),
             NEW row \in DeleteRow, ToRecord(p, row),
             row = [kind |-> kind, id |-> id, batch |-> req[p].batch, snap |-> snap]
      PROVE  /\ history' = Append(history, row) /\ ToRecord(p, row)
             /\ UNCHANGED <<tables, gone, rowLock, issued, dropped>>
  BY <1>2 DEF Records
<1>3. CASE RecordCard(p)
  <2>1. req[p].pc = "record_card" /\ Records(p, "record_card", "card", req[p].id, req[p].old)
    BY <1>3 DEF RecordCard, Records
  <2>2. req[p].id \in Cards /\ req[p].old \in Row /\ req[p].batch = 0
    BY <1>1, <2>1 DEF LabelOK
  <2>3. PICK row \in DeleteRow :
          row = [kind |-> "card", id |-> req[p].id, batch |-> req[p].batch, snap |-> req[p].old]
    BY <1>1, <2>2 DEF DeleteRow
  <2>4. QED BY <1>2, <2>1, <2>2, <2>3 DEF ToRecord
<1>4. CASE RecordSwept(p)
  <2>1. req[p].pc = "record_swept" /\ Records(p, "record_swept", "card", req[p].pick, req[p].old)
    BY <1>4 DEF RecordSwept, Records
  <2>2. req[p].pick \in Cards /\ req[p].old \in Row
    BY <1>1, <2>1 DEF LabelOK
  <2>3. PICK row \in DeleteRow :
          row = [kind |-> "card", id |-> req[p].pick, batch |-> req[p].batch, snap |-> req[p].old]
    BY <1>1, <2>2 DEF DeleteRow
  <2>4. QED BY <1>2, <2>1, <2>2, <2>3 DEF ToRecord
<1>5. CASE RecordColumn(p)
  <2>1. req[p].pc = "record_column" /\ Records(p, "record_column", "column", req[p].pick, NoRow)
    BY <1>5 DEF RecordColumn, Records
  <2>2. req[p].pick \in Columns
    BY <1>1, <2>1 DEF LabelOK
  <2>3. PICK row \in DeleteRow :
          row = [kind |-> "column", id |-> req[p].pick, batch |-> req[p].batch, snap |-> NoRow]
    BY <1>1, <2>2 DEF DeleteRow
  <2>4. QED BY <1>2, <2>1, <2>2, <2>3 DEF ToRecord
<1>6. CASE RecordParent(p)
  <2>1. PICK kind \in {"column", "board"} :
          kind = IF req[p].op = "delete_column" THEN "column" ELSE "board"
    OBVIOUS
  <2>2. req[p].pc = "record_parent" /\ Records(p, "record_parent", kind, req[p].id, NoRow)
    BY <1>6, <2>1 DEF RecordParent, Records
  <2>3. /\ req[p].id \in Columns \cup Boards
        /\ kind = "column" => req[p].id \in Columns
        /\ kind = "board" => req[p].id \in Boards
    BY <1>1, <2>1, <2>2 DEF LabelOK, Sweeping
  <2>4. PICK row \in DeleteRow :
          row = [kind |-> kind, id |-> req[p].id, batch |-> req[p].batch, snap |-> NoRow]
    BY <1>1, <2>1, <2>3 DEF DeleteRow
  <2>5. QED BY <1>2, <2>2, <2>3, <2>4 DEF ToRecord
<1>7. QED BY <1>3, <1>4, <1>5, <1>6 DEF Recording

\* The other statements leave history alone.
LEMMA NoRowRecorded ==
    ASSUME NEW p \in Procs, Step(p), ~Recording(p)
    PROVE  history' = history
BY DEF Step, Recording, InsertCard, InsertColumn, FindHome, LoadTarget, Write, DropCard, Sweep,
       LockCard, DropSwept, ListColumns, DropColumn, DropColumnParent, DropBoard, ReadBatch,
       CheckRow, CheckParent, Reinsert, Reads, Writes

----------------------------------------------------------------------------
(* What an arrival makes of its handler.                                   *)

\* Handler p takes a request: it is about a new id, or about one of the tables' ids.
Arrived(p) ==
    /\ req[p] = Idle
    /\ \A q \in Procs \ {p} : req'[q] = req[q]
    /\ UNCHANGED <<boards, columns, card, history, gone, rowLock, dropped>>
    /\ issued' = issued + 1
    /\ req'[p].pc \notin Locking \cup {"drop_card", "record_column", "record_parent"}
    /\ req'[p].pick = NoOne /\ req'[p].todo = {}
    /\ Cascading(p)' => req'[p].batch = issued + 1
    /\ \/ Inserting(p)' /\ req'[p].id \notin used /\ used' = used \cup {req'[p].id}
       \/ /\ ~Inserting(p)' /\ used' = used
          /\ req'[p].id \in Present \cup columns \cup Boards \cup {NoOne}

LEMMA ArriveArrived ==
    ASSUME TypeInv, NEW p \in Procs, NEW o, NEW r, Arrive(p, o, r),
           NEW n, n = [r EXCEPT !.op = o],
           n.pc \notin Locking \cup {"drop_card", "record_column", "record_parent"},
           n.pick = NoOne, n.todo = {}, n.pc \in Sweeping => n.batch = issued + 1,
           \/ /\ n.pc \in {"insert_card", "insert_column"}
              /\ n.id \notin used /\ used' = used \cup {n.id}
           \/ /\ n.pc \notin {"insert_card", "insert_column"} /\ used' = used
              /\ n.id \in Present \cup columns \cup Boards \cup {NoOne}
    PROVE  Arrived(p)
<1>1. Become(p, n) /\ req[p] = Idle
  BY DEF Arrive
<1>2. req'[p] = n /\ \A q \in Procs \ {p} : req'[q] = req[q]
  BY <1>1, Becomes
<1>3. /\ UNCHANGED <<boards, columns, card, history, gone, rowLock, dropped>>
      /\ issued' = issued + 1
  BY DEF Arrive
<1>4. QED BY <1>1, <1>2, <1>3 DEF Arrived, Inserting, Cascading

LEMMA ArrivalsArrive ==
    ASSUME TypeInv, NEW p \in Procs, Arrivals(p)
    PROVE  Arrived(p)
<1> USE DEF Sweeping, Locking
<1>1. ASSUME NEW x \in Columns, NEW c \in Cards, NEW b \in Bodies, CreateCardArrives(p, x, c, b)
      PROVE  Arrived(p)
  <2> DEFINE r == [Idle EXCEPT !.pc = "insert_card", !.id = c, !.col = x, !.body = b]
             n == [r EXCEPT !.op = "create_card"]
  <2>1. n.pc = "insert_card" /\ n.id = c /\ n.pick = NoOne /\ n.todo = {}
    BY DEF Idle
  <2>2. n = [r EXCEPT !.op = "create_card"]
    OBVIOUS
  <2>3. Arrive(p, "create_card", r) /\ c \notin used /\ used' = used \cup {c}
    BY <1>1 DEF CreateCardArrives
  <2> HIDE DEF n, r
  <2>4. QED BY <2>1, <2>2, <2>3, ArriveArrived
<1>2. ASSUME NEW x \in Columns, CreateColumnArrives(p, x)
      PROVE  Arrived(p)
  <2> DEFINE r == [Idle EXCEPT !.pc = "insert_column", !.id = x]
             n == [r EXCEPT !.op = "create_column"]
  <2>1. n.pc = "insert_column" /\ n.id = x /\ n.pick = NoOne /\ n.todo = {}
    BY DEF Idle
  <2>2. n = [r EXCEPT !.op = "create_column"]
    OBVIOUS
  <2>3. Arrive(p, "create_column", r) /\ x \notin used /\ used' = used \cup {x}
    BY <1>2 DEF CreateColumnArrives
  <2> HIDE DEF n, r
  <2>4. QED BY <2>1, <2>2, <2>3, ArriveArrived
<1>3. ASSUME NEW c \in Cards, NEW x \in Columns, MoveArrives(p, c, x)
      PROVE  Arrived(p)
  <2> DEFINE r == [Idle EXCEPT !.pc = "load_target", !.id = c, !.col = x, !.old = card[c]]
             n == [r EXCEPT !.op = "move"]
  <2>1. n.pc = "load_target" /\ n.id = c /\ n.pick = NoOne /\ n.todo = {}
    BY DEF Idle
  <2>2. n = [r EXCEPT !.op = "move"]
    OBVIOUS
  <2>3. Arrive(p, "move", r) /\ c \in Present /\ used' = used
    BY <1>3 DEF MoveArrives, Present
  <2> HIDE DEF n, r
  <2>4. QED BY <2>1, <2>2, <2>3, ArriveArrived
<1>4. ASSUME NEW c \in Cards, NEW x \in Columns \cup {NoOne}, NEW b \in Bodies \cup {NoOne},
             UpdateArrives(p, c, x, b)
      PROVE  Arrived(p)
  <2> DEFINE r == [Idle EXCEPT !.pc = "find_home", !.id = c, !.col = x, !.body = b,
                               !.old = card[c]]
             n == [r EXCEPT !.op = "update"]
  <2>1. n.pc = "find_home" /\ n.id = c /\ n.pick = NoOne /\ n.todo = {}
    BY DEF Idle
  <2>2. n = [r EXCEPT !.op = "update"]
    OBVIOUS
  <2>3. Arrive(p, "update", r) /\ c \in Present /\ used' = used
    BY <1>4 DEF UpdateArrives, Present
  <2> HIDE DEF n, r
  <2>4. QED BY <2>1, <2>2, <2>3, ArriveArrived
<1>5. ASSUME NEW c \in Cards, NEW b \in Bodies, RestoreContentArrives(p, c, b)
      PROVE  Arrived(p)
  <2> DEFINE r == [Idle EXCEPT !.pc = "write", !.id = c, !.body = b]
             n == [r EXCEPT !.op = "restore_content"]
  <2>1. n.pc = "write" /\ n.id = c /\ n.pick = NoOne /\ n.todo = {}
    BY DEF Idle
  <2>2. n = [r EXCEPT !.op = "restore_content"]
    OBVIOUS
  <2>3. Arrive(p, "restore_content", r) /\ c \in Present /\ used' = used
    BY <1>5 DEF RestoreContentArrives, Present
  <2> HIDE DEF n, r
  <2>4. QED BY <2>1, <2>2, <2>3, ArriveArrived
<1>6. ASSUME NEW c \in Cards, DeleteCardArrives(p, c)
      PROVE  Arrived(p)
  <2> DEFINE r == [Idle EXCEPT !.pc = "record_card", !.id = c, !.old = card[c]]
             n == [r EXCEPT !.op = "delete_card"]
  <2>1. n.pc = "record_card" /\ n.id = c /\ n.pick = NoOne /\ n.todo = {}
    BY DEF Idle
  <2>2. n = [r EXCEPT !.op = "delete_card"]
    OBVIOUS
  <2>3. Arrive(p, "delete_card", r) /\ c \in Present /\ used' = used
    BY <1>6 DEF DeleteCardArrives, Present
  <2> HIDE DEF n, r
  <2>4. QED BY <2>1, <2>2, <2>3, ArriveArrived
<1>7. ASSUME NEW x, NEW o, x \in columns \cup Boards, used' = used,
             Arrive(p, o, [Idle EXCEPT !.pc = "sweep", !.id = x, !.batch = issued + 1])
      PROVE  Arrived(p)
  <2> DEFINE r == [Idle EXCEPT !.pc = "sweep", !.id = x, !.batch = issued + 1]
             n == [r EXCEPT !.op = o]
  <2>1. n.pc = "sweep" /\ n.id = x /\ n.pick = NoOne /\ n.todo = {} /\ n.batch = issued + 1
    BY DEF Idle
  <2>2. n = [r EXCEPT !.op = o] /\ Arrive(p, o, r)
    BY <1>7
  <2> HIDE DEF n, r
  <2>3. QED BY <1>7, <2>1, <2>2, ArriveArrived
<1>8. ASSUME NEW i \in DOMAIN history, RestoreArrives(p, i)
      PROVE  Arrived(p)
  <2>1. PICK label \in {"check_row", "read_batch"} :
          label = IF history[i].kind = "card" THEN "check_row" ELSE "read_batch"
    OBVIOUS
  <2> DEFINE r == [Idle EXCEPT !.batch = history[i].batch,
                               !.rest = IF history[i].kind = "card" THEN {i} ELSE {},
                               !.pc = label]
             n == [r EXCEPT !.op = "restore"]
  <2>2. n.pc = label /\ n.id = NoOne /\ n.pick = NoOne /\ n.todo = {}
    BY DEF Idle
  <2>3. n = [r EXCEPT !.op = "restore"]
    OBVIOUS
  <2>4. Arrive(p, "restore", r) /\ used' = used
    BY <1>8, <2>1 DEF RestoreArrives
  <2> HIDE DEF n, r
  <2>5. QED BY <2>1, <2>2, <2>3, <2>4, ArriveArrived
<1>9. boards \subseteq Boards
  BY DEF TypeInv, StateType, TablesType
<1>10. QED
  BY <1>1, <1>2, <1>3, <1>4, <1>5, <1>6, <1>7, <1>8, <1>9
     DEF Arrivals, DeleteColumnArrives, DeleteBoardArrives

----------------------------------------------------------------------------
(* IdsOnce: an id given out is one handler's until its row is in.          *)

LEMMA GoingOnKeepsIds ==
    ASSUME TypeInv, IdsOnce, NEW p \in Procs, GoesOn(p), used' = used,
           \A x \in (Present \cup columns)' : x \in Known \/ (Inserting(p) /\ x = req[p].id),
           \A i \in DOMAIN history' : history'[i].id \in Known \cup Boards
    PROVE  IdsOnce'
<1>1. ~Inserting(p)' /\ \A q \in Procs \ {p} : req'[q] = req[q] /\ (Inserting(q)' <=> Inserting(q))
  BY DEF GoesOn, Inserting, Idle
<1>2. \A x : x \in Fresh' <=> \E q \in Procs \ {p} : Inserting(q) /\ x = req[q].id
  BY <1>1 DEF Fresh
<1>3. \A x : x \in Fresh <=> \E q \in Procs : Inserting(q) /\ x = req[q].id
  BY DEF Fresh
<1>4. Known \subseteq Known'
  BY <1>2, <1>3 DEF Known
<1>5. Inserting(p) => req[p].id \in Known'
  BY <1>2, <1>3 DEF IdsOnce, Known
<1>6. Fresh' \subseteq used'
  BY <1>2, <1>3 DEF IdsOnce
<1>7. (Present \cup columns)' \subseteq Known'
  BY <1>4, <1>5
<1>8. ASSUME NEW q \in Procs
      PROVE  /\ ~Inserting(q)' => req'[q].id \in Known' \cup Boards \cup {NoOne}
             /\ req'[q].pick \in Known' \cup {NoOne}
  <2>1. CASE q # p
    BY <1>1, <1>4, <2>1 DEF IdsOnce
  <2>2. CASE req'[p] = Idle /\ q = p
    BY <2>2 DEF Idle
  <2>3. CASE req'[p] # Idle /\ q = p
    <3>1. /\ ~Inserting(p) /\ req'[p].id = req[p].id
          /\ req'[p].pick \in {req[p].pick, NoOne} \cup Present \cup columns
      BY <2>3 DEF GoesOn
    <3>2. QED BY <1>4, <2>3, <3>1 DEF IdsOnce
  <2>4. QED BY <2>1, <2>2, <2>3
<1>9. \A q, s \in Procs : Inserting(q)' /\ Inserting(s)' /\ req'[q].id = req'[s].id => q = s
  BY <1>1 DEF IdsOnce
<1>10. \A i \in DOMAIN history' : history'[i].id \in Known' \cup Boards
  BY <1>4
<1>11. QED BY <1>6, <1>7, <1>8, <1>9, <1>10 DEF IdsOnce

LEMMA ArrivalKeepsIds ==
    ASSUME TypeInv, IdsOnce, NEW p \in Procs, Arrived(p)
    PROVE  IdsOnce'
<1>1. /\ ~Inserting(p) /\ Present' = Present /\ columns' = columns /\ history' = history
      /\ \A q \in Procs \ {p} : req'[q] = req[q] /\ (Inserting(q)' <=> Inserting(q))
      /\ req'[p].pick = NoOne
  BY DEF Arrived, Inserting, Idle, Present
<1>2. \A x : x \in Fresh <=> \E q \in Procs \ {p} : Inserting(q) /\ x = req[q].id
  BY <1>1 DEF Fresh
<1>3. \A x : x \in Fresh' <=> \E q \in Procs : Inserting(q)' /\ x = req'[q].id
  BY DEF Fresh
<1>4. CASE Inserting(p)' /\ req'[p].id \notin used /\ used' = used \cup {req'[p].id}
  <2>1. Known' = Known /\ Fresh' \subseteq used'
    BY <1>1, <1>2, <1>3, <1>4 DEF Known, IdsOnce
  <2>2. \A q \in Procs : Inserting(q) => req[q].id # req'[p].id
    BY <1>1, <1>2, <1>4 DEF IdsOnce
  <2>3. QED BY <1>1, <1>4, <2>1, <2>2 DEF IdsOnce
<1>5. CASE /\ ~Inserting(p)' /\ used' = used
           /\ req'[p].id \in Present \cup columns \cup Boards \cup {NoOne}
  <2>1. Fresh' = Fresh
    BY <1>1, <1>2, <1>3, <1>5
  <2>2. Known' = Known
    BY <1>5, <2>1 DEF Known
  <2>3. QED BY <1>1, <1>5, <2>1, <2>2 DEF IdsOnce
<1>6. QED BY <1>4, <1>5 DEF Arrived

LEMMA KnownIds ==
    ASSUME IdsOnce
    PROVE  /\ Present \cup columns \subseteq Known
           /\ \A i \in DOMAIN history : history[i].id \in Known \cup Boards
BY DEF IdsOnce

LEMMA StepKeepsIds ==
    ASSUME TypeInv, IdsOnce, NEW p \in Procs, Step(p)
    PROVE  IdsOnce'
<1>1. GoesOn(p)
  BY StepGoesOn
<1>2. /\ req[p] \in Locals /\ LabelOK(req[p], history, issued)
      /\ TablesType /\ history \in Seq(DeleteRow)
  BY AtType DEF TypeInv, StateType
<1>3. ASSUME used' = used, history' = history, Present' \subseteq Present, columns' \subseteq columns
      PROVE  IdsOnce'
  <2>1. \A x \in (Present \cup columns)' : x \in Known
    BY <1>3, KnownIds
  <2>2. \A i \in DOMAIN history' : history'[i].id \in Known \cup Boards
    BY <1>3, KnownIds
  <2>3. QED BY <1>1, <1>3, <2>1, <2>2, GoingOnKeepsIds
<1>4. CASE UNCHANGED <<tables, history>>
  BY <1>3, <1>4 DEF tables, Present
<1>5. CASE InsertCard(p)
  <2>1. req[p].pc = "insert_card" /\ Inserting(p) /\ req[p].id \in Cards
    BY <1>2, <1>5 DEF InsertCard, Writes, Inserting, LabelOK
  <2>2. Present' \subseteq Present \cup {req[p].id}
    BY <1>2, <1>5, <2>1 DEF InsertCard, Present, TablesType
  <2>3. columns' = columns /\ used' = used /\ history' = history
    BY <1>5 DEF InsertCard, Writes
  <2>4. \A x \in (Present \cup columns)' : x \in Known \/ (Inserting(p) /\ x = req[p].id)
    BY <2>1, <2>2, <2>3, KnownIds
  <2>5. \A i \in DOMAIN history' : history'[i].id \in Known \cup Boards
    BY <2>3, KnownIds
  <2>6. QED BY <1>1, <2>3, <2>4, <2>5, GoingOnKeepsIds
<1>6. CASE InsertColumn(p)
  <2>1. req[p].pc = "insert_column" /\ Inserting(p)
    BY <1>6 DEF InsertColumn, Writes, Inserting
  <2>2. columns' \subseteq columns \cup {req[p].id} /\ Present' = Present
    BY <1>6 DEF InsertColumn, Present
  <2>3. used' = used /\ history' = history
    BY <1>6 DEF InsertColumn, Writes
  <2>4. \A x \in (Present \cup columns)' : x \in Known \/ (Inserting(p) /\ x = req[p].id)
    BY <2>1, <2>2, KnownIds
  <2>5. \A i \in DOMAIN history' : history'[i].id \in Known \cup Boards
    BY <2>3, KnownIds
  <2>6. QED BY <1>1, <2>3, <2>4, <2>5, GoingOnKeepsIds
<1>7. CASE Write(p)
  <2>1. Present' \subseteq Present
    <3>1. \A c \in Cards : card'[c] # NoRow => card[c] # NoRow
      BY <1>2, <1>7 DEF Write, TablesType
    <3>2. QED BY <3>1 DEF Present
  <2>2. QED BY <1>3, <1>7, <2>1 DEF Write, Writes
<1>8. ASSUME NEW c \in Cards, DeleteCardRow(c)
      PROVE  Present' \subseteq Present
  BY <1>2, <1>8 DEF DeleteCardRow, Present, TablesType
<1>9. CASE DropCard(p) \/ DropSwept(p)
  <2>1. Present' \subseteq Present
    <3>1. \/ DropCard(p) /\ req[p].id \in Cards
          \/ DropSwept(p) /\ req[p].pick \in Cards
      BY <1>2, <1>9 DEF DropCard, DropSwept, Writes, LabelOK
    <3>2. \/ \E c \in Cards : DeleteCardRow(c)
          \/ UNCHANGED card
      BY <3>1 DEF DropCard, DropSwept
    <3>3. QED BY <1>8, <3>2 DEF Present
  <2>2. QED BY <1>3, <1>9, <2>1 DEF DropCard, DropSwept, Writes
<1>10. CASE DropColumn(p) \/ DropColumnParent(p) \/ DropBoard(p)
  <2>1. columns' \subseteq columns
    BY <1>10, DropColumnGoesOn, DropParentGoesOn
  <2>2. QED BY <1>3, <1>10, <2>1 DEF DropColumn, DropColumnParent, DropBoard, Writes, Present
<1>11. CASE Reinsert(p)
  <2>1. PICK row \in DeleteRow : row = history[Newest(p)] /\ row.id \in Known \cup Boards
    BY <1>11, NewestType DEF Reinsert, Writes, IdsOnce
  <2>2. /\ row.kind = "card" => row.id \in Known
        /\ row.kind = "column" => row.id \in Known
    BY <2>1, IdsAssumption DEF DeleteRow
  <2>3. (Present \cup columns)' \subseteq Present \cup columns \cup Known
    <3>1. columns' \subseteq columns \cup Known
      BY <1>11, <2>1, <2>2 DEF Reinsert
    <3>2. \A c \in Cards : card'[c] # NoRow => card[c] # NoRow \/ c \in Known
      BY <1>2, <1>11, <2>1, <2>2 DEF Reinsert, TablesType
    <3>3. QED BY <3>1, <3>2 DEF Present
  <2>4. used' = used /\ history' = history
    BY <1>11 DEF Reinsert, Writes
  <2>5. \A x \in (Present \cup columns)' : x \in Known
    BY <2>3, KnownIds
  <2>6. \A i \in DOMAIN history' : history'[i].id \in Known \cup Boards
    BY <2>4, KnownIds
  <2>7. QED BY <1>1, <2>4, <2>5, <2>6, GoingOnKeepsIds
<1>12. CASE Recording(p)
  <2>1. PICK row \in DeleteRow : history' = Append(history, row) /\ ToRecord(p, row)
    BY <1>12, RecordedRow
  <2>2. row.id \in Known \cup Boards
    <3>1. \/ ~Inserting(p) /\ row.id = req[p].id
          \/ row.id = req[p].pick
      BY <2>1 DEF ToRecord, Inserting
    <3>2. row.id # NoOne
      BY NoneAssumption DEF DeleteRow
    <3>3. QED BY <3>1, <3>2 DEF IdsOnce
  <2>3. /\ used' = used /\ (Present \cup columns)' = Present \cup columns
    BY <1>12, RecordedRow DEF tables, Present
  <2>4. \A i \in DOMAIN history' : history'[i].id \in Known \cup Boards
    BY <1>2, <2>1, <2>2, KnownIds
  <2>5. \A x \in (Present \cup columns)' : x \in Known
    BY <2>3, KnownIds
  <2>6. QED BY <1>1, <2>3, <2>4, <2>5, GoingOnKeepsIds
<1>13. CASE \/ FindHome(p) \/ LoadTarget(p) \/ Sweep(p) \/ LockCard(p) \/ ListColumns(p)
            \/ ReadBatch(p) \/ CheckRow(p) \/ CheckParent(p)
  BY <1>4, <1>13 DEF FindHome, LoadTarget, Sweep, LockCard, ListColumns, ReadBatch, CheckRow,
                     CheckParent, Reads
<1>14. QED
  BY <1>5, <1>6, <1>7, <1>9, <1>10, <1>11, <1>12, <1>13 DEF Step, Recording

LEMMA DroppedGoesOn ==
    ASSUME TypeInv, NEW p \in Procs, Dropped(p)
    PROVE  GoesOn(p) /\ req'[p] = Idle /\ UNCHANGED <<tables, history>>
BY AnswerGoesOn DEF Dropped

LEMMA NextKeepsIds == TypeInv /\ IdsOnce /\ [Next]_vars => IdsOnce'
<1> SUFFICES ASSUME TypeInv, IdsOnce, [Next]_vars PROVE IdsOnce'
  OBVIOUS
<1>1. CASE UNCHANGED vars
  BY <1>1 DEF vars, tables, IdsOnce, Known, Fresh, Present, Inserting
<1>2. ASSUME NEW p \in Procs, Dropped(p) PROVE IdsOnce'
  <2>1. GoesOn(p) /\ used' = used /\ history' = history /\ (Present \cup columns)' = Present \cup columns
    BY <1>2, DroppedGoesOn DEF tables, Present
  <2>2. \A x \in (Present \cup columns)' : x \in Known
    BY <2>1, KnownIds
  <2>3. \A i \in DOMAIN history' : history'[i].id \in Known \cup Boards
    BY <2>1, KnownIds
  <2>4. QED BY <2>1, <2>2, <2>3, GoingOnKeepsIds
<1>3. CASE Next
  BY <1>2, <1>3, ArrivalsArrive, ArrivalKeepsIds, StepKeepsIds DEF Next
<1>4. QED BY <1>1, <1>3

----------------------------------------------------------------------------
(* BatchOnce: a batch is one cascade's.                                    *)

LEMMA NextKeepsBatches == TypeInv /\ BatchOnce /\ [Next]_vars => BatchOnce'
<1> SUFFICES ASSUME TypeInv, BatchOnce, [Next]_vars PROVE BatchOnce'
  OBVIOUS
<1>1. CASE UNCHANGED vars
  BY <1>1 DEF vars, BatchOnce, Cascading
<1>2. ASSUME NEW p \in Procs, GoesOn(p) PROVE BatchOnce'
  <2>1. ASSUME NEW q \in Procs
        PROVE  Cascading(q)' => Cascading(q) /\ req'[q].batch = req[q].batch
    BY <1>2 DEF GoesOn, Cascading, Idle, Sweeping
  <2>2. QED BY <2>1 DEF BatchOnce
<1>3. ASSUME NEW p \in Procs, Arrived(p) PROVE BatchOnce'
  <2>1. Cascading(p)' => req'[p].batch = issued + 1
    BY <1>3 DEF Arrived
  <2>2. ASSUME NEW q \in Procs \ {p}
        PROVE  /\ Cascading(q)' => Cascading(q) /\ req'[q].batch = req[q].batch
               /\ Cascading(q) => req[q].batch <= issued
    BY <1>3, AtType DEF Arrived, Cascading, LabelOK
  <2>3. issued \in Nat
    BY DEF TypeInv, StateType
  <2>4. QED BY <2>1, <2>2, <2>3 DEF BatchOnce
<1>4. CASE Next
  BY <1>2, <1>3, <1>4, ArrivalsArrive, StepGoesOn, DroppedGoesOn DEF Next
<1>5. QED BY <1>1, <1>4

----------------------------------------------------------------------------
(* SweepHolds: what a cascade has read of the card it works on stays so.   *)

SweepHoldsFor(p) ==
    LET r == req[p] IN
    /\ Cascading(p) => \A t \in r.todo : InScope(r, t[2])
    /\ r.pc \in Locking => card[r.pick] = r.old /\ InScope(r, r.old.column)
    /\ r.pc = "drop_swept" => LastSays(p)

LEMMA SweepHoldsEach == SweepHolds <=> \A p \in Procs : SweepHoldsFor(p)
BY DEF SweepHolds, SweepHoldsFor, Locking

LEMMA SameScope ==
    ASSUME NEW r, NEW n, n.op = r.op, n.id = r.id, NEW x
    PROVE  InScope(n, x) <=> InScope(r, x)
BY DEF InScope

\* The cascade that holds a card's row is the one whose card it is.
LEMMA LockHolder ==
    ASSUME TypeInv, NEW p \in Procs, req[p].pc \in Locking
    PROVE  req[p].pick \in Cards /\ rowLock[req[p].pick] = p
BY AtType DEF TypeInv, HoldsItsCard, LabelOK, Locking

\* A row in the way: a statement may append one that is not about the card that cascade q
\* works on, in q's batch.
LEMMA LastStays ==
    ASSUME TypeInv, NEW q \in Procs, LastSays(q), req'[q] = req[q],
           \/ history' = history
           \/ \E row \in DeleteRow :
                 /\ history' = Append(history, row)
                 /\ ~(row.id = req[q].pick /\ row.batch = req[q].batch)
    PROVE  LastSays(q)'
<1>1. history \in Seq(DeleteRow)
  BY DEF TypeInv, StateType
<1>2. RowsOfPick(q)' = RowsOfPick(q)
  BY <1>1 DEF RowsOfPick
<1>3. \A i \in RowsOfPick(q) : history'[i] = history[i]
  BY <1>1 DEF RowsOfPick
<1>4. QED BY <1>2, <1>3 DEF LastSays

\* The statements of one handler leave what another cascade holds alone.
LEMMA OthersHold ==
    ASSUME TypeInv, SweepHolds, NEW p \in Procs, NEW q \in Procs \ {p}, req'[q] = req[q],
           req[q].pc \in Locking => card'[req[q].pick] = card[req[q].pick],
           \/ history' = history
           \/ \E row \in DeleteRow :
                 /\ history' = Append(history, row)
                 /\ req[q].pc = "drop_swept" =>
                       ~(row.id = req[q].pick /\ row.batch = req[q].batch)
    PROVE  SweepHoldsFor(q)'
<1>1. SweepHoldsFor(q)
  BY SweepHoldsEach
<1>2. req[q].pc = "drop_swept" => LastSays(q)'
  BY <1>1, LastStays DEF SweepHoldsFor
<1>3. QED BY <1>1, <1>2 DEF SweepHoldsFor, Cascading

\* A card whose row a cascade holds is changed by nobody else.
LEMMA LockedCardStays ==
    ASSUME TypeInv, IdsOnce, SweepHolds, NEW p \in Procs, Step(p),
           NEW q \in Procs \ {p}, req[q].pc \in Locking
    PROVE  card'[req[q].pick] = card[req[q].pick]
<1>1. PICK c \in Cards : c = req[q].pick /\ rowLock[c] = q
  BY LockHolder
<1>2. card[c] # NoRow /\ c \in Known
  <2>1. card[c] = req[q].old /\ req[q].old \in Row
    BY <1>1, AtType, SweepHoldsEach DEF SweepHoldsFor, LabelOK, Locking
  <2>2. card[c] # NoRow
    BY <2>1, NoneAssumption
  <2>3. QED BY <2>2, KnownIds DEF Present
<1>3. q # NoOne /\ card \in [Cards -> Row \cup {NoRow}]
  BY NoneAssumption DEF TypeInv, StateType, TablesType
<1>4. LabelOK(req[p], history, issued)
  BY AtType
<1>5. CASE InsertCard(p)
  <2>1. req[p].id # c
    BY <1>2, <1>5 DEF InsertCard, Writes, Inserting, Fresh, Known
  <2>2. QED BY <1>1, <1>3, <1>5, <2>1 DEF InsertCard
<1>6. CASE Write(p)
  <2>1. req[p].id # c
    BY <1>1, <1>3, <1>6 DEF Write
  <2>2. QED BY <1>1, <1>3, <1>6, <2>1 DEF Write
<1>7. CASE DropCard(p)
  <2>1. req[p].id # c
    BY <1>1, <1>3, <1>7 DEF DropCard
  <2>2. QED BY <1>1, <1>3, <1>7, <2>1 DEF DropCard, DeleteCardRow
<1>8. CASE DropSwept(p)
  <2>1. req[p].pc \in Locking
    BY <1>8 DEF DropSwept, Writes, Locking
  <2>2. req[p].pick # c
    BY <1>1, <2>1, LockHolder
  <2>3. QED BY <1>1, <1>3, <1>8, <2>2 DEF DropSwept, DeleteCardRow
<1>9. CASE Reinsert(p)
  <2>1. PICK row \in DeleteRow : row = history[Newest(p)]
    BY <1>9, NewestType DEF Reinsert, Writes
  <2>2. row.kind = "card" /\ row.id = c => Exists(row)
    BY <1>2 DEF Exists
  <2>3. QED BY <1>1, <1>3, <1>9, <2>1, <2>2 DEF Reinsert
<1>10. CASE UNCHANGED card
  BY <1>1, <1>10
<1>11. QED
  BY <1>5, <1>6, <1>7, <1>8, <1>9, <1>10
     DEF Step, InsertColumn, FindHome, LoadTarget, RecordCard, Sweep, LockCard, RecordSwept,
         ListColumns, DropColumn, RecordColumn, DropColumnParent, DropBoard, RecordParent,
         ReadBatch, CheckRow, CheckParent, Reads, Records, tables

LEMMA StepHoldsOthers ==
    ASSUME TypeInv, IdsOnce, BatchOnce, SweepHolds, NEW p \in Procs, Step(p),
           NEW q \in Procs \ {p}
    PROVE  SweepHoldsFor(q)'
<1>1. req'[q] = req[q]
  BY StepGoesOn DEF GoesOn
<1>2. req[q].pc \in Locking => card'[req[q].pick] = card[req[q].pick]
  BY LockedCardStays
<1>3. CASE ~Recording(p)
  BY <1>1, <1>2, <1>3, NoRowRecorded, OthersHold
<1>4. CASE Recording(p)
  <2>1. PICK row \in DeleteRow : history' = Append(history, row) /\ ToRecord(p, row)
    BY <1>4, RecordedRow
  <2>2. ASSUME req[q].pc = "drop_swept" PROVE row.batch # req[q].batch
    <3>1. Cascading(q) /\ req[q].batch \in 1 .. issued /\ issued \in Nat
      BY <2>2, AtType DEF Cascading, Sweeping, LabelOK, TypeInv, StateType
    <3>2. row.batch = 0 \/ (Cascading(p) /\ row.batch = req[p].batch)
      BY <2>1 DEF ToRecord, Cascading, Sweeping
    <3>3. QED BY <3>1, <3>2 DEF BatchOnce
  <2>3. QED BY <1>1, <1>2, <2>1, <2>2, OthersHold
<1>5. QED BY <1>3, <1>4

\* The statement of a cascade that locks, records or deletes a swept card, or goes on to others.
LEMMA StepHoldsOwn ==
    ASSUME TypeInv, SweepHolds, NEW p \in Procs, Step(p)
    PROVE  SweepHoldsFor(p)'
<1>1. GoesOn(p) /\ SweepHoldsFor(p)
  BY StepGoesOn, SweepHoldsEach
<1>2. CASE ~Cascading(p)'
  BY <1>2 DEF SweepHoldsFor, Cascading, Sweeping, Locking
<1>3. ASSUME Cascading(p), req'[p].pc \notin Locking,
             \A t \in req'[p].todo : InScope(req[p], t[2])
      PROVE  SweepHoldsFor(p)'
  <2>1. CASE Cascading(p)'
    <3>1. req'[p].op = req[p].op /\ req'[p].id = req[p].id
      BY <1>1, <2>1 DEF GoesOn, Cascading, Idle, Sweeping
    <3>2. \A x : InScope(req'[p], x) <=> InScope(req[p], x)
      BY <3>1, SameScope
    <3>3. QED BY <1>3, <3>2 DEF SweepHoldsFor, Locking
  <2>2. QED BY <1>2, <2>1
<1>4. ASSUME Cascading(p), req'[p].pc \notin Locking,
             Cascading(p)' => req'[p].todo \subseteq req[p].todo
      PROVE  SweepHoldsFor(p)'
  BY <1>1, <1>2, <1>3, <1>4 DEF SweepHoldsFor
<1>5. CASE Sweep(p)
  BY <1>3, <1>5, SweepGoesOn DEF Sweep, Reads, Cascading, Sweeping
<1>6. CASE LockCard(p)
  <2>1. CASE req'[p].pc \notin Locking
    BY <1>4, <1>6, <2>1, LockCardGoesOn
  <2>2. CASE req'[p].pc \in Locking
    <3>1. PICK t \in req[p].todo :
            /\ t[1] \in Cards /\ card[t[1]].column = t[2]
            /\ req'[p].pick = t[1] /\ req'[p].old = card[t[1]]
      BY <1>6, <2>2, LockCardGoesOn
    <3>2. /\ card' = card /\ req'[p].pc # "drop_swept" /\ req'[p].todo \subseteq req[p].todo
          /\ Cascading(p)
      BY <1>6, LockCardGoesOn DEF LockCard, tables
    <3>3. req'[p].op = req[p].op /\ req'[p].id = req[p].id
      BY <1>1, <2>2 DEF GoesOn, Idle, Locking
    <3>4. \A x : InScope(req'[p], x) <=> InScope(req[p], x)
      BY <3>3, SameScope
    <3>5. \A k \in req[p].todo : InScope(req[p], k[2])
      BY <1>1, <3>2 DEF SweepHoldsFor
    <3>6. QED BY <3>1, <3>2, <3>4, <3>5 DEF SweepHoldsFor
  <2>3. QED BY <2>1, <2>2
<1>7. CASE RecordSwept(p)
  <2>1. /\ Cascading(p) /\ req[p].pc = "record_swept" /\ req'[p].pc = "drop_swept"
        /\ req'[p].todo = req[p].todo /\ req'[p].pick = req[p].pick /\ req'[p].old = req[p].old
        /\ req'[p].batch = req[p].batch
    BY <1>7, RecordSweptGoesOn
  <2>2. card' = card
    BY <1>7 DEF RecordSwept, Records, tables
  <2>3. req'[p].op = req[p].op /\ req'[p].id = req[p].id
    BY <1>1, <2>1 DEF GoesOn, Idle
  <2>4. \A x : InScope(req'[p], x) <=> InScope(req[p], x)
    BY <2>3, SameScope
  <2>5. PICK row \in DeleteRow : history' = Append(history, row) /\ ToRecord(p, row)
    BY <1>7, RecordedRow DEF Recording
  <2>6. row.id = req[p].pick /\ row.batch = req[p].batch /\ row.snap = req[p].old
    BY <2>1, <2>5 DEF ToRecord
  <2>7. LastSays(p)'
    <3>1. history \in Seq(DeleteRow)
      BY DEF TypeInv, StateType
    <3> DEFINE k == Len(history) + 1
    <3>2. k \in DOMAIN history' /\ history'[k] = row /\ \A j \in DOMAIN history' : j <= k
      BY <2>5, <3>1
    <3> HIDE DEF k
    <3>3. k \in RowsOfPick(p)' /\ \A j \in RowsOfPick(p)' : j <= k
      BY <2>1, <2>6, <3>2 DEF RowsOfPick
    <3>4. QED BY <2>1, <2>6, <3>2, <3>3 DEF LastSays
  <2>8. QED BY <1>1, <2>1, <2>2, <2>4, <2>7 DEF SweepHoldsFor, Locking
<1>8. CASE DropSwept(p)
  BY <1>4, <1>8, DropSweptGoesOn
<1>9. CASE ListColumns(p) \/ RecordColumn(p)
  BY <1>4, <1>9, ListColumnsGoesOn, RecordColumnGoesOn DEF Locking
<1>10. CASE DropColumn(p)
  BY <1>4, <1>10, DropColumnGoesOn DEF Locking
<1>11. CASE DropColumnParent(p) \/ DropBoard(p)
  BY <1>4, <1>11, DropParentGoesOn DEF Locking
<1>12. CASE \/ Last(p) \/ FindHome(p) \/ LoadTarget(p) \/ RecordCard(p) \/ ReadBatch(p)
            \/ CheckRow(p) \/ CheckParent(p) \/ Reinsert(p)
  <2>1. req'[p].pc \notin Sweeping
    BY <1>12, LastGoesOn, FindHomeGoesOn, LoadTargetGoesOn, RecordCardGoesOn, RestoreGoesOnSame
       DEF Sweeping, Idle
  <2>2. QED BY <1>2, <2>1 DEF Cascading
<1>13. QED
  BY <1>5, <1>6, <1>7, <1>8, <1>9, <1>10, <1>11, <1>12 DEF Step, Last

LEMMA NextKeepsSweeps ==
    TypeInv /\ IdsOnce /\ BatchOnce /\ SweepHolds /\ [Next]_vars => SweepHolds'
<1> SUFFICES ASSUME TypeInv, IdsOnce, BatchOnce, SweepHolds, [Next]_vars PROVE SweepHolds'
  OBVIOUS
<1>1. CASE UNCHANGED vars
  BY <1>1 DEF vars, tables, SweepHolds, Cascading, LastSays, RowsOfPick
<1>2. ASSUME NEW p \in Procs, NEW q \in Procs, Step(p) PROVE SweepHoldsFor(q)'
  BY <1>2, StepHoldsOthers, StepHoldsOwn
<1>3. ASSUME NEW p \in Procs, Dropped(p), NEW q \in Procs PROVE SweepHoldsFor(q)'
  <2>1. CASE q = p
    BY <1>3, <2>1, DroppedGoesOn DEF SweepHoldsFor, Cascading, Sweeping, Locking, Idle
  <2>2. CASE q # p
    <3>1. req'[q] = req[q] /\ card' = card /\ history' = history
      BY <1>3, <2>2, DroppedGoesOn DEF GoesOn, tables
    <3>2. QED BY <2>2, <3>1, OthersHold
  <2>3. QED BY <2>1, <2>2
<1>4. ASSUME NEW p \in Procs, Arrivals(p), NEW q \in Procs PROVE SweepHoldsFor(q)'
  <2>1. Arrived(p)
    BY <1>4, ArrivalsArrive
  <2>2. CASE q = p
    BY <2>1, <2>2 DEF Arrived, SweepHoldsFor, Locking
  <2>3. CASE q # p
    <3>1. req'[q] = req[q] /\ card' = card /\ history' = history
      BY <2>1, <2>3 DEF Arrived
    <3>2. QED BY <2>3, <3>1, OthersHold
  <2>4. QED BY <2>2, <2>3
<1>5. CASE Next
  <2>1. \A q \in Procs : SweepHoldsFor(q)'
    BY <1>2, <1>3, <1>4, <1>5 DEF Next
  <2>2. QED BY <2>1 DEF SweepHolds, SweepHoldsFor, Locking
<1>6. QED BY <1>1, <1>5

----------------------------------------------------------------------------
(* Counting history's rows, and the handlers at a statement.               *)

LEMMA RowsForType ==
    ASSUME TypeInv, NEW x
    PROVE  RowsFor(x) \in Nat /\ IsFiniteSet({i \in DOMAIN history : history[i].id = x})
<1>1. DOMAIN history = 1 .. Len(history) /\ Len(history) \in Nat
  BY DEF TypeInv, StateType
<1>2. IsFiniteSet(1 .. Len(history))
  BY <1>1, FS_Interval
<1>3. {i \in DOMAIN history : history[i].id = x} \in SUBSET (1 .. Len(history))
  BY <1>1
<1>4. IsFiniteSet({i \in DOMAIN history : history[i].id = x})
  BY <1>2, <1>3, FS_Subset
<1>5. QED BY <1>4, FS_CardinalityType DEF RowsFor

\* A row recorded is one more for its id, and none for the others.
LEMMA RowsForAppend ==
    ASSUME TypeInv, NEW row \in DeleteRow, history' = Append(history, row), NEW x
    PROVE  RowsFor(x)' = IF row.id = x THEN RowsFor(x) + 1 ELSE RowsFor(x)
<1> DEFINE S == {i \in DOMAIN history : history[i].id = x}
           T == {i \in DOMAIN history' : history'[i].id = x}
           k == Len(history) + 1
<1>1. history \in Seq(DeleteRow)
  BY DEF TypeInv, StateType
<1>2. /\ DOMAIN history' = DOMAIN history \cup {k} /\ k \notin DOMAIN history
      /\ history'[k] = row /\ \A i \in DOMAIN history : history'[i] = history[i]
  BY <1>1
<1>3. T = IF row.id = x THEN S \cup {k} ELSE S
  BY <1>2
<1>4. k \notin S /\ IsFiniteSet(S)
  BY <1>2, RowsForType
<1>5. Cardinality(S \cup {k}) = Cardinality(S) + 1
  BY <1>4, FS_AddElement
<1>6. RowsFor(x) = Cardinality(S) /\ RowsFor(x)' = Cardinality(T)
  BY DEF RowsFor
<1>7. QED BY <1>3, <1>5, <1>6

LEMMA SomeProcs ==
    ASSUME NEW S \in SUBSET Procs
    PROVE  IsFiniteSet(S) /\ Cardinality(S) \in Nat
BY ProcsAssumption, FS_Subset, FS_CardinalityType

LEMMA FewerProcs ==
    ASSUME NEW S \in SUBSET Procs, NEW T \in SUBSET S
    PROVE  Cardinality(T) <= Cardinality(S)
BY SomeProcs, FS_Subset

LEMMA OneProcMore ==
    ASSUME NEW S \in SUBSET Procs, NEW p \in Procs, p \notin S
    PROVE  Cardinality(S \cup {p}) = Cardinality(S) + 1
BY SomeProcs, FS_AddElement

LEMMA OneProcLess ==
    ASSUME NEW S \in SUBSET Procs, NEW p \in S
    PROVE  Cardinality(S \ {p}) = Cardinality(S) - 1
BY SomeProcs, FS_RemoveElement

----------------------------------------------------------------------------
(* DeletesAhead: a card's delete row comes before its DELETE.              *)

DeletesAheadFor(c) == gone[c] + Cardinality(Deleting(c)) <= RowsFor(c)

LEMMA CountsType ==
    ASSUME TypeInv, NEW c \in Cards
    PROVE  /\ gone[c] \in Nat /\ RowsFor(c) \in Nat
           /\ Deleting(c) \in SUBSET Procs /\ Cardinality(Deleting(c)) \in Nat
<1>1. gone[c] \in Nat
  BY DEF TypeInv, StateType, TablesType
<1>2. Deleting(c) \in SUBSET Procs
  BY DEF Deleting
<1>3. QED BY <1>1, <1>2, RowsForType, SomeProcs

\* A step after which nobody is nearer a DELETE of c.
LEMMA NoNearer ==
    ASSUME TypeInv, NEW c \in Cards, DeletesAheadFor(c),
           gone'[c] = gone[c], Deleting(c)' \subseteq Deleting(c),
           RowsFor(c)' \in {RowsFor(c), RowsFor(c) + 1}
    PROVE  DeletesAheadFor(c)'
<1>1. /\ gone[c] \in Nat /\ RowsFor(c) \in Nat /\ Cardinality(Deleting(c)) \in Nat
      /\ Deleting(c) \in SUBSET Procs
  BY CountsType
<1>2. Cardinality(Deleting(c)') <= Cardinality(Deleting(c)) /\ Cardinality(Deleting(c)') \in Nat
  BY <1>1, FewerProcs, SomeProcs
<1>3. gone'[c] + Cardinality(Deleting(c)') <= RowsFor(c)'
  BY <1>1, <1>2 DEF DeletesAheadFor
<1>4. QED BY <1>3 DEF DeletesAheadFor

AtDelete == {"drop_card", "drop_swept"}

LEMMA NotDeleting ==
    ASSUME NEW p \in Procs, \A q \in Procs \ {p} : req'[q] = req[q],
           req'[p].pc \notin AtDelete, NEW c \in Cards
    PROVE  Deleting(c)' = Deleting(c) \ {p}
BY DEF Deleting, AtDelete

\* The cards' delete rows are recorded by RecordCard and RecordSwept, their DELETEs are
\* DropCard and DropSwept.
LEMMA StepKeepsAhead ==
    ASSUME TypeInv, NEW p \in Procs, Step(p), NEW c \in Cards, DeletesAheadFor(c)
    PROVE  DeletesAheadFor(c)'
<1>1. GoesOn(p) /\ LabelOK(req[p], history, issued)
  BY StepGoesOn, AtType
<1>2. \A q \in Procs \ {p} : req'[q] = req[q]
  BY <1>1 DEF GoesOn
<1>3. /\ gone[c] \in Nat /\ RowsFor(c) \in Nat /\ Cardinality(Deleting(c)) \in Nat
      /\ Deleting(c) \in SUBSET Procs
  BY CountsType
<1>4. /\ gone \in [Cards \cup Columns \cup Boards -> Nat]
      /\ card \in [Cards -> Row \cup {NoRow}]
  BY DEF TypeInv, StateType, TablesType
<1>5. CASE RecordCard(p) \/ RecordSwept(p)
  <2>1. PICK row \in DeleteRow : history' = Append(history, row) /\ ToRecord(p, row)
    BY <1>5, RecordedRow DEF Recording
  <2>2. gone' = gone
    BY <1>5, RecordedRow DEF Recording
  <2>3. /\ \/ req[p].pc = "record_card" /\ req'[p].pc = "drop_card" /\ req'[p].id = req[p].id
           \/ req[p].pc = "record_swept" /\ req'[p].pc = "drop_swept" /\ req'[p].pick = req[p].pick
    BY <1>1, <1>5, RecordCardGoesOn, RecordSweptGoesOn DEF GoesOn, Idle
  <2>4. Deleting(c)' = IF row.id = c THEN Deleting(c) \cup {p} ELSE Deleting(c)
    BY <1>2, <2>1, <2>3 DEF Deleting, ToRecord
  <2>5. p \notin Deleting(c)
    BY <2>3 DEF Deleting
  <2>6. CASE row.id = c
    <3>1. Cardinality(Deleting(c)') = Cardinality(Deleting(c)) + 1
      BY <1>3, <2>4, <2>5, <2>6, OneProcMore
    <3>2. RowsFor(c)' = RowsFor(c) + 1
      BY <2>1, <2>6, RowsForAppend
    <3>3. gone'[c] + Cardinality(Deleting(c)') <= RowsFor(c)'
      BY <1>3, <2>2, <3>1, <3>2 DEF DeletesAheadFor
    <3>4. QED BY <3>3 DEF DeletesAheadFor
  <2>7. CASE row.id # c
    <3>1. RowsFor(c)' = RowsFor(c)
      BY <2>1, <2>7, RowsForAppend
    <3>2. QED BY <1>3, <2>2, <2>4, <2>7, <3>1, NoNearer
  <2>8. QED BY <2>6, <2>7
<1>6. CASE DropCard(p) \/ DropSwept(p)
  <2>1. history' = history /\ RowsFor(c)' = RowsFor(c)
    BY <1>6 DEF DropCard, DropSwept, Writes, RowsFor
  <2>2. Deleting(c)' = Deleting(c) \ {p}
    <3>1. req'[p].pc \notin AtDelete
      BY <1>6, LastGoesOn, DropSweptGoesOn DEF Last, AtDelete, Idle, Locking
    <3>2. QED BY <1>2, <3>1, NotDeleting
  <2>3. PICK d \in Cards : /\ DeleteCardRow(d) \/ gone' = gone
                           /\ p \in Deleting(d)
    BY <1>1, <1>6 DEF DropCard, DropSwept, Writes, LabelOK, Deleting
  <2>4. CASE c = d
    <3>1. Cardinality(Deleting(c)') = Cardinality(Deleting(c)) - 1
      BY <1>3, <2>2, <2>3, <2>4, OneProcLess
    <3>2. gone'[c] \in {gone[c], gone[c] + 1}
      BY <1>4, <2>3, <2>4 DEF DeleteCardRow
    <3>3. gone'[c] + Cardinality(Deleting(c)') <= RowsFor(c)'
      BY <1>3, <2>1, <3>1, <3>2 DEF DeletesAheadFor
    <3>4. QED BY <3>3 DEF DeletesAheadFor
  <2>5. CASE c # d
    <3>1. gone'[c] = gone[c]
      BY <1>4, <2>3, <2>5 DEF DeleteCardRow
    <3>2. QED BY <1>3, <2>1, <2>2, <3>1, NoNearer
  <2>6. QED BY <2>4, <2>5
<1>7. CASE ~(RecordCard(p) \/ RecordSwept(p) \/ DropCard(p) \/ DropSwept(p))
  <2>1. req'[p].pc \notin AtDelete
    <3>1. CASE \/ InsertCard(p) \/ InsertColumn(p) \/ Write(p) \/ RecordParent(p)
      BY <3>1, LastGoesOn DEF Last, AtDelete, Idle
    <3>2. CASE FindHome(p) \/ LoadTarget(p) \/ ReadBatch(p) \/ CheckRow(p) \/ CheckParent(p) \/ Reinsert(p)
      BY <3>2, FindHomeGoesOn, LoadTargetGoesOn, RestoreGoesOnSame DEF AtDelete
    <3>3. CASE Sweep(p) \/ LockCard(p) \/ ListColumns(p) \/ RecordColumn(p)
      BY <3>3, SweepGoesOn, LockCardGoesOn, ListColumnsGoesOn, RecordColumnGoesOn
         DEF AtDelete, Sweeping, Locking
    <3>4. CASE DropColumn(p) \/ DropColumnParent(p) \/ DropBoard(p)
      BY <3>4, DropColumnGoesOn, DropParentGoesOn DEF AtDelete
    <3>5. QED BY <1>7, <3>1, <3>2, <3>3, <3>4 DEF Step
  <2>2. Deleting(c)' \subseteq Deleting(c)
    BY <1>2, <2>1, NotDeleting
  <2>3. RowsFor(c)' \in {RowsFor(c), RowsFor(c) + 1}
    <3>1. CASE Recording(p)
      BY <1>3, <3>1, RecordedRow, RowsForAppend
    <3>2. CASE ~Recording(p)
      <4>1. history' = history
        BY <3>2, NoRowRecorded
      <4>2. QED BY <1>3, <4>1 DEF RowsFor
    <3>3. QED BY <3>1, <3>2
  <2>4. gone'[c] = gone[c]
    <3>1. CASE DropColumn(p)
      BY <1>4, <3>1, DropColumnGoesOn, IdsAssumption
    <3>2. CASE DropColumnParent(p) \/ DropBoard(p)
      BY <1>4, <3>2, DropParentGoesOn, IdsAssumption
    <3>3. CASE Recording(p)
      BY <3>3, RecordedRow
    <3>4. CASE ~(DropColumn(p) \/ DropColumnParent(p) \/ DropBoard(p) \/ Recording(p))
      BY <1>7, <3>4 DEF Step, Recording, InsertCard, InsertColumn, FindHome, LoadTarget, Write,
         Sweep, LockCard, ListColumns, ReadBatch, CheckRow, CheckParent, Reinsert, Reads
    <3>5. QED BY <3>1, <3>2, <3>3, <3>4
  <2>5. QED BY <2>2, <2>3, <2>4, NoNearer
<1>8. QED BY <1>5, <1>6, <1>7

LEMMA NextKeepsAhead == TypeInv /\ DeletesAhead /\ [Next]_vars => DeletesAhead'
<1> SUFFICES ASSUME TypeInv, DeletesAhead, [Next]_vars, NEW c \in Cards PROVE DeletesAheadFor(c)'
  BY DEF DeletesAhead, DeletesAheadFor
<1>1. DeletesAheadFor(c)
  BY DEF DeletesAhead, DeletesAheadFor
<1>2. CASE UNCHANGED vars
  BY <1>1, <1>2 DEF vars, DeletesAheadFor, Deleting, RowsFor
<1>3. ASSUME NEW p \in Procs, req'[p].pc \notin AtDelete,
             \A q \in Procs \ {p} : req'[q] = req[q], gone' = gone, history' = history
      PROVE  DeletesAheadFor(c)'
  <2>1. Deleting(c)' \subseteq Deleting(c)
    BY <1>3, NotDeleting
  <2>2. RowsFor(c)' = RowsFor(c)
    BY <1>3 DEF RowsFor
  <2>3. QED BY <1>1, <1>3, <2>1, <2>2, NoNearer
<1>4. CASE Next
  <2>1. ASSUME NEW p \in Procs, Arrivals(p) PROVE DeletesAheadFor(c)'
    BY <1>3, <2>1, ArrivalsArrive DEF Arrived, AtDelete, Locking
  <2>2. ASSUME NEW p \in Procs, Dropped(p) PROVE DeletesAheadFor(c)'
    <3>1. req'[p].pc \notin AtDelete /\ \A q \in Procs \ {p} : req'[q] = req[q]
      BY <2>2, DroppedGoesOn DEF AtDelete, Idle, GoesOn
    <3>2. gone' = gone /\ history' = history
      BY <2>2 DEF Dropped
    <3>3. QED BY <1>3, <3>1, <3>2
  <2>3. QED BY <1>1, <1>4, <2>1, <2>2, StepKeepsAhead DEF Next
<1>5. QED BY <1>2, <1>4

----------------------------------------------------------------------------
(* ParentHistoryExact: a column's or board's delete row comes after its    *)
(* DELETE, and is missing only when its request was dropped in between.    *)

PendingOf(x) ==
    {p \in Procs : \/ req[p].pc = "record_parent" /\ req[p].id = x
                   \/ req[p].pc = "record_column" /\ req[p].pick = x}

ExactFor(x) ==
    /\ RowsFor(x) + Cardinality(PendingOf(x)) <= gone[x]
    /\ gone[x] <= RowsFor(x) + Cardinality(PendingOf(x)) + dropped

LEMMA ExactForEach == ParentHistoryExact <=> \A x \in Columns \cup Boards : ExactFor(x)
BY DEF ParentHistoryExact, ExactFor, Pending, PendingOf

AtRecord == {"record_parent", "record_column"}

LEMMA ParentCountsType ==
    ASSUME TypeInv, NEW x \in Columns \cup Boards
    PROVE  /\ gone[x] \in Nat /\ RowsFor(x) \in Nat /\ dropped \in Nat
           /\ PendingOf(x) \in SUBSET Procs /\ Cardinality(PendingOf(x)) \in Nat
<1>1. gone[x] \in Nat /\ dropped \in Nat
  BY DEF TypeInv, StateType, TablesType
<1>2. PendingOf(x) \in SUBSET Procs
  BY DEF PendingOf
<1>3. QED BY <1>1, <1>2, RowsForType, SomeProcs

LEMMA NotPending ==
    ASSUME NEW p \in Procs, \A q \in Procs \ {p} : req'[q] = req[q],
           req'[p].pc \notin AtRecord, NEW x
    PROVE  PendingOf(x)' = PendingOf(x) \ {p}
BY DEF PendingOf, AtRecord

\* A step that neither starts nor ends the recording of a deletion.
LEMMA StaysExact ==
    ASSUME NEW x, ExactFor(x), NEW p \in Procs, \A q \in Procs \ {p} : req'[q] = req[q],
           req[p].pc \notin AtRecord, req'[p].pc \notin AtRecord,
           gone'[x] = gone[x], RowsFor(x)' = RowsFor(x), dropped' = dropped
    PROVE  ExactFor(x)'
<1>1. p \notin PendingOf(x)
  BY DEF PendingOf, AtRecord
<1>2. PendingOf(x)' = PendingOf(x)
  <2>1. PendingOf(x)' = PendingOf(x) \ {p}
    BY NotPending
  <2>2. QED BY <1>1, <2>1
<1>3. QED BY <1>2 DEF ExactFor

\* A parent's delete row is written: one row more, one to write less.
LEMMA RecordingKeepsExact ==
    ASSUME TypeInv, NEW p \in Procs, RecordColumn(p) \/ RecordParent(p),
           NEW x \in Columns \cup Boards, ExactFor(x)
    PROVE  ExactFor(x)'
<1>1. PICK row \in DeleteRow : history' = Append(history, row) /\ ToRecord(p, row)
  BY RecordedRow DEF Recording
<1>2. gone' = gone /\ dropped' = dropped
  BY RecordedRow DEF Recording
<1>3. req[p].pc \in AtRecord
  BY DEF RecordColumn, RecordParent, Records, AtRecord
<1>4. \A q \in Procs \ {p} : req'[q] = req[q]
  BY StepGoesOn DEF Step, GoesOn
<1>5. req'[p].pc \notin AtRecord
  BY RecordColumnGoesOn, LastGoesOn DEF Last, Idle, AtRecord
<1>6. PendingOf(x)' = PendingOf(x) \ {p}
  BY <1>4, <1>5, NotPending
<1>7. p \in PendingOf(x) <=> row.id = x
  BY <1>1, <1>3 DEF ToRecord, PendingOf, AtRecord
<1>8. /\ gone[x] \in Nat /\ RowsFor(x) \in Nat /\ dropped \in Nat
      /\ PendingOf(x) \in SUBSET Procs /\ Cardinality(PendingOf(x)) \in Nat
  BY ParentCountsType
<1>9. CASE row.id = x
  <2>1. RowsFor(x)' = RowsFor(x) + 1
    BY <1>1, <1>9, RowsForAppend
  <2>2. Cardinality(PendingOf(x)') = Cardinality(PendingOf(x)) - 1
    BY <1>6, <1>7, <1>8, <1>9, OneProcLess
  <2>3. /\ RowsFor(x)' + Cardinality(PendingOf(x)') <= gone'[x]
        /\ gone'[x] <= RowsFor(x)' + Cardinality(PendingOf(x)') + dropped'
    BY <1>2, <1>8, <2>1, <2>2 DEF ExactFor
  <2>4. QED BY <2>3 DEF ExactFor
<1>10. CASE row.id # x
  <2>1. RowsFor(x)' = RowsFor(x)
    BY <1>1, <1>10, RowsForAppend
  <2>2. PendingOf(x)' = PendingOf(x)
    BY <1>6, <1>7, <1>10
  <2>3. QED BY <1>2, <2>1, <2>2 DEF ExactFor
<1>11. QED BY <1>9, <1>10

\* A parent is deleted: it went once more, and its delete row is still to write.
LEMMA DeletingKeepsExact ==
    ASSUME TypeInv, NEW p \in Procs, DropColumn(p) \/ DropColumnParent(p) \/ DropBoard(p),
           NEW x \in Columns \cup Boards, ExactFor(x)
    PROVE  ExactFor(x)'
<1>1. /\ \A q \in Procs \ {p} : req'[q] = req[q]
      /\ req[p].pc \notin AtRecord
  BY DropColumnGoesOn, DropParentGoesOn DEF GoesOn, AtRecord
<1>2. history' = history /\ dropped' = dropped
  BY DEF DropColumn, DropColumnParent, DropBoard, Writes
<1>3. RowsFor(x)' = RowsFor(x)
  BY <1>2 DEF RowsFor
<1>4. \/ gone' = gone /\ req'[p].pc \notin AtRecord
      \/ \E y \in Columns \cup Boards :
            /\ gone' = [gone EXCEPT ![y] = @ + 1]
            /\ \/ req'[p].pc = "record_parent" /\ req'[p].id = y
               \/ req'[p].pc = "record_column" /\ req'[p].pick = y
  BY DropColumnGoesOn, DropParentGoesOn DEF AtRecord
<1>5. CASE gone' = gone /\ req'[p].pc \notin AtRecord
  BY <1>1, <1>2, <1>3, <1>5, StaysExact
<1>6. ASSUME NEW y \in Columns \cup Boards, gone' = [gone EXCEPT ![y] = @ + 1],
             \/ req'[p].pc = "record_parent" /\ req'[p].id = y
             \/ req'[p].pc = "record_column" /\ req'[p].pick = y
      PROVE  ExactFor(x)'
  <2>1. /\ gone[x] \in Nat /\ RowsFor(x) \in Nat /\ dropped \in Nat
        /\ PendingOf(x) \in SUBSET Procs /\ Cardinality(PendingOf(x)) \in Nat
    BY ParentCountsType
  <2>2. p \notin PendingOf(x)
    BY <1>1 DEF PendingOf, AtRecord
  <2>3. PendingOf(x)' = IF x = y THEN PendingOf(x) \cup {p} ELSE PendingOf(x)
    BY <1>1, <1>6, <2>2 DEF PendingOf
  <2>4. Cardinality(PendingOf(x) \cup {p}) = Cardinality(PendingOf(x)) + 1
    BY <2>1, <2>2, OneProcMore
  <2>5. gone'[x] = IF x = y THEN gone[x] + 1 ELSE gone[x]
    BY <1>6 DEF TypeInv, StateType, TablesType
  <2>6. /\ RowsFor(x)' + Cardinality(PendingOf(x)') <= gone'[x]
        /\ gone'[x] <= RowsFor(x)' + Cardinality(PendingOf(x)') + dropped'
    BY <1>2, <1>3, <2>1, <2>3, <2>4, <2>5 DEF ExactFor
  <2>7. QED BY <2>6 DEF ExactFor
<1>7. QED BY <1>4, <1>5, <1>6

LEMMA StepKeepsExact ==
    ASSUME TypeInv, NEW p \in Procs, Step(p), NEW x \in Columns \cup Boards, ExactFor(x)
    PROVE  ExactFor(x)'
<1>1. CASE RecordColumn(p) \/ RecordParent(p)
  BY <1>1, RecordingKeepsExact
<1>2. CASE DropColumn(p) \/ DropColumnParent(p) \/ DropBoard(p)
  BY <1>2, DeletingKeepsExact
<1>3. CASE ~(\/ RecordColumn(p) \/ RecordParent(p)
             \/ DropColumn(p) \/ DropColumnParent(p) \/ DropBoard(p))
  <2>1. \A q \in Procs \ {p} : req'[q] = req[q]
    BY StepGoesOn DEF GoesOn
  <2>2. req[p].pc \notin AtRecord
    BY <1>3 DEF Step, AtRecord, InsertCard, InsertColumn, FindHome, LoadTarget, Write, RecordCard,
       DropCard, Sweep, LockCard, RecordSwept, DropSwept, ListColumns, ReadBatch, CheckRow,
       CheckParent, Reinsert, Reads, Writes, Records
  <2>3. req'[p].pc \notin AtRecord
    <3>1. CASE Last(p) \/ FindHome(p) \/ LoadTarget(p) \/ RecordCard(p)
      BY <3>1, LastGoesOn, FindHomeGoesOn, LoadTargetGoesOn, RecordCardGoesOn
         DEF AtRecord, Idle
    <3>2. CASE ReadBatch(p) \/ CheckRow(p) \/ CheckParent(p) \/ Reinsert(p)
      BY <3>2, RestoreGoesOnSame DEF AtRecord
    <3>3. CASE LockCard(p) \/ RecordSwept(p) \/ DropSwept(p) \/ ListColumns(p)
      BY <3>3, LockCardGoesOn, RecordSweptGoesOn, DropSweptGoesOn, ListColumnsGoesOn DEF AtRecord
    <3>4. CASE Sweep(p)
      <4>1. req[p] \in Locals
        BY AtType
      <4>2. PICK left : Become(p, NextSwept(req[p], left))
        BY <3>4 DEF Sweep
      <4>3. NextSwept(req[p], left).pc \in {"lock_card", "drop_parent", "list_columns"}
        BY <4>1 DEF NextSwept, Locals
      <4>4. QED BY <4>2, <4>3, Becomes DEF AtRecord
    <3>5. QED BY <1>3, <3>1, <3>2, <3>3, <3>4 DEF Step, Last
  <2>4. gone \in [Cards \cup Columns \cup Boards -> Nat] /\ x \notin Cards
    BY IdsAssumption DEF TypeInv, StateType, TablesType
  <2>5. gone'[x] = gone[x]
    <3>1. CASE DropCard(p)
      BY <2>4, <3>1, AtType DEF DropCard, DeleteCardRow, Writes, LabelOK
    <3>2. CASE DropSwept(p)
      BY <2>4, <3>2, AtType DEF DropSwept, DeleteCardRow, Writes, LabelOK
    <3>3. CASE UNCHANGED gone
      BY <3>3
    <3>4. QED
      BY <1>3, <3>1, <3>2, <3>3 DEF Step, InsertCard, InsertColumn, FindHome, LoadTarget, Write,
         RecordCard, Sweep, LockCard, RecordSwept, ListColumns, ReadBatch, CheckRow, CheckParent,
         Reinsert, Reads, Records
  <2>6. RowsFor(x)' = RowsFor(x)
    <3>1. CASE Recording(p)
      <4>1. PICK row \in DeleteRow : history' = Append(history, row) /\ ToRecord(p, row)
        BY <3>1, RecordedRow
      <4>2. row.id # x
        BY <2>2, <2>4, <4>1 DEF ToRecord, AtRecord
      <4>3. QED BY <4>1, <4>2, RowsForAppend
    <3>2. CASE ~Recording(p)
      BY <3>2, NoRowRecorded DEF RowsFor
    <3>3. QED BY <3>1, <3>2
  <2>7. dropped' = dropped
    BY DEF Step, InsertCard, InsertColumn, FindHome, LoadTarget, Write, RecordCard, DropCard, Sweep,
       LockCard, RecordSwept, DropSwept, ListColumns, DropColumn, RecordColumn, DropColumnParent,
       DropBoard, RecordParent, ReadBatch, CheckRow, CheckParent, Reinsert, Reads, Writes, Records
  <2>8. QED BY <2>1, <2>2, <2>3, <2>5, <2>6, <2>7, StaysExact
<1>4. QED BY <1>1, <1>2, <1>3

LEMMA NextKeepsExact == TypeInv /\ ParentHistoryExact /\ [Next]_vars => ParentHistoryExact'
<1> SUFFICES ASSUME TypeInv, ParentHistoryExact, [Next]_vars, NEW x \in Columns \cup Boards
             PROVE  ExactFor(x)'
  BY ExactForEach DEF ParentHistoryExact, ExactFor, Pending, PendingOf
<1>1. ExactFor(x)
  BY ExactForEach
<1>2. CASE UNCHANGED vars
  BY <1>1, <1>2 DEF vars, ExactFor, PendingOf, RowsFor
<1>3. ASSUME NEW p \in Procs, Arrived(p) PROVE ExactFor(x)'
  <2>1. /\ \A q \in Procs \ {p} : req'[q] = req[q]
        /\ req[p].pc \notin AtRecord /\ req'[p].pc \notin AtRecord
        /\ gone' = gone /\ history' = history /\ dropped' = dropped
    BY <1>3 DEF Arrived, AtRecord, Idle
  <2>2. RowsFor(x)' = RowsFor(x)
    BY <2>1 DEF RowsFor
  <2>3. QED BY <1>1, <2>1, <2>2, StaysExact
<1>4. ASSUME NEW p \in Procs, Dropped(p) PROVE ExactFor(x)'
  <2>1. /\ \A q \in Procs \ {p} : req'[q] = req[q]
        /\ req'[p].pc \notin AtRecord
    BY <1>4, DroppedGoesOn DEF GoesOn, AtRecord, Idle
  <2>2. gone' = gone /\ history' = history /\ dropped' = dropped + 1
    BY <1>4 DEF Dropped
  <2>3. RowsFor(x)' = RowsFor(x)
    BY <2>2 DEF RowsFor
  <2>4. PendingOf(x)' = PendingOf(x) \ {p}
    BY <2>1, NotPending
  <2>5. /\ gone[x] \in Nat /\ RowsFor(x) \in Nat /\ dropped \in Nat
        /\ PendingOf(x) \in SUBSET Procs /\ Cardinality(PendingOf(x)) \in Nat
    BY ParentCountsType
  <2>6. Cardinality(PendingOf(x)') \in {Cardinality(PendingOf(x)), Cardinality(PendingOf(x)) - 1}
    <3>1. CASE p \in PendingOf(x)
      BY <2>4, <2>5, <3>1, OneProcLess
    <3>2. CASE p \notin PendingOf(x)
      <4>1. PendingOf(x)' = PendingOf(x)
        BY <2>4, <3>2
      <4>2. QED BY <4>1
    <3>3. QED BY <3>1, <3>2
  <2>7. /\ RowsFor(x)' + Cardinality(PendingOf(x)') <= gone'[x]
        /\ gone'[x] <= RowsFor(x)' + Cardinality(PendingOf(x)') + dropped'
    BY <1>1, <2>2, <2>3, <2>5, <2>6 DEF ExactFor
  <2>8. QED BY <2>7 DEF ExactFor
<1>5. CASE Next
  BY <1>1, <1>3, <1>4, <1>5, ArrivalsArrive, StepKeepsExact DEF Next
<1>6. QED BY <1>2, <1>5

----------------------------------------------------------------------------
(* The theorems                                                            *)

LEMMA InitInv == Init => StoreInv /\ ParentHistoryExact
<1> SUFFICES ASSUME Init PROVE StoreInv /\ ParentHistoryExact
  OBVIOUS
<1>1. TypeInv
  BY InitType
<1>2. \A p \in Procs : req[p] = Idle /\ ~Inserting(p) /\ ~Cascading(p)
  BY DEF Init, Inserting, Cascading, Sweeping, Idle
<1>3. DOMAIN history = {}
  BY DEF Init
<1>4. IdsOnce
  <2>1. Fresh = {} /\ Known = used
    BY <1>2 DEF Fresh, Known
  <2>2. Present \cup columns \subseteq used
    BY DEF Init, Present
  <2>3. QED BY <1>2, <1>3, <2>1, <2>2 DEF IdsOnce, Idle
<1>5. BatchOnce
  BY <1>2 DEF BatchOnce
<1>6. SweepHolds
  BY <1>2 DEF SweepHolds, Idle
<1>7. \A x : RowsFor(x) = 0
  <2>1. \A x : {i \in DOMAIN history : history[i].id = x} = {}
    BY <1>3
  <2>2. QED BY <2>1, FS_EmptySet DEF RowsFor
<1>8. DeletesAhead
  <2> SUFFICES ASSUME NEW c \in Cards PROVE gone[c] + Cardinality(Deleting(c)) <= RowsFor(c)
    BY DEF DeletesAhead
  <2>1. Deleting(c) = {}
    BY <1>2 DEF Deleting, Idle
  <2>2. QED BY <1>7, <2>1, FS_EmptySet DEF Init
<1>9. ParentHistoryExact
  <2> SUFFICES ASSUME NEW x \in Columns \cup Boards PROVE ExactFor(x)
    BY ExactForEach
  <2>1. PendingOf(x) = {}
    BY <1>2 DEF PendingOf, Idle
  <2>2. QED BY <1>7, <2>1, FS_EmptySet DEF Init, ExactFor
<1>10. QED BY <1>1, <1>4, <1>5, <1>6, <1>8, <1>9 DEF StoreInv

LEMMA NextKeepsInv ==
    StoreInv /\ ParentHistoryExact /\ [Next]_vars => StoreInv' /\ ParentHistoryExact'
BY NextKeepsType, NextKeepsIds, NextKeepsBatches, NextKeepsSweeps, NextKeepsAhead, NextKeepsExact
   DEF StoreInv

\* The inductive invariant: types and labels, ids and batches used once, what a cascade holds
\* under its row lock, and the rows written ahead of the cards' deletions and after their
\* parents'.
THEOREM StoreInvCorrect == Spec => [](StoreInv /\ ParentHistoryExact)
<1>1. Init => StoreInv /\ ParentHistoryExact
  BY InitInv
<1>2. StoreInv /\ ParentHistoryExact /\ [Next]_vars => (StoreInv /\ ParentHistoryExact)'
  BY NextKeepsInv
<1>3. QED BY <1>1, <1>2, PTL DEF Spec

\* For any boards, columns, cards and handlers, whatever they do at once and whichever are
\* dropped: every table row and every handler's locals have their types, no row has an id that
\* was never given out, and a cascade holds the lock of the card it works on and no other.
THEOREM TypeCorrect == Spec => []TypeOK
<1>1. StoreInv => TypeOK
  BY DEF StoreInv, TypeInv, IdsOnce, Known, TypeOK
<1>2. QED BY <1>1, StoreInvCorrect, PTL

\* A card never goes without a delete row written before, so a restore can bring it back: not
\* when two requests delete it at once, not when a restore brings it back in between, and not
\* when a request is dropped half way.
THEOREM CardDeletesRecordedCorrect == Spec => []CardDeletesRecorded
<1>1. StoreInv => CardDeletesRecorded
  <2> SUFFICES ASSUME StoreInv, NEW c \in Cards PROVE gone[c] <= RowsFor(c)
    BY DEF CardDeletesRecorded
  <2>1. gone[c] + Cardinality(Deleting(c)) <= RowsFor(c)
    BY DEF StoreInv, DeletesAhead
  <2>2. gone[c] \in Nat /\ RowsFor(c) \in Nat /\ Cardinality(Deleting(c)) \in Nat
    BY CountsType DEF StoreInv
  <2>3. QED BY <2>1, <2>2
<1>2. QED BY <1>1, StoreInvCorrect, PTL

\* History never says that a column or board was deleted when it was not, and the deletions it
\* misses are at most the requests dropped between a DELETE and its row.
THEOREM ParentHistoryExactCorrect == Spec => []ParentHistoryExact
BY StoreInvCorrect, PTL

\* A cascade deletes no card that has left its column or board, and what history says last
\* about the card in that batch is the card as it stood: no edit or move is lost between the
\* row and the DELETE, however the requests interleave.
THEOREM SweptAsRecordedCorrect == Spec => SweptAsRecorded
<1> DEFINE Recorded(p) ==
      LET r == req[p]
          ofCard == {i \in DOMAIN history :
                        history[i].id = r.pick /\ history[i].batch = r.batch} IN
      /\ InScope(r, card[r.pick].column)
      /\ \E i \in ofCard :
            /\ \A j \in ofCard : j <= i
            /\ history[i].snap = card[r.pick]
<1>1. StoreInv => \A p \in Procs : Sweeps(p) => Recorded(p)
  <2> SUFFICES ASSUME StoreInv, NEW p \in Procs, Sweeps(p) PROVE Recorded(p)
    OBVIOUS
  <2>1. req[p].pc = "drop_swept"
    BY DEF Sweeps
  <2>2. /\ card[req[p].pick] = req[p].old /\ InScope(req[p], req[p].old.column)
        /\ LastSays(p)
    BY <2>1 DEF StoreInv, SweepHolds
  <2>3. QED BY <2>2 DEF LastSays, RowsOfPick
<1>2. StoreInv => [\A p \in Procs : Sweeps(p) => Recorded(p)]_vars
  BY <1>1
<1>3. QED BY <1>2, StoreInvCorrect, PTL DEF SweptAsRecorded
=============================================================================
