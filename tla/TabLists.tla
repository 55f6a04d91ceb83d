------------------------------ MODULE TabLists ------------------------------
(***************************************************************************)
(* How a tab keeps a column's cards in order: the list operations behind   *)
(* the events, the snapshots and the answers it receives                   *)
(* (frontend/src/components/column.rs, frontend/src/columns.rs).           *)
(*                                                                         *)
(* A list is a sequence of entries [id, pos].  What else an entry holds is *)
(* carried along and never looked at.                                      *)
(***************************************************************************)
EXTENDS Integers, FiniteSets, SequencesExt

IdsOf(list) == {list[i].id : i \in DOMAIN list}

Without(list, id) == SelectSeq(list, LAMBDA e : e.id # id)

\* Before the first entry with a higher position, else at the end.
SlotFor(list, pos) ==
    LET higher == {i \in DOMAIN list : list[i].pos > pos}
    IN  IF higher = {} THEN Len(list) + 1
        ELSE CHOOSE i \in higher : \A j \in higher : i <= j

\* A new entry goes to its slot; one that is already there stays as it is.
InsertSorted(list, e) ==
    IF e.id \in IdsOf(list) THEN list ELSE InsertAt(list, SlotFor(list, e.pos), e)

\* An entry that moves within its list; one that is not there stays away.
Reslot(list, e) ==
    LET rest == Without(list, e.id)
    IN  IF e.id \in IdsOf(list) THEN InsertAt(rest, SlotFor(rest, e.pos), e) ELSE list

\* The list sorted by keys[i], entries of the same key in the order they had.
StableSort(list, keys) ==
    LET Before(i, j) == keys[i] < keys[j] \/ (keys[i] = keys[j] /\ i < j)
        Rank(i) == 1 + Cardinality({j \in DOMAIN list : Before(j, i)})
    IN  [n \in DOMAIN list |-> list[CHOOSE i \in DOMAIN list : Rank(i) = n]]

\* CardsRenumbered: the named entries take their new positions, and the list follows.
Renumber(list, positions) ==
    LET moved == [i \in DOMAIN list |->
                    IF list[i].id \in DOMAIN positions
                    THEN [list[i] EXCEPT !.pos = positions[list[i].id]]
                    ELSE list[i]]
    IN  StableSort(moved, [i \in DOMAIN moved |-> moved[i].pos])

\* The answer to a reorder: the entries it names first, in its order and with its
\* contents, the others behind them.  It adds nothing and drops nothing.
FollowServer(list, answer) ==
    LET known == SelectSeq(answer, LAMBDA e : e.id \in IdsOf(list))
    IN  known \o SelectSeq(list, LAMBDA e : e.id \notin IdsOf(answer))

\* The list in the order of ids; an entry the order does not name ranks last.
RankBy(list, order) ==
    LET rank(e) == IF Contains(order, e.id)
                   THEN CHOOSE i \in DOMAIN order : order[i] = e.id
                   ELSE Len(order) + 1
    IN  StableSort(list, [i \in DOMAIN list |-> rank(list[i])])
============================================================================
