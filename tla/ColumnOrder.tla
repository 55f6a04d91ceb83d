---------------------------- MODULE ColumnOrder ----------------------------
(***************************************************************************)
(* The order of a board's columns: a tab shows a drag before the server    *)
(* has a say (frontend: pages/board_view.rs on_column_drop, columns.rs),   *)
(* the server rewrites one position after the other (backend:              *)
(* routes/columns.rs reorder_columns), and every tab follows what the      *)
(* events and, after a failure, a fetch of the columns say.                *)
(*                                                                         *)
(* A column is the number of its creation, as ids sort by age.  Between a  *)
(* column's INSERT, UPDATE or DELETE and its event stands the INSERT of an *)
(* audit row: events of two requests may be sent the other way round, or,  *)
(* when that INSERT fails, never.  Abstracted: names, what the audit rows  *)
(* say, the load of a column before its UPDATE (a column that vanishes in  *)
(* between is a failure); the answer to a tab's own rename, which does to  *)
(* its list what the event does; the stream keeps its order and loses      *)
(* nothing (BoardTab has the rest).                                        *)
(***************************************************************************)
EXTENDS TabLists, FiniteSetsExt, SequencesExt

CONSTANTS
    Given,           \* the columns there are at first
    Created,         \* columns that may be created
    Places,          \* the sets of positions the columns may have at first
    Far,             \* where the MCP server's create_column puts a column (99999)
    Asked,           \* positions the MCP server's update_column asks for
    MaxReorders,     \* bound: reorder requests
    MaxFaults,       \* bound: requests that fail
    MaxChanges,      \* bound: columns that come, go or are updated
    MaxWrites        \* bound: those and reorders together, a reorder counting twice

VARIABLES
    position,        \* the rows: position[column]
    fresh,           \* columns not created yet
    unsent,          \* events of changes made, held up by their audit rows
    told,            \* events on their way to the tab
    tab,             \* the tab's list, entries [id, pos]
    requests,        \* reorders, in the order they were sent
    faults, changes,
    excuse           \* history: why the tab may show another order

columnVars == <<position, fresh, unsent, told, tab, requests, faults, changes, excuse>>

Columns == DOMAIN position
Because(cause, why) == IF cause THEN {why} ELSE {}

\* ORDER BY position, id
Before(at, c, d) == at[c] < at[d] \/ (at[c] = at[d] /\ c < d)
OrderOf(at) ==
    [i \in 1 .. Cardinality(DOMAIN at) |->
        CHOOSE c \in DOMAIN at : Cardinality({d \in DOMAIN at : Before(at, d, c)}) = i - 1]
Entries(at) == [i \in DOMAIN OrderOf(at) |-> [id |-> OrderOf(at)[i], pos |-> at[OrderOf(at)[i]]]]
Ids(list) == [i \in DOMAIN list |-> list[i].id]

Init ==
    /\ position \in Places
    /\ fresh = Created
    /\ unsent = << >> /\ told = << >> /\ tab = Entries(position)
    /\ requests = << >> /\ faults = 0 /\ changes = 0 /\ excuse = {}

Within(more) == 2 * Len(requests) + changes + more <= MaxWrites

AtServer == {"working", "listed"}
Working == {k \in DOMAIN requests : requests[k].at \in AtServer}

\* The list with the i-th entry taken out and put back as the j-th: past the j-th on its way
\* right, before it on its way left.
Dragged(list, i, j) == InsertAt(RemoveAt(list, i), j, list[i])

Request(by, order, previous, at) ==
    [by |-> by, order |-> order, next |-> 1, at |-> at, previous |-> previous, seen |-> order]

\* A request that is over, of which nothing matters any more.
Over == Request("nobody", << >>, << >>, "done")
End(k) == requests' = [requests EXCEPT ![k] = Over]

----------------------------------------------------------------------------
(* Drags.                                                                  *)

Sends(request) ==
    /\ requests' = Append(requests, request)
    /\ excuse' = excuse \cup Because(request.at = "working" /\ Working # {}, "overlap")

\* on_column_drop; offline_guard may refuse the request at once.
Drag ==
    /\ Len(requests) < MaxReorders /\ Within(2)
    /\ \E i, j \in DOMAIN tab :
          /\ i # j
          /\ tab' = Dragged(tab, i, j)
          /\ \/ Sends(Request("tab", Ids(tab'), Ids(tab), "working")) /\ UNCHANGED faults
             \/ /\ faults < MaxFaults /\ faults' = faults + 1
                /\ Sends(Request("tab", Ids(tab'), Ids(tab), "failed"))
    /\ UNCHANGED <<position, fresh, unsent, told, changes>>

\* A drag in another tab, which shows what the server has.
OtherDrag ==
    /\ Len(requests) < MaxReorders /\ Within(2)
    /\ LET order == OrderOf(position)
       IN  \E i, j \in DOMAIN order :
              i # j /\ Sends(Request("other", Dragged(order, i, j), order, "working"))
    /\ UNCHANGED <<position, fresh, unsent, told, tab, faults, changes>>

----------------------------------------------------------------------------
(* reorder_columns.                                                        *)

\* A column's position becomes its index; one that is gone is passed over.
PlaceNext(r) ==
    IF r.order[r.next] \in Columns THEN [position EXCEPT ![r.order[r.next]] = r.next - 1]
    ELSE position

PlaceColumn(k) ==
    /\ requests[k].at = "working" /\ requests[k].next <= Len(requests[k].order)
    /\ position' = PlaceNext(requests[k])
    /\ requests' = [requests EXCEPT ![k].next = @ + 1]
    /\ UNCHANGED <<fresh, unsent, told, tab, faults, excuse, changes>>

\* The full list is read again.
ListColumns(k) ==
    /\ requests[k].at = "working" /\ requests[k].next > Len(requests[k].order)
    /\ requests' = [requests EXCEPT ![k].at = "listed", ![k].seen = OrderOf(position)]
    /\ UNCHANGED <<position, fresh, unsent, told, tab, faults, excuse, changes>>

\* ColumnsReordered, and the answer, which the tab that asked does not use.
\* A column it lists may not have been announced yet.
SayReordered(k) ==
    /\ requests[k].at = "listed"
    /\ told' = Append(told, [kind |-> "reordered", order |-> requests[k].seen])
    /\ End(k)
    /\ excuse' = excuse \cup Because(\E i \in DOMAIN unsent : unsent[i].kind = "created", "crossed")
    /\ UNCHANGED <<position, fresh, unsent, tab, faults, changes>>

\* A statement fails, and the columns before it keep their new positions.
Fail(k) ==
    /\ requests[k].at \in AtServer /\ faults < MaxFaults
    /\ faults' = faults + 1
    /\ IF requests[k].by = "tab" THEN requests' = [requests EXCEPT ![k].at = "failed"] ELSE End(k)
    /\ excuse' = excuse \cup Because(requests[k].by = "other" /\ requests[k].next > 1, "half")
    /\ UNCHANGED <<position, fresh, unsent, told, tab, changes>>

----------------------------------------------------------------------------
(* The tab asks for the order after a failure.                             *)

AskOrder(k) ==
    /\ requests[k].at = "failed"
    /\ requests' = [requests EXCEPT ![k].at = "asked", ![k].seen = OrderOf(position)]
    /\ excuse' = excuse \cup Because(Working # {}, "overlap")
    /\ UNCHANGED <<position, fresh, unsent, told, tab, faults, changes>>

\* Mutant: the tab leaves the drag where it put it.
RestoreNothing(order) == tab' = tab

\* restore_order
Restore(order) == tab' = RankBy(tab, order)

OrderComes(k) ==
    /\ requests[k].at = "asked"
    /\ Restore(requests[k].seen)
    /\ End(k)
    /\ excuse' = excuse \cup Because(\/ \E l \in DOMAIN requests : l > k
                               \/ \E i \in DOMAIN told : told[i].kind = "reordered", "raced")
    /\ UNCHANGED <<position, fresh, unsent, told, faults, changes>>

\* The server cannot be asked either: back to the order before the drag.
OrderFails(k) ==
    /\ requests[k].at = "failed"
    /\ Restore(requests[k].previous)
    /\ End(k)
    /\ excuse' = excuse \cup Because(requests[k].next > 1 \/ Len(requests) > 1, "unasked")
    /\ UNCHANGED <<position, fresh, unsent, told, faults, changes>>

----------------------------------------------------------------------------
(* Columns come, go and change meanwhile.                                  *)

\* The statement of a request: its event is due.
Changes(event) ==
    /\ changes < MaxChanges /\ Within(1) /\ changes' = changes + 1
    /\ unsent' = Append(unsent, event)
    /\ UNCHANGED <<told, tab, requests, faults>>

\* create_column, asked for by another tab (next_position) or by the MCP server.
Create ==
    \E c \in fresh, p \in {Max({position[d] : d \in Columns}) + 1, Far} :
        /\ \A d \in fresh : c <= d
        /\ fresh' = fresh \ {c}
        /\ position' = position @@ (c :> p)
        /\ Changes([kind |-> "created", id |-> c, entry |-> [id |-> c, pos |-> p]])
        /\ UNCHANGED excuse

\* update_column: a new name, or a position, which the MCP server alone asks for.
Update ==
    \E c \in Columns : \E p \in {position[c]} \cup Asked :
        /\ position' = [position EXCEPT ![c] = p]
        /\ Changes([kind |-> "updated", id |-> c, entry |-> [id |-> c, pos |-> p]])
        /\ excuse' = excuse \cup Because(/\ p # position[c]
                                         /\ Working # {} \/ OrderOf(position') # OrderOf(position),
                                         "moved")
        /\ UNCHANGED fresh

Delete ==
    \E c \in Columns :
        /\ position' = [d \in Columns \ {c} |-> position[d]]
        /\ Changes([kind |-> "deleted", id |-> c])
        /\ UNCHANGED <<fresh, excuse>>

\* The audit row is written and the event sent, whether or not an earlier one was.
Say(i) ==
    /\ told' = Append(told, unsent[i])
    /\ unsent' = RemoveAt(unsent, i)
    /\ excuse' = excuse \cup Because(\E j \in 1 .. i - 1 : unsent[j].id = unsent[i].id, "crossed")
    /\ UNCHANGED <<position, fresh, tab, requests, faults, changes>>

\* The audit row fails: the column has changed, and nobody is told.
LeaveUnsaid(i) ==
    /\ faults < MaxFaults /\ faults' = faults + 1
    /\ unsent' = RemoveAt(unsent, i)
    /\ excuse' = excuse \cup {"untold"}
    /\ UNCHANGED <<position, fresh, told, tab, requests, changes>>

----------------------------------------------------------------------------

\* apply_column_event.  A column that is updated stays where it stands.
Follow(list, e) ==
    CASE e.kind = "reordered" -> RankBy(list, e.order)
      [] e.kind = "created" -> InsertSorted(list, e.entry)
      [] e.kind = "updated" ->
            [i \in DOMAIN list |-> IF list[i].id = e.id THEN e.entry ELSE list[i]]
      [] e.kind = "deleted" -> Without(list, e.id)

\* The positions a tab keeps are not those of a reorder: by what it knows one of its columns
\* stands behind the new one and by the server's rows it does not, or the reverse.
Outdated(e) ==
    /\ e.kind = "created"
    /\ \E i \in DOMAIN tab :
          LET c == tab[i].id
          IN  (tab[i].pos > e.entry.pos) # (c \in Columns /\ position[c] > e.entry.pos)

Hear ==
    /\ told # << >>
    /\ tab' = Follow(tab, Head(told))
    /\ told' = Tail(told)
    /\ excuse' = excuse \cup Because(Outdated(Head(told)), "outdated")
    /\ UNCHANGED <<position, fresh, unsent, requests, faults, changes>>

----------------------------------------------------------------------------

Next ==
    \/ Drag \/ OtherDrag \/ Create \/ Update \/ Delete \/ Hear
    \/ \E i \in DOMAIN unsent : Say(i) \/ LeaveUnsaid(i)
    \/ \E k \in DOMAIN requests :
          \/ PlaceColumn(k) \/ ListColumns(k) \/ SayReordered(k) \/ Fail(k)
          \/ AskOrder(k) \/ OrderComes(k) \/ OrderFails(k)

Spec == Init /\ [][Next]_columnVars

----------------------------------------------------------------------------

\* The tab lists a column once, and only columns that there were.
TypeOK ==
    /\ Columns \subseteq Given \cup Created
    /\ IdsOf(tab) \subseteq Given \cup Created
    /\ Len(tab) = Cardinality(IdsOf(tab))
    /\ \A k \in DOMAIN requests :
          requests[k].at \in AtServer \cup {"failed", "asked", "done"}

AtRest ==
    unsent = << >> /\ told = << >> /\ \A k \in DOMAIN requests : requests[k].at = "done"

\* Once nothing is under way the tab shows the columns in the order the server lists them,
\* whatever failed and in whichever order the events of different columns came, unless
\*  - two reorders overlapped (overlap);
\*  - the order the tab asked for came before the news of an earlier reorder or after a
\*    later one was sent (raced);
\*  - another tab's reorder was left half done (half);
\*  - the server could not be asked and had more to say (unasked);
\*  - a column was created beside one whose position the tab knows from before a reorder
\*    (outdated);
\*  - update_column gave a column another place, or another position under a reorder: its
\*    event replaces the column where it stands (moved);
\*  - the two events of one column were sent the other way round, or a reorder that lists a
\*    new column before the column's own event (crossed);
\*  - a column changed and its audit row failed, so that no event was sent (untold).
OrderFollowsServer == AtRest /\ excuse = {} => Ids(tab) = OrderOf(position)

============================================================================
