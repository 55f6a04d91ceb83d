---------------------------- MODULE HistoryView ----------------------------
(***************************************************************************)
(* The history drawer of one tab (frontend: components/history_panel.rs):  *)
(* the rows of a board, a column or a card, loaded when the drawer opens,  *)
(* kept up by the events, each with a summary (shared: history/summary.rs) *)
(* and, for a version of a card, the means to bring it back.               *)
(*                                                                         *)
(* Abstracted: an entity's fields are bits, a card's body its first line   *)
(* and the rest, its tags which they are and how they are spelt and sorted;*)
(* a summary is its verb and the things its second line names; times and   *)
(* actors; the stream's losses (BoardTab); the row a restored card rests   *)
(* on (BoardStore); the preview of a version, the switch for moves.        *)
(* An entity changes as its row is written (CardHistory has the two        *)
(* apart); the row's event is sent later, and those of two requests may be *)
(* sent the other way round.                                               *)
(***************************************************************************)
EXTENDS Integers, FiniteSets, SequencesExt

CONSTANTS
    Kind,            \* Kind[e]: "board", "column", "card" or "card_link"
    Ends,            \* Ends[l]: the cards of a link
    Scopes,          \* what the drawer is opened on: entities
    Edits,           \* the sets of fields one change may change
    First,           \* the log's first row: an entity, and "create" or, found at startup, "baseline"
    MaxRows,         \* bound: rows written
    MaxLoads,        \* bound: requests for the rows
    MaxFaults        \* bound: requests that fail

Entities == DOMAIN Kind
Fields(e) ==
    CASE Kind[e] = "board" -> {"name"}
      [] Kind[e] = "column" -> {"name", "position"}
      [] Kind[e] = "card" -> {"name", "rest", "tags", "spelling", "column", "position"}
      [] OTHER -> {"reason"}

Closed == "closed"
Gone == [gone |-> TRUE]

VARIABLES
    current,         \* current[e]: the fields that are set, or Gone
    log,             \* audit_log: a set of rows
    unsent,          \* rows written, whose events are not sent yet
    news,            \* AuditAppended events on their way
    scope,           \* HistoryDrawer: the entity it is opened on, or Closed
    entries,         \* the rows the drawer holds
    loading, restoring,
    loads,           \* requests for the rows
    made, faults,
    \* history variables: they guide no step
    crossed,         \* two events of one entity have been sent the other way round, and
                     \* not all that was on its way has been heard
    excuse           \* the rows held are not those of the last load, lost an event to it, or
                     \* have been crossed

\* What the constants are to be.
ConstantsOK ==
    /\ Kind \in [Entities -> {"board", "column", "card", "card_link"}]
    /\ Scopes \subseteq Entities /\ Closed \notin Entities
    /\ First \subseteq Entities \X {"create", "baseline"}

historyVars == <<current, log, unsent, news, scope, entries, loading, restoring,
                 loads, made, faults, crossed, excuse>>

server == <<current, log, unsent, news, crossed>>
drawer == <<scope, entries, loading, restoring, excuse>>
Counted == {"row", "load"}
Count(what) == made' = [made EXCEPT ![what] = @ + 1]

----------------------------------------------------------------------------
(* Rows.                                                                   *)

\* snapshot_column_id: a card's column is the one its bit names.
ColumnOf(e, snap) == IF "column" \in snap.set THEN "k2" ELSE "k1"
Snap(set) == [gone |-> FALSE, set |-> set]

InColumn(r, k) ==
    /\ Kind[r.entity] = "card"
    /\ \E s \in {r.before, r.after} : ~s.gone /\ ColumnOf(r.entity, s) = k

\* list_board_history, matches_history_column_scope and matches_history_card_scope.
Matches(r, s) ==
    CASE Kind[s] = "board" -> TRUE
      [] Kind[s] = "column" -> r.entity = s \/ InColumn(r, s)
      [] OTHER -> \/ r.entity = s
                  \/ Kind[r.entity] = "card_link" /\ s \in Ends[r.entity]

\* ORDER BY created_at DESC: a row stands behind those that are newer.
Newer(rows, r) == {x \in rows : x.at > r.at}
Listed(s) ==
    LET rows == {r \in log : Matches(r, s)}
    IN  [i \in 1 .. Cardinality(rows) |-> CHOOSE r \in rows : Cardinality(Newer(rows, r)) = i - 1]

\* card_content_version: the rows a card's content can be restored from.
IsVersion(r) ==
    /\ Kind[r.entity] = "card"
    /\ r.action \in {"create", "baseline", "update", "restore"}
    /\ ~r.after.gone

Content(snap) == snap.set \cap {"name", "rest", "tags", "spelling"}
Layout(snap) == snap.set \cap {"column", "position"}

NewestVersion(rows) == SelectInSeq(rows, IsVersion)

----------------------------------------------------------------------------
(* The summary of a row.                                                   *)

Summary(verb, named) == [verb |-> verb, named |-> named]
Which(fact, name) == IF fact THEN {name} ELSE {}

Changed(r) ==
    IF r.before.gone \/ r.after.gone THEN {}
    ELSE (r.before.set \ r.after.set) \cup (r.after.set \ r.before.set)

\* A move before a rename before an edit; the tags are told in every case, compared without
\* case or order, and a card's position in none.
CardUpdate(r) ==
    LET changed == Changed(r)
        tags == Which("tags" \in changed, "tags")
    IN  IF "column" \in changed THEN Summary("Moved", {"number"} \cup tags)
        ELSE IF "name" \in changed THEN Summary("Renamed", {"was", "number"} \cup tags)
        ELSE IF "rest" \in changed THEN Summary("Edited", {"number", "body"} \cup tags)
        ELSE IF "tags" \in changed
        THEN Summary(IF "tags" \in r.after.set THEN "Tagged" ELSE "Untagged", {"number", "tags"})
        ELSE Summary("Updated", {"number"})

ColumnUpdate(r) ==
    IF "name" \in Changed(r) THEN Summary("Renamed", {"was"})
    ELSE IF "position" \in Changed(r) THEN Summary("Reordered", {})
    ELSE Summary("Updated", {})

BoardUpdate(r) ==
    IF "name" \in Changed(r) THEN Summary("Renamed", {"was"}) ELSE Summary("Updated", {})

\* A link's row has at most its reasons to tell.
LinkUpdate(r) ==
    Summary(IF "reason" \in r.after.set THEN "Changed" ELSE "Cleared",
            Which("reason" \in r.after.set, "now") \cup Which("reason" \in r.before.set, "was"))

LinkPresent(snap, verb) == Summary(verb, Which("reason" \in snap.set, "reason"))

\* A row that was created, restored, found at startup or deleted.
Present(r, verb) == Summary(verb, Which(Kind[r.entity] = "card", "number"))

LinkSummary(r) ==
    CASE r.action = "create" -> LinkPresent(r.after, "Linked")
      [] r.action = "delete" -> LinkPresent(r.before, "Unlinked")
      [] r.action = "update" -> LinkUpdate(r)

UpdateSummary(r) ==
    CASE Kind[r.entity] = "card" -> CardUpdate(r)
      [] Kind[r.entity] = "column" -> ColumnUpdate(r)
      [] Kind[r.entity] = "board" -> BoardUpdate(r)

DeriveSummary(r) ==
    IF Kind[r.entity] = "card_link" THEN LinkSummary(r)
    ELSE CASE r.action = "create" -> Present(r, "Created")
           [] r.action = "restore" -> Present(r, "Restored")
           [] r.action = "baseline" -> Present(r, "")
           [] r.action = "delete" -> Present(r, "Deleted")
           [] r.action = "move" -> Present(r, "Moved")
           [] r.action = "update" -> UpdateSummary(r)

----------------------------------------------------------------------------
(* The server.                                                             *)

Init ==
    /\ current = [e \in Entities |-> Snap({})]
    /\ \E first \in First :
          log = {[id |-> 1, at |-> 1, entity |-> first[1], before |-> Gone, after |-> Snap({}),
                  action |-> first[2]]}
    /\ unsent = << >> /\ news = << >> /\ scope = Closed /\ entries = << >>
    /\ loading = FALSE /\ restoring = 0
    /\ loads = {} /\ made = [x \in Counted |-> 0] /\ faults = 0
    /\ crossed = FALSE /\ excuse = FALSE

\* A row is written, and read by the loads that have not read yet.
Write(e, action, after) ==
    LET r == [id |-> made.row + 2, at |-> made.row + 2, entity |-> e, action |-> action,
              before |-> current[e], after |-> after]
    IN  /\ made.row < MaxRows /\ Count("row")
        /\ log' = log \cup {r}
        /\ unsent' = Append(unsent, r)
        /\ current' = [current EXCEPT ![e] = after]

\* What a request's handler calls it: a request that gives a column's position is a move, one
\* that gives a card's body or changes its tags is none.
Actions(e, flips) ==
    CASE Kind[e] = "column" -> IF "position" \in flips THEN {"move"} ELSE {"update", "move"}
      [] Kind[e] = "card" -> {"update"} \cup (IF flips \subseteq {"column", "position"} THEN {"move"}
                                             ELSE {})
      [] OTHER -> {"update"}

\* The reason a link has already writes no row.
Change(e) ==
    /\ ~current[e].gone /\ made.row < MaxRows
    /\ \E flips \in Edits :
          /\ flips \subseteq Fields(e)
          /\ Kind[e] = "card_link" => flips # {}
          /\ LET set == current[e].set
             IN  \E action \in Actions(e, flips) :
                    Write(e, action, Snap((set \ flips) \cup (flips \ set)))

\* try_merge_card_update_audit: the card's newest row, if it is an update that left the tags
\* alone, takes the edit in and the edit's time.
Merge(e) ==
    /\ Kind[e] = "card" /\ ~current[e].gone
    /\ made.row < MaxRows /\ Count("row")
    /\ \E last \in log :
          /\ last.entity = e /\ \A x \in log : x.entity = e => x.at <= last.at
          /\ last.action = "update" /\ Changed(last) \cap {"tags", "spelling"} = {}
          /\ LET set == current[e].set
                 after == Snap(IF "rest" \in set THEN set \ {"rest"} ELSE set \cup {"rest"})
                 r == [last EXCEPT !.after = after, !.at = made.row + 2]
             IN  /\ log' = (log \ {last}) \cup {r}
                 /\ unsent' = Append(unsent, r)
                 /\ current' = [current EXCEPT ![e] = after]

Delete(e) ==
    /\ Kind[e] \in {"card", "card_link"} /\ ~current[e].gone
    /\ Write(e, "delete", Gone)

WriteStep ==
    /\ \E e \in Entities : Change(e) \/ Merge(e) \/ Delete(e)
    /\ UNCHANGED <<news, crossed, drawer, loads, faults>>

\* The event of a row is sent, whether or not that of an earlier row was.
Overtakes(i) == \E j \in 1 .. i - 1 : unsent[j].entity = unsent[i].entity

Say(i) ==
    /\ news' = Append(news, unsent[i])
    /\ unsent' = RemoveAt(unsent, i)
    /\ crossed' = (crossed \/ Overtakes(i))
    /\ excuse' = (excuse \/ Overtakes(i))
    /\ loads' = {[l EXCEPT !.missed = @ \/ Overtakes(i)] : l \in loads}
    /\ UNCHANGED <<current, log, scope, entries, loading, restoring, made, faults>>

ServerStep == WriteStep \/ \E i \in DOMAIN unsent : Say(i)

----------------------------------------------------------------------------
(* The drawer.                                                             *)

\* reload: nothing without a drawer; nothing takes an earlier request back.
Reload(s) ==
    IF s = Closed THEN UNCHANGED <<loads, loading, made>>
    ELSE /\ made.load < MaxLoads /\ Count("load")
         /\ loads' = loads \cup {[id |-> made.load + 1, scope |-> s, read |-> FALSE, rows |-> << >>,
                                  missed |-> FALSE]}
         /\ loading' = TRUE

\* The effect on the drawer and the board.
Open(s) ==
    /\ s # scope
    /\ scope' = s
    /\ Reload(s)
    /\ UNCHANGED <<server, entries, restoring, faults, excuse>>

Close ==
    /\ scope # Closed
    /\ scope' = Closed
    /\ UNCHANGED <<server, entries, loading, restoring, loads, made, faults, excuse>>

\* The server reads the rows.  A card that is gone has no history to read: 404.  What events
\* sent the other way round will do to the rows read is not known.
Read(l) ==
    /\ ~l.read
    /\ ~(Kind[l.scope] = "card" /\ current[l.scope].gone)
    /\ loads' = (loads \ {l}) \cup {[l EXCEPT !.read = TRUE, !.rows = Listed(l.scope),
                                                   !.missed = crossed]}
    /\ UNCHANGED <<server, drawer, made, faults>>

\* The answer takes the place of the rows, whatever the drawer is opened on by now.
Loaded(l) ==
    /\ l.read
    /\ loads' = loads \ {l} /\ loading' = FALSE
    /\ entries' = l.rows
    /\ excuse' = (l.scope # scope \/ l.id < made.load \/ l.missed)
    /\ UNCHANGED <<server, scope, restoring, made, faults>>

\* The rows of before stay.
LoadFails(l) ==
    /\ \/ Kind[l.scope] = "card" /\ current[l.scope].gone /\ ~l.read /\ UNCHANGED faults
       \/ faults < MaxFaults /\ faults' = faults + 1
    /\ loads' = loads \ {l} /\ loading' = FALSE
    /\ excuse' = TRUE
    /\ UNCHANGED <<server, scope, entries, restoring, made>>

\* Mutant: a row the drawer has is not looked for.
TakeAlways(rows, r) == <<r>> \o rows

\* A row the drawer has is replaced where it is, another one comes first.
Take(rows, r) ==
    LET i == SelectInSeq(rows, LAMBDA x : x.id = r.id)
    IN  IF i # 0 THEN ReplaceAt(rows, i, r) ELSE <<r>> \o rows

\* A load that has read misses a row of its scope that is newer than what it read.
Misses(l, r) == l.read /\ Matches(r, l.scope) /\ \A x \in Range(l.rows) : x.at < r.at

\* AuditAppended.
Hear ==
    /\ news # << >>
    /\ LET r == Head(news)
       IN  /\ news' = Tail(news)
           /\ IF scope # Closed /\ Matches(r, scope) THEN entries' = Take(entries, r)
              ELSE UNCHANGED entries
           /\ loads' = {[l EXCEPT !.missed = @ \/ Misses(l, r)] : l \in loads}
           /\ crossed' = (crossed /\ ~(Tail(news) = << >> /\ unsent = << >>))
    /\ UNCHANGED <<current, log, unsent, scope, loading, restoring, made, faults, excuse>>

CurrentVersion ==
    LET i == NewestVersion(entries) IN IF i = 0 THEN << >> ELSE <<Content(entries[i].after)>>

\* A version that is not the current one is restored from the row as the server has it:
\* restore_card_content.  The drawer loads again.
RestoreVersion(r) ==
    /\ scope # Closed /\ Kind[scope] = "card" /\ IsVersion(r) /\ ~loading
    /\ <<Content(r.after)>> # CurrentVersion /\ restoring # r.id
    /\ ~current[r.entity].gone
    /\ \E row \in log :
          /\ row.id = r.id
          /\ Write(r.entity, "restore",
                   Snap(Content(row.after) \cup Layout(current[r.entity])))
    /\ restoring' = r.id
    /\ UNCHANGED <<news, crossed, scope, entries, loading, loads, faults, excuse>>

\* A deleted card comes back; a link does not.
RestoreDeleted(r) ==
    /\ scope # Closed /\ ~loading
    /\ r.action = "delete" /\ Kind[r.entity] # "card_link" /\ current[r.entity].gone
    /\ Write(r.entity, "restore", r.before)
    /\ restoring' = -1
    /\ UNCHANGED <<news, crossed, scope, entries, loading, loads, faults, excuse>>

\* The answer comes once the event is sent; of two restores under way, that of the last counts.
RestoreAnswered ==
    /\ restoring # 0
    /\ \A i \in DOMAIN unsent : unsent[i].action # "restore"
    /\ restoring' = 0
    /\ Reload(scope)
    /\ UNCHANGED <<server, scope, entries, faults, excuse>>

DrawerStep ==
    \/ \E s \in Scopes : Open(s)
    \/ Close \/ Hear \/ RestoreAnswered
    \/ \E l \in loads : Read(l) \/ Loaded(l) \/ LoadFails(l)
    \/ \E r \in Range(entries) : RestoreVersion(r) \/ RestoreDeleted(r)

Next == ServerStep \/ DrawerStep

Spec == Init /\ [][Next]_historyVars

----------------------------------------------------------------------------

\* No two rows are of one time or one number, and what is loaded was asked for.
TypeOK ==
    /\ \A r, x \in log : r.at = x.at \/ r.id = x.id => r = x
    /\ scope \in Scopes \cup {Closed}
    /\ \A l \in loads : l.scope \in Scopes /\ l.id <= made.load

\* Every row of the drawer's scope is in the drawer, once and as it is stored, and the newest
\* version there is the newest of the card; when all events have been sent and heard, no load is
\* under way, and the last one answered was the last one asked, missed no event, and was not
\* read before two events of one entity, sent the other way round, were heard.
DrawerShowsHistory ==
    scope # Closed /\ unsent = << >> /\ news = << >> /\ loads = {} /\ restoring = 0 /\ ~excuse =>
        /\ Range(entries) = Range(Listed(scope))
        /\ Len(entries) = Len(Listed(scope))
        /\ Kind[scope] = "card" /\ NewestVersion(entries) # 0 =>
              entries[NewestVersion(entries)] = Listed(scope)[NewestVersion(Listed(scope))]

\* What the server records and no summary tells: how a card's tags are spelt and sorted, and
\* where in its column it stands.
Untold(e) == IF Kind[e] = "card" THEN {"spelling", "position"} ELSE {}

\* "No change a single row recorded is invisible in the drawer", but for those: a row that
\* changed anything else says what kind of change it was, one that did not says "Updated", and
\* a change of the tags is told beside any other change.
ChangesShown ==
    \A r \in Range(entries) : r.action = "update" =>
        LET s == DeriveSummary(r)
        IN  /\ Changed(r) \subseteq Untold(r.entity) <=> s.verb = "Updated"
            /\ "tags" \in Changed(r) <=> "tags" \in s.named

=============================================================================
