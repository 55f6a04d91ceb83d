------------------------------ MODULE BoardTab ------------------------------
(***************************************************************************)
(* One browser tab on its boards: what it loads, what the event stream     *)
(* tells it, what its own requests answer, and whether it shows what the   *)
(* server stores (frontend: pages/board_view.rs, components/column.rs,     *)
(* snapshot.rs, columns.rs, links.rs; backend: events.rs).                 *)
(*                                                                         *)
(* The server writes and tells in two steps; the tab subscribes, reads     *)
(* its columns, its links and each column's cards by requests of their     *)
(* own, and holds an event back behind the snapshot it belongs to.         *)
(*                                                                         *)
(* Abstracted: what an item says is the number of the operation that wrote *)
(* it; the order of columns and cards (CardPositions and ColumnOrder have  *)
(* it); the boards themselves, which stay.                                 *)
(***************************************************************************)
EXTENDS Integers, FiniteSets, SequencesExt

CONSTANTS
    Boards, Columns, Cards, Links,
    BoardOf,         \* the board of a column
    Ends,            \* the two cards of a link
    Starts,          \* tables the server may start with, and the board first opened
    Capacity,        \* BROADCAST_CAPACITY
    MaxOps,          \* bound: operations in one behaviour
    MaxVisits,       \* bound: boards opened in one behaviour
    MaxFaults,       \* bound: failed requests and failed streams
    Budget           \* bound: all three together

ASSUME ShapeAssumption ==
    /\ BoardOf \in [Columns -> Boards] /\ Ends \in [Links -> SUBSET Cards]
    /\ {Capacity, MaxVisits} \subseteq Nat \ {0} /\ {MaxOps, MaxFaults, Budget} \subseteq Nat

Items == Columns \cup Cards \cup Links
Gates == {"columns", "links"} \cup Columns
Procs == {"here", "elsewhere"}     \* a request of this tab, a request of anybody
None == "none"

VARIABLES
    ver, home,   \* the tables: an item's contents, 0 for no row; a card's column
    op,          \* op[p]: the request p under way
    route,       \* the board in the address, and the number of its load
    loads,       \* the loads under way, superseded ones too
    lists,       \* what is shown: columns, links, and the cards of each column
    gate,        \* the snapshot gates: open, or the events held
    fetch,       \* the request for a shown column's cards
    ulid,        \* board_ulid
    es,          \* the EventSource
    lost,        \* sse_lost
    up,          \* the stream's state as the connection guard has it
    timers,      \* reconnect timers that are armed
    sub,         \* the server's side of the stream: its queue
    ops, visits, faults,
    \* history variables: they guide no step
    excuse,      \* why the tab may differ from the store
    gone         \* cards the tab was told are gone, with its links loaded

server == <<ver, home, op, ops>>
stream == <<ulid, es, lost, up, timers, sub>>
shown == <<lists, gate, fetch>>
vars == <<server, stream, shown, route, loads, visits, faults, excuse, gone>>

Closed == [open |-> FALSE, held |-> << >>]
Opened == [open |-> TRUE, held |-> << >>]
NoCards == [c \in Cards |-> 0]
Empty == [columns |-> [k \in Columns |-> 0], links |-> [l \in Links |-> 0],
          cards |-> [k \in Columns |-> NoCards]]
NoFetch == [st |-> "none", got |-> NoCards]
NoStream == [st |-> "none", board |-> None, gen |-> 0]
NoSub == [on |-> FALSE, board |-> None, queue |-> << >>]
Idle == [todo |-> << >>, at |-> "idle", visit |-> 0]
Load(b, n) == [board |-> b, visit |-> n, pc |-> "board", got |-> << >>]

Init ==
    /\ \E s \in Starts :
          /\ ver = s.ver /\ home = s.home
          /\ route = [board |-> s.board, visit |-> 1] /\ loads = {Load(s.board, 1)}
    /\ op = [p \in Procs |-> Idle]
    /\ lists = Empty
    /\ gate = [x \in Gates |-> Closed]
    /\ fetch = [k \in Columns |-> NoFetch]
    /\ ulid = None /\ es = NoStream /\ lost = FALSE /\ up = "reset"
    /\ timers = {} /\ sub = NoSub
    /\ ops = 0 /\ visits = 1 /\ faults = 0
    /\ excuse = {} /\ gone = {}

Affordable == ops + faults + visits - 1 < Budget
MayFail == faults < MaxFaults /\ Affordable

Stored(i) == ver[i] # 0
CardsIn(k) == {c \in Cards : Stored(c) /\ home[c] = k}
Touching(cs) == {l \in Links : Ends[l] \cap cs # {}}
BoardOfItem(i) ==
    IF i \in Columns THEN BoardOf[i]
    ELSE IF i \in Cards THEN BoardOf[home[i]]
    ELSE BoardOf[home[CHOOSE c \in Ends[i] : TRUE]]

----------------------------------------------------------------------------
(* The server: a request is a sequence of changes, each written and then   *)
(* told to the subscribers.                                                *)

Change(kind, i, n, from, to) ==
    [kind |-> kind, item |-> i, v |-> n, from |-> from, to |-> to, board |-> BoardOf[to]]

RemoveLinks(cs, k) ==
    [j \in 1 .. Cardinality({l \in Touching(cs) : Stored(l)}) |->
        Change("deleted", SetToSeq({l \in Touching(cs) : Stored(l)})[j], 0, k, k)]

\* A column's cards go one by one, each after its links; nobody is told of the cards.
SweepColumn(k) ==
    LET cards == SetToSeq(CardsIn(k))
    IN  FlattenSeq([j \in DOMAIN cards |->
            RemoveLinks({cards[j]}, k) \o <<Change("swept", cards[j], 0, k, k)>>])

\* The requests a client may make, as the changes they plan; n is the new contents.
Requests(n) ==
    {<<Change("created", k, n, k, k)>> : k \in {x \in Columns : ~Stored(x)}}
    \cup {<<Change("updated", k, n, k, k)>> : k \in {x \in Columns : Stored(x)}}
    \cup {SweepColumn(k) \o <<Change("deleted", k, 0, k, k)>> : k \in {x \in Columns : Stored(x)}}
    \cup {<<Change("created", c, n, k, k)>> :
            c \in {x \in Cards : ~Stored(x)}, k \in {x \in Columns : Stored(x)}}
    \cup {<<Change("updated", c, n, home[c], home[c])>> : c \in {x \in Cards : Stored(x)}}
    \cup {<<Change("moved", c, n, home[c], k)>> :
            c \in {x \in Cards : Stored(x)}, k \in {x \in Columns : Stored(x)}}
    \cup {RemoveLinks({c}, home[c]) \o <<Change("deleted", c, 0, home[c], home[c])>> :
            c \in {x \in Cards : Stored(x)}}
    \cup UNION {{<<Change(IF Stored(l) THEN "updated" ELSE "created", l, n, k, k)>> :
                    k \in {home[c] : c \in Ends[l]}} :
                  l \in {x \in Links : \A c \in Ends[x] : Stored(c)}}
    \cup {RemoveLinks(Ends[l], home[CHOOSE c \in Ends[l] : TRUE]) : l \in {x \in Links : Stored(x)}}

\* A request of this tab is about what it shows, and not made while it is disconnected.
MayAsk(changes) ==
    /\ up # "down" /\ ulid # None
    /\ \A j \in DOMAIN changes : changes[j].board = route.board
    /\ LET c == Last(changes)
       IN  c.kind \in {"created", "moved"} \/ c.item \in Links
           \/ (c.item \in Columns /\ lists.columns[c.item] # 0)
           \/ (c.item \in Cards /\ lists.cards[c.to][c.item] # 0)

Arrives(p) ==
    /\ op[p].at = "idle"
    /\ ops < MaxOps /\ Affordable
    /\ \E changes \in Requests(ops + 1) :
          /\ changes # << >>
          /\ \A j \in DOMAIN changes : changes[j].kind = "moved" =>
                BoardOf[changes[j].from] = BoardOf[changes[j].to]
          /\ p = "here" => MayAsk(changes)
          /\ op' = [op EXCEPT ![p] = [todo |-> changes, at |-> "write",
                                      visit |-> IF p = "here" THEN route.visit ELSE 0]]
    /\ ops' = ops + 1
    /\ UNCHANGED <<ver, home, stream, shown, route, loads, visits, faults, excuse, gone>>

\* The statement finds the rows it needs.
Legal(c) ==
    CASE c.kind = "created" -> /\ ~Stored(c.item)
                               /\ c.item \in Cards => Stored(c.to)
                               /\ c.item \in Links => \A e \in Ends[c.item] : Stored(e)
      [] c.kind \in {"updated", "moved"} -> Stored(c.item) /\ (c.item \in Cards => Stored(c.to))
      [] c.kind = "deleted" /\ c.item \in Cards -> Stored(c.item)
      [] c.kind = "deleted" /\ c.item \in Columns -> CardsIn(c.item) = {}
      [] OTHER -> TRUE

\* What a change is about, and whether another request has changed the same untold.
Span(c) == {c.item} \cup (IF c.item \in Links THEN Ends[c.item] ELSE {})
           \cup (IF c.item \in Cards THEN {c.from, c.to} ELSE {})

Crosses(p, c) ==
    \/ \E q \in Procs \ {p} : /\ op[q].at \in {"say", "answer"}
                              /\ Span(c) \cap Span(Head(op[q].todo)) # {}
    \/ c.item \in Cards /\ c.kind # "created" /\ home[c.item] # c.from

Write(p) ==
    /\ op[p].at = "write"
    /\ LET c == Head(op[p].todo)
           skip == c.kind = "swept" /\ (~Stored(c.item) \/ home[c.item] # c.to)
       IN  IF ~Legal(c)
           THEN \* refused or not found: the request ends there
                /\ op' = [op EXCEPT ![p] = Idle]
                /\ excuse' = IF c.item \in Columns /\ c.kind = "deleted"
                             THEN excuse \cup {"crossed"} ELSE excuse
                /\ UNCHANGED <<ver, home>>
           ELSE /\ ver' = IF skip THEN ver ELSE
                     [i \in Items |->
                        IF i = c.item THEN c.v
                        ELSE IF c.item \in Cards /\ c.v = 0 /\ i \in Touching({c.item})
                             THEN 0 ELSE ver[i]]
                /\ home' = IF c.item \in Cards /\ c.kind \in {"created", "moved"}
                           THEN [home EXCEPT ![c.item] = c.to] ELSE home
                /\ op' = [op EXCEPT ![p].at = IF c.kind = "swept" THEN "write" ELSE "say",
                                    ![p].todo = IF c.kind = "swept" THEN Tail(@) ELSE @]
                /\ excuse' = IF Crosses(p, c) THEN excuse \cup {"crossed"} ELSE excuse
    /\ UNCHANGED <<ops, stream, shown, route, loads, visits, faults, gone>>

\* A snapshot has been read for what is shown, so that what follows must be heard.
SomethingRead ==
    \/ \A load \in loads : load.visit = route.visit =>
          load.pc = "links" \/ (load.pc = "columns" /\ load.got # << >>)
    \/ \E k \in Columns : fetch[k].st \in {"read", "done"}

\* The event goes to the subscriber's queue, which drops its oldest when it is full.
Say(p) ==
    /\ op[p].at = "say"
    /\ LET c == Head(op[p].todo)
           full == Len(sub.queue) = Capacity
           heard == sub.on /\ sub.board = c.board
       IN  /\ sub' = IF heard THEN [sub EXCEPT !.queue = Append(IF full THEN Tail(@) ELSE @, c)]
                     ELSE sub
           /\ excuse' = excuse
                \cup (IF heard /\ full THEN {"lagged"} ELSE {})
                \cup (IF ~sub.on /\ es.st = "connecting" /\ ~lost /\ es.board = c.board
                         /\ SomethingRead
                      THEN {"missed"} ELSE {})
    /\ op' = [op EXCEPT ![p] =
                IF Len(@.todo) > 1 THEN [@ EXCEPT !.todo = Tail(@), !.at = "write"]
                ELSE IF @.visit # 0 THEN [@ EXCEPT !.at = "answer"]
                ELSE Idle]
    /\ UNCHANGED <<ver, home, ops, ulid, es, lost, up, timers, shown, route, loads, visits,
                   faults, gone>>

----------------------------------------------------------------------------
(* Lists: what an event or an answer does to what is shown.                *)

Put(f, i, n) == [f EXCEPT ![i] = n]
PutAbsent(f, i, n) == IF f[i] = 0 THEN Put(f, i, n) ELSE f
PutPresent(f, i, n) == IF f[i] # 0 THEN Put(f, i, n) ELSE f
Prune(links, cs) == [l \in Links |-> IF Ends[l] \cap cs # {} THEN 0 ELSE links[l]]
Listed(l, k) == {c \in Cards : l.cards[k][c] # 0}

\* The column alone goes.
RemoveColumnOnly(l, k) == [l EXCEPT !.columns = Put(@, k, 0)]

\* A column goes, and before it the links of the cards it lists.
RemoveColumn(l, k) ==
    [l EXCEPT !.links = Prune(@, Listed(l, k)), !.columns = Put(@, k, 0)]

\* apply_column_event and apply_link_event; a column event counts on its own board only.
ApplyBoard(l, e) ==
    CASE e.item \in Columns /\ e.kind = "created" /\ e.board = ulid ->
            [l EXCEPT !.columns = PutAbsent(@, e.item, e.v)]
      [] e.item \in Columns /\ e.kind = "updated" /\ e.board = ulid ->
            [l EXCEPT !.columns = PutPresent(@, e.item, e.v)]
      [] e.item \in Columns /\ e.kind = "deleted" -> RemoveColumn(l, e.item)
      [] e.item \in Links /\ e.kind = "created" ->
            [l EXCEPT !.links = PutAbsent(@, e.item, e.v)]
      [] e.item \in Links /\ e.kind = "updated" -> [l EXCEPT !.links = Put(@, e.item, e.v)]
      [] e.item \in Links /\ e.kind = "deleted" -> [l EXCEPT !.links = Put(@, e.item, 0)]
      [] e.item \in Cards /\ e.kind = "deleted" -> [l EXCEPT !.links = Prune(@, {e.item})]
      [] OTHER -> l

\* apply_card_event, of column k: e is of a card.
ApplyCard(k, cards, e) ==
    CASE e.kind = "created" /\ e.to = k -> PutAbsent(cards, e.item, e.v)
      [] e.kind = "updated" /\ e.to = k -> PutPresent(cards, e.item, e.v)
      [] e.kind = "deleted" -> Put(cards, e.item, 0)
      [] e.kind = "moved" /\ e.from = k /\ e.to = k -> PutPresent(cards, e.item, e.v)
      [] e.kind = "moved" /\ e.from = k /\ e.to # k -> Put(cards, e.item, 0)
      [] e.kind = "moved" /\ e.from # k /\ e.to = k -> PutAbsent(cards, e.item, e.v)
      [] OTHER -> cards

GateOf(e) == IF e.item \in Columns THEN "columns" ELSE "links"
IsBoardEvent(e) == e.item \notin Cards \/ e.kind = "deleted"

\* The lists become l, the gates g and the fetches f: a column that appears is mounted, with
\* a closed gate, no cards and its cards asked for; one that goes takes its own along.
ShowLists(l, g, f) ==
    LET stays(k) == l.columns[k] # 0 /\ lists.columns[k] # 0
    IN  /\ lists' = [l EXCEPT !.cards = [k \in Columns |-> IF stays(k) THEN @[k] ELSE NoCards]]
        /\ gate' = [x \in Gates |-> IF x \in Columns /\ ~stays(x) THEN Closed ELSE g[x]]
        /\ fetch' = [k \in Columns |->
                       IF stays(k) THEN f[k]
                       ELSE IF l.columns[k] # 0 THEN [NoFetch EXCEPT !.st = "asked"] ELSE NoFetch]

\* The next event of the stream: through the gate of its list, and to every column.
Receive ==
    /\ es.st = "open" /\ sub.queue # << >>
    /\ LET e == Head(sub.queue)
           now == IsBoardEvent(e) /\ gate[GateOf(e)].open
           here(k) == e.item \in Cards /\ lists.columns[k] # 0
           l == [(IF now THEN ApplyBoard(lists, e) ELSE lists) EXCEPT
                   !.cards = [k \in Columns |-> IF here(k) /\ gate[k].open
                                                THEN ApplyCard(k, @[k], e) ELSE @[k]]]
           g == [x \in Gates |->
                   IF ~gate[x].open
                      /\ ((x \in Columns /\ here(x)) \/ (IsBoardEvent(e) /\ x = GateOf(e)))
                   THEN [gate[x] EXCEPT !.held = Append(@, e)] ELSE gate[x]]
       IN  /\ ShowLists(l, g, fetch)
           /\ sub' = [sub EXCEPT !.queue = Tail(@)]
           /\ gone' = IF ~gate["links"].open THEN gone
                      ELSE IF e.item \in Cards
                      THEN IF e.kind = "deleted" THEN gone \cup {e.item} ELSE gone \ {e.item}
                      ELSE IF e.item \in Columns /\ e.kind = "deleted" /\ now
                      THEN gone \cup Listed(lists, e.item)
                      ELSE gone
    /\ UNCHANGED <<server, ulid, es, lost, up, timers, route, loads, visits, faults, excuse>>

\* What the answer to a request of this tab does, where it was asked for: the columns and the
\* links are the view's, which outlives a change of board; a card's list goes with its column.
ColumnAdded(c) == [lists EXCEPT !.columns = PutAbsent(@, c.item, c.v)]
ColumnRenamed(c) == [lists EXCEPT !.columns = PutPresent(@, c.item, c.v)]
LinkAdded(c) == [lists EXCEPT !.links = PutAbsent(@, c.item, c.v)]
LinkSaved(c) == [lists EXCEPT !.links = Put(@, c.item, c.v)]
CardAdded(c) == IF lists.columns[c.to] = 0 THEN lists
                ELSE [lists EXCEPT !.cards[c.to] = PutAbsent(@, c.item, c.v)]
CardSaved(c) == [lists EXCEPT !.cards[c.to] = PutPresent(@, c.item, c.v)]
CardRemoved(c) == [lists EXCEPT !.cards[c.to] = Put(@, c.item, 0), !.links = Prune(@, {c.item})]

Answer ==
    /\ op["here"].at = "answer"
    /\ LET c == Head(op["here"].todo)
           mine == op["here"].visit = route.visit
           l == CASE c.item \in Columns /\ c.kind = "created" -> ColumnAdded(c)
                  [] c.item \in Columns /\ c.kind = "updated" /\ mine -> ColumnRenamed(c)
                  [] c.item \in Columns /\ c.kind = "deleted" -> RemoveColumn(lists, c.item)
                  [] c.item \in Links /\ c.kind = "created" -> LinkAdded(c)
                  [] c.item \in Links /\ c.kind # "created" -> LinkSaved(c)
                  [] c.item \in Cards /\ c.kind = "created" /\ mine -> CardAdded(c)
                  [] c.item \in Cards /\ c.kind = "updated" /\ mine -> CardSaved(c)
                  [] c.item \in Cards /\ c.kind = "deleted" /\ mine -> CardRemoved(c)
                  [] OTHER -> lists
       IN  /\ ShowLists(l, gate, fetch)
           /\ excuse' = IF mine THEN excuse ELSE excuse \cup {"stray"}
    /\ op' = [op EXCEPT !["here"] = Idle]
    /\ UNCHANGED <<ver, home, ops, stream, route, loads, visits, faults, gone>>

----------------------------------------------------------------------------
(* Loads: the board, then its columns, then its links, by one task; each   *)
(* snapshot lands on its gate's ticket.                                    *)

Current(load) == load.visit = route.visit
Becomes(load, next) == loads' = (loads \ {load}) \cup next

\* A new stream for board b: the effect closes the one it replaces.  Only a board that is
\* not the one last streamed forgets that the stream was lost.
OpenStream(b) ==
    /\ ulid' = b
    /\ es' = [st |-> "connecting", board |-> b, gen |-> es.gen]
    /\ lost' = (lost /\ es.board = b)
    /\ sub' = NoSub

BoardAnswers(load) ==
    /\ load.pc = "board"
    /\ Becomes(load, {[load EXCEPT !.pc = "columns"]})
    /\ IF load.board = route.board THEN OpenStream(load.board)
       ELSE UNCHANGED <<ulid, es, lost, sub>>
    /\ excuse' = IF load.board = ulid THEN excuse \cup {"reopened"} ELSE excuse
    /\ UNCHANGED <<server, shown, route, up, timers, visits, faults, gone>>

Snapshot(load) ==
    IF load.pc = "columns"
    THEN [k \in Columns |-> IF BoardOf[k] = load.board THEN ver[k] ELSE 0]
    ELSE [l \in Links |-> IF Stored(l) /\ BoardOfItem(l) = load.board THEN ver[l] ELSE 0]

\* The server answers with what it has now.
SnapshotRead(load) ==
    /\ load.pc \in {"columns", "links"} /\ load.got = << >>
    /\ Becomes(load, {[load EXCEPT !.got = <<Snapshot(load)>>]})
    /\ UNCHANGED <<server, shown, stream, route, visits, faults, excuse, gone>>

\* Only the latest ticket of a gate opens it.
MayLand(load) == Current(load)

\* The snapshot replaces the list and the events held are applied on top of it, in order; a
\* failed request leaves the list and still applies them.
Land(load, lands) ==
    LET snapshot == IF load.got = << >> THEN lists[load.pc] ELSE load.got[1]
        l == FoldLeft(ApplyBoard, [lists EXCEPT ![load.pc] = snapshot], gate[load.pc].held)
    IN  /\ IF lands THEN ShowLists(l, [gate EXCEPT ![load.pc] = Opened], fetch)
           ELSE UNCHANGED shown
        /\ Becomes(load, IF load.pc = "columns"
                         THEN {[load EXCEPT !.pc = "links", !.got = << >>]} ELSE {})

SnapshotLands(load) ==
    /\ load.pc \in {"columns", "links"} /\ load.got # << >>
    /\ Land(load, MayLand(load))
    /\ UNCHANGED <<server, stream, route, visits, faults, excuse, gone>>

LoadFails(load) ==
    /\ MayFail
    /\ load.got = << >>
    /\ IF load.pc = "board"
       THEN UNCHANGED shown /\ Becomes(load, {[load EXCEPT !.pc = "columns"]})
       ELSE Land(load, MayLand(load))
    /\ faults' = faults + 1
    /\ excuse' = IF Current(load) THEN excuse \cup {"failed"} ELSE excuse
    /\ UNCHANGED <<server, stream, route, visits, gone>>

CardsRead(k) ==
    /\ fetch[k].st = "asked"
    /\ fetch' = [fetch EXCEPT ![k] =
                   [st |-> "read", got |-> [c \in Cards |-> IF c \in CardsIn(k) THEN ver[c] ELSE 0]]]
    /\ UNCHANGED <<server, stream, lists, gate, route, loads, visits, faults, excuse, gone>>

LandSnapshot(k, cards) ==
    /\ lists' = [lists EXCEPT !.cards[k] =
                    FoldLeft(LAMBDA cs, e : ApplyCard(k, cs, e), cards, gate[k].held)]
    /\ gate' = [gate EXCEPT ![k] = Opened]
    /\ fetch' = [fetch EXCEPT ![k] = [NoFetch EXCEPT !.st = "done"]]

CardsLand(k) ==
    /\ fetch[k].st = "read"
    /\ LandSnapshot(k, fetch[k].got)
    /\ UNCHANGED <<server, stream, route, loads, visits, faults, excuse, gone>>

CardsFail(k) ==
    /\ MayFail
    /\ fetch[k].st = "asked"
    /\ LandSnapshot(k, lists.cards[k])
    /\ faults' = faults + 1
    /\ excuse' = excuse \cup {"failed"}
    /\ UNCHANGED <<server, stream, route, loads, visits, gone>>

\* What it held is kept for the next snapshot.
BeginKeeping(g) == [open |-> FALSE, held |-> g.held]

\* A gate whose next fetch begins: closed, and what it held is dropped.
Begin(g) == Closed

\* The connection stays open and delivers.
LeaveStream ==
    ulid' = None /\ es' = [NoStream EXCEPT !.gen = es.gen] /\ sub' = sub /\ up' = "reset"

\* The stream is closed, with what is on its way.
CloseStream ==
    ulid' = None /\ es' = [NoStream EXCEPT !.gen = es.gen] /\ sub' = NoSub /\ up' = "reset"

\* The view stays for the next board: it empties its lists, closes its gates and its stream,
\* and keeps its timers, its stream's generation and the requests under way.
Navigate(b) ==
    /\ visits < MaxVisits /\ Affordable /\ b # route.board
    /\ visits' = visits + 1
    /\ route' = [board |-> b, visit |-> route.visit + 1]
    /\ loads' = loads \cup {Load(b, route.visit + 1)}
    /\ lists' = Empty
    /\ gate' = [x \in Gates |-> IF x \in Columns THEN Closed ELSE Begin(gate[x])]
    /\ fetch' = [k \in Columns |-> NoFetch]
    /\ CloseStream
    /\ excuse' = excuse \cap {"crossed"}
    /\ gone' = {}
    /\ UNCHANGED <<server, lost, timers, faults>>

----------------------------------------------------------------------------
(* The stream, and the connection guard's view of it.                      *)

Subscribe ==
    /\ es.st = "connecting" /\ ~sub.on
    /\ sub' = [on |-> TRUE, board |-> es.board, queue |-> << >>]
    /\ UNCHANGED <<server, shown, route, loads, ulid, es, lost, up, timers, visits, faults,
                   excuse, gone>>

\* A new page on the same address.  A request that is under way is not called off.
Reload ==
    /\ route' = [route EXCEPT !.visit = 1]
    /\ loads' = {Load(route.board, 1)}
    /\ lists' = Empty
    /\ gate' = [x \in Gates |-> Closed]
    /\ fetch' = [k \in Columns |-> NoFetch]
    /\ ulid' = None /\ es' = NoStream /\ lost' = FALSE /\ up' = "reset"
    /\ timers' = {} /\ sub' = NoSub
    /\ op' = [op EXCEPT !["here"] = IF @.at = "answer" THEN Idle ELSE [@ EXCEPT !.visit = 0]]
    /\ excuse' = excuse \cap {"crossed"}
    /\ gone' = {}
    /\ UNCHANGED <<ver, home, ops>>

Resume ==
    /\ up' = "up" /\ es' = [es EXCEPT !.st = "open"]
    /\ UNCHANGED <<server, shown, route, loads, ulid, lost, timers, sub, excuse, gone>>

\* onopen: a stream that comes back after it was lost reloads the page.
Opens ==
    /\ es.st = "connecting" /\ sub.on
    /\ IF lost THEN Reload ELSE Resume
    /\ UNCHANGED <<visits, faults>>

\* The connection breaks, and the tab has yet to notice.
Drop ==
    /\ sub.on /\ MayFail
    /\ sub' = NoSub /\ es' = [es EXCEPT !.st = "broken"]
    /\ faults' = faults + 1
    /\ UNCHANGED <<server, shown, route, loads, ulid, lost, up, timers, visits, excuse, gone>>

\* Armed for the stream it will open, which no comparison meets.
ArmNext(b) == timers' = timers \cup {[board |-> b, gen |-> es.gen + 1]}

Arm(b) == timers' = timers \cup {[board |-> b, gen |-> es.gen]}

\* onerror: the browser retries a broken connection, and gives up on a refusal.
StreamError ==
    /\ \/ es.st = "broken" /\ faults' = faults
       \/ es.st = "connecting" /\ ~sub.on /\ MayFail /\ faults' = faults + 1
    /\ up' = "down" /\ lost' = TRUE
    /\ \/ es' = [es EXCEPT !.st = "connecting"] /\ timers' = timers
       \/ es' = [es EXCEPT !.st = "closed"] /\ Arm(es.board)
    /\ UNCHANGED <<server, shown, route, loads, ulid, sub, visits, excuse, gone>>

\* The timer reopens the stream if board and generation are those it was armed for.
TimerFires(t) ==
    /\ t \in timers
    /\ timers' = timers \ {t}
    /\ IF t.board = ulid /\ t.gen = es.gen
       THEN /\ es' = [st |-> "connecting", board |-> ulid, gen |-> es.gen + 1]
            /\ sub' = NoSub
            /\ excuse' = IF es.st = "closed" THEN excuse ELSE excuse \cup {"reopened"}
       ELSE UNCHANGED <<es, sub, excuse>>
    /\ UNCHANGED <<server, shown, route, loads, ulid, lost, up, visits, faults, gone>>

----------------------------------------------------------------------------

LoadSteps == \E load \in loads : BoardAnswers(load) \/ SnapshotRead(load) \/ SnapshotLands(load)
CardSteps == \E k \in Columns : CardsRead(k) \/ CardsLand(k)
Fires == \E t \in timers : TimerFires(t)

StreamSteps == Subscribe \/ Opens \/ StreamError \/ Fires

Next ==
    \/ \E p \in Procs : Arrives(p) \/ Write(p) \/ Say(p)
    \/ Receive \/ Answer
    \/ LoadSteps \/ CardSteps
    \/ \E load \in loads : LoadFails(load)
    \/ \E k \in Columns : CardsFail(k)
    \/ \E b \in Boards : Navigate(b)
    \/ Drop \/ StreamSteps

Spec == Init /\ [][Next]_vars

\* The browser retries, reports what it sees and fires its timers; the server lets it in
\* again (MaxFaults bounds how often it does not).
LiveSpec == Spec /\ WF_vars(StreamSteps)

----------------------------------------------------------------------------

Lists(l) ==
    /\ l.columns \in [Columns -> 0 .. MaxOps + 1] /\ l.links \in [Links -> 0 .. MaxOps + 1]
    /\ l.cards \in [Columns -> [Cards -> 0 .. MaxOps + 1]]

\* A stream is of the board the tab knows, a subscriber holds no more than the channel
\* keeps, an open gate holds nothing back, and a load is of a visit there was.
TypeOK ==
    /\ ver \in [Items -> 0 .. MaxOps + 1] /\ home \in [Cards -> Columns]
    /\ \A p \in Procs : op[p].at \in {"idle", "write", "say", "answer"}
    /\ route.board \in Boards /\ route.visit \in 1 .. MaxVisits
    /\ \A load \in loads : load.visit <= route.visit
    /\ Lists(lists)
    /\ \A x \in Gates : gate[x].open => gate[x].held = << >>
    /\ \A k \in Columns : fetch[k].st \in {"none", "asked", "read", "done"}
    /\ ulid \in Boards \cup {None} /\ es.board = ulid
    /\ es.st \in {"none", "connecting", "open", "broken", "closed"} /\ (es.st = "none" <=> ulid = None)
    /\ sub.on => sub.board = ulid /\ Len(sub.queue) <= Capacity
    /\ up \in {"reset", "up", "down"} /\ lost \in BOOLEAN
    /\ excuse \subseteq {"crossed", "lagged", "missed", "failed", "stray", "reopened"}
    /\ gone \subseteq Cards

\* The tab waits for nothing and reports itself connected.
AtRest ==
    /\ ulid = route.board /\ es.st = "open" /\ sub.on /\ sub.queue = << >> /\ up = "up"
    /\ \A load \in loads : ~Current(load)
    /\ \A k \in Columns : lists.columns[k] # 0 => fetch[k].st = "done"
    /\ \A p \in Procs : op[p].at = "idle"

Expected(i) == IF Stored(i) /\ BoardOfItem(i) = route.board THEN ver[i] ELSE 0

\* A tab at rest shows exactly what the server stores for its board, whatever overtook what
\* on the way there, unless it was told of two changes of the same thing the wrong way
\* round, an event was dropped or came before it subscribed, a request failed, an answer
\* came for the board it had left, or a late timer or load replaced a stream that was well.
ShownIsStored ==
    AtRest /\ excuse = {} =>
        /\ \A k \in Columns : lists.columns[k] = Expected(k)
        /\ \A l \in Links : lists.links[l] = Expected(l)
        /\ \A k \in Columns, c \in Cards :
              lists.cards[k][c] = IF Stored(c) /\ home[c] = k THEN Expected(c) ELSE 0

\* Once a tab with its links loaded has been told that a card is gone, by its own event or
\* with its column, it shows no link to it, even if the events about the links were dropped.
NoLinkOutlivesItsCard ==
    excuse \cap {"crossed", "stray"} = {} =>
        \A l \in Links : lists.links[l] # 0 => Ends[l] \cap gone = {}

\* A tab that reports itself disconnected reports so no longer, once the server answers.
Recovers == up = "down" ~> up # "down"

\* A reconnect timer only reopens the stream it was armed for, never one that works.
TimerSparesLiveStream ==
    [][Fires /\ es.st \in {"open", "broken"} => es' = es]_vars
============================================================================
