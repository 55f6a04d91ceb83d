----------------------------- MODULE LinkPicker -----------------------------
(***************************************************************************)
(* The links of one open card in one tab (frontend:                        *)
(* components/link_editor.rs, recent.rs): the picker that offers other     *)
(* cards, most recently picked first, and never one the server would       *)
(* refuse; the chips that change a link's reason or remove it.  Another    *)
(* client changes the same links, and the tab hears of it later.           *)
(*                                                                         *)
(* A link is its two cards and a number, so that one made again is another *)
(* link.  Abstracted: a text is the set of cards it narrows the list to;   *)
(* the card's own deletion; the tags' half of the picks; the line an error *)
(* is shown in.                                                            *)
(***************************************************************************)
EXTENDS LinkReach, Integers, SequencesExt

CONSTANTS
    Me,              \* the open card
    Recency,         \* Recency[c]: when card c last changed
    Texts,           \* what may be typed, as the sets of cards it narrows to
    GivenLinks,      \* the pairs of cards that may be linked at first
    Reasons,         \* reasons but the empty one, 0
    MaxSuggestions, MaxRemembered,
    Contested,       \* the pairs of cards another client links and unlinks
    MaxRequests, MaxEdits, MaxOthers, MaxFaults   \* bounds: requests, reasons edited, others'
                     \* changes, lost answers

Others == Cards \ {Me}
Sides == {"before", "after"}
Pairs == {e \in Cards \X Cards : e[1] # e[2]}
None == "none"
Link(e, n) == <<e[1], e[2], n>>

\* Cards are known by their numbers; links join two.
ConstantsOK ==
    /\ Cards \subseteq Int /\ IsFiniteSet(Cards) /\ Me \in Cards
    /\ Recency \in [Cards -> Int]
    /\ GivenLinks \subseteq SUBSET Pairs /\ Contested \subseteq Pairs
    /\ MaxSuggestions \in Nat /\ MaxRemembered \in Nat
NoBox == [link |-> <<Me, Me, 0>>, draft |-> 0, open |-> FALSE]

VARIABLES
    server, tab,             \* the links and their reasons, stored and as the tab has them
    heard,                   \* events on their way to the tab
    recent,                  \* picks, the last one first
    focus, typed, active,    \* the picker: its side, its text, the highlighted row or 0
    box,                     \* the reason being edited, or NoBox
    removing,                \* chips whose removal is under way
    requests,                \* requests that have not been answered
    made, others, faults, edits,
    pickedAt                 \* history: pickedAt[c]: when card c was last picked, or 0

pickerVars == <<server, tab, heard, recent, focus, typed, active, box, removing, requests,
                made, others, faults, edits, pickedAt>>

world == <<server, heard, others, faults>>
picker == <<focus, typed, active, recent, pickedAt>>
chips == <<box, removing, edits>>

Init ==
    /\ \E E \in GivenLinks : server = [e \in {Link(p, 0) : p \in E} |-> 0]
    /\ tab = server /\ heard = << >>
    /\ recent = << >> /\ pickedAt = [c \in Cards |-> 0]
    /\ focus = None /\ typed = Others /\ active = 0
    /\ box = NoBox /\ removing = {}
    /\ requests = {} /\ made = 0 /\ others = 0 /\ faults = 0 /\ edits = 0

\* The link a pick makes.
LinkTo(c, side) == IF side = "before" THEN <<c, Me>> ELSE <<Me, c>>

Linked(links, a, b) == \E e \in links : {e[1], e[2]} = {a, b}
ClosesLoop(links, e) == Reaches(links, e[2], e[1])
WouldRefuse(links, e) == Linked(links, e[1], e[2]) \/ ClosesLoop(links, e)

Without(f, e) == [x \in DOMAIN f \ {e} |-> f[x]]
With(f, e, r) == [x \in DOMAIN f \cup {e} |-> IF x = e THEN r ELSE f[x]]

Excused(rs) == {[r EXCEPT !.excused = TRUE] : r \in rs}

\* Two picks may refuse each other; a link's removal refuses its reason, and once more
\* its removal by a chip that was drawn anew.
Rivals(kind, e) ==
    {r \in requests : \/ kind = "pick" /\ r.kind = "pick"
                      \/ {kind, r.kind} = {"unlink", "reason"} /\ r.link = e
                      \/ {kind, r.kind} = {"unlink"} /\ r.link = e /\ r.excused}

\* The chip of a link whose reason is on its way may be drawn anew.
Redraws(kind, e) ==
    kind = "unlink" /\ \E i \in DOMAIN heard : heard[i].kind = "reason" /\ heard[i].link = e

\* A request begins.  It may be refused if the tab does not know the links as they are.
Ask(kind, e, value) ==
    /\ made < MaxRequests
    /\ made' = made + 1
    /\ LET rivals == Rivals(kind, e)
       IN  requests' = (requests \ rivals) \cup Excused(rivals) \cup
             {[id |-> made', kind |-> kind, link |-> e, value |-> value, edit |-> edits,
               excused |-> DOMAIN server # DOMAIN tab \/ rivals # {} \/ Redraws(kind, e),
               answer |-> "waits"]}

----------------------------------------------------------------------------
(* The picker.                                                             *)

PlaceIn(list, c) == CHOOSE i \in DOMAIN list : list[i] = c
RankOf(c) == IF Contains(recent, c) THEN PlaceIn(recent, c) ELSE MaxRemembered + 1

Leads(c, d) ==
    \/ RankOf(c) < RankOf(d)
    \/ RankOf(c) = RankOf(d) /\ Recency[c] > Recency[d]
    \/ RankOf(c) = RankOf(d) /\ Recency[c] = Recency[d] /\ c < d

\* Mutant: a link in the direction asked for is the only one that counts.
CandidatesOneWay(side) ==
    {c \in typed \cap Others :
        \A e \in DOMAIN tab : <<e[1], e[2]>> # LinkTo(c, side)}

Candidates(side) ==
    {c \in typed \cap Others :
        /\ ~Linked(DOMAIN tab, Me, c)
        /\ ~ClosesLoop(DOMAIN tab, LinkTo(c, side))}

\* order_candidates: each in its place, and those behind the last row cut off.
Lesser(m, n) == IF m < n THEN m ELSE n
PlaceAmong(S, c) == Cardinality({d \in S : Leads(d, c)}) + 1
Offered(side) ==
    LET S == Candidates(side)
    IN  [i \in 1 .. Lesser(Cardinality(S), MaxSuggestions) |-> CHOOSE c \in S : PlaceAmong(S, c) = i]

Focus(side) ==
    /\ focus = None
    /\ focus' = side
    /\ UNCHANGED <<world, tab, typed, active, recent, pickedAt, chips, requests, made>>

\* Half-typed text is dropped.
Blur ==
    /\ focus # None
    /\ focus' = None /\ typed' = Others /\ active' = 0
    /\ UNCHANGED <<world, tab, recent, pickedAt, chips, requests, made>>

Type(text) ==
    /\ focus # None
    /\ typed' = text /\ active' = 0
    /\ UNCHANGED <<world, tab, focus, recent, pickedAt, chips, requests, made>>

\* Text is cleared first; without any, the box is left.
Escape ==
    /\ focus # None
    /\ focus' = IF typed = Others THEN None ELSE focus
    /\ typed' = Others /\ active' = 0
    /\ UNCHANGED <<world, tab, recent, pickedAt, chips, requests, made>>

\* The highlight goes round; a list that has got shorter may leave it behind the end.
Arrow(down) ==
    LET n == Len(Offered(focus))
    IN  /\ focus # None /\ n > 0
        /\ active' = IF down THEN IF active = 0 THEN 1 ELSE (active % n) + 1
                     ELSE IF active <= 1 THEN n ELSE active - 1
        /\ UNCHANGED <<world, tab, focus, typed, recent, pickedAt, chips, requests, made>>

\* Mutant: the earlier pick of the card stays in the list.
PushAgain(list, c) ==
    LET kept == <<c>> \o list
    IN  SubSeq(kept, 1, Lesser(Len(kept), MaxRemembered))

\* The list has no card twice: retain leaves out what is at the card's one place.
PushFront(list, c) ==
    LET kept == <<c>> \o IF Contains(list, c) THEN RemoveAt(list, PlaceIn(list, c)) ELSE list
    IN  SubSeq(kept, 1, Lesser(Len(kept), MaxRemembered))

\* The pick is remembered whatever the server will say of it.
Commit(c) ==
    /\ typed' = Others /\ active' = 0
    /\ recent' = PushFront(recent, c)
    /\ pickedAt' = [pickedAt EXCEPT ![c] = made + 1]
    /\ Ask("pick", Link(LinkTo(c, focus), made + 1), 0)
    /\ UNCHANGED <<world, tab, focus, chips>>

\* Enter takes the highlighted row, or the only one.
Enter ==
    LET list == Offered(focus)
    IN  /\ focus # None
        /\ \/ active \in DOMAIN list /\ Commit(list[active])
           \/ active = 0 /\ Len(list) = 1 /\ Commit(list[1])

ClickRow == focus # None /\ \E i \in DOMAIN Offered(focus) : Commit(Offered(focus)[i])

PickerStep ==
    \/ \E side \in Sides : Focus(side)
    \/ Blur
    \/ \E text \in Texts : Type(text)
    \/ Escape
    \/ \E down \in BOOLEAN : Arrow(down)
    \/ Enter
    \/ ClickRow

----------------------------------------------------------------------------
(* The chips of the card's links.                                          *)

Chips == {e \in DOMAIN tab : Me \in {e[1], e[2]}}

EditReason(e) ==
    /\ box = NoBox
    /\ edits < MaxEdits
    /\ box' = [link |-> e, draft |-> tab[e], open |-> TRUE]
    /\ edits' = edits + 1
    /\ UNCHANGED <<world, tab, picker, removing, requests, made>>

TypeReason(r) ==
    /\ box # NoBox /\ box.open
    /\ box' = [box EXCEPT !.draft = r]
    /\ UNCHANGED <<world, tab, picker, removing, edits, requests, made>>

CancelReason ==
    /\ box # NoBox /\ box.open
    /\ box' = [box EXCEPT !.open = FALSE, !.draft = tab[box.link]]
    /\ UNCHANGED <<world, tab, picker, removing, edits, requests, made>>

\* Enter, a second click, or the box losing focus: the first call of an edit submits it.
SaveReason ==
    /\ box # NoBox /\ box.open
    /\ box' = [box EXCEPT !.open = FALSE]
    /\ IF box.draft = tab[box.link] THEN UNCHANGED <<requests, made>>
       ELSE Ask("reason", box.link, box.draft)
    /\ UNCHANGED <<world, tab, picker, removing, edits>>

\* The closed box leaves the page, and its focus goes: save_reason again, which returns.
BoxGoes ==
    /\ box # NoBox /\ ~box.open
    /\ box' = NoBox
    /\ UNCHANGED <<world, tab, picker, removing, edits, requests, made>>

Unlink(e) ==
    /\ e \notin removing
    /\ removing' = removing \cup {e}
    /\ Ask("unlink", e, 0)
    /\ UNCHANGED <<world, tab, picker, box, edits>>

ChipStep ==
    \/ \E e \in Chips : EditReason(e) \/ Unlink(e)
    \/ \E r \in Reasons \cup {0} : TypeReason(r)
    \/ CancelReason \/ SaveReason \/ BoxGoes

----------------------------------------------------------------------------
(* The server, the stream and the answers.                                 *)

\* The chips of links that are gone or have another reason are drawn anew.
Show(links) ==
    LET changed == {e \in DOMAIN tab : e \notin DOMAIN links \/ links[e] # tab[e]}
    IN  /\ tab' = links
        /\ box' = IF box # NoBox /\ box.link \in changed THEN NoBox ELSE box
        /\ removing' = removing \ changed

\* insert_absent, remove and replace: what an answer or an event makes of the tab's links.
Merged(m) ==
    CASE m.kind = "pick" -> IF m.link \in DOMAIN tab THEN tab ELSE With(tab, m.link, m.value)
      [] m.kind = "unlink" -> Without(tab, m.link)
      [] OTHER -> With(tab, m.link, m.value)

Answered(r, answer) ==
    requests' = (requests \ {r}) \cup {[r EXCEPT !.answer = answer]}

Granted(r) ==
    CASE r.kind = "pick" -> ~WouldRefuse(DOMAIN server, r.link)
      [] OTHER -> r.link \in DOMAIN server

Applied(r) ==
    CASE r.kind = "pick" -> With(server, r.link, 0)
      [] r.kind = "unlink" -> Without(server, r.link)
      [] OTHER -> With(server, r.link, r.value)

\* The server handles a request and tells every tab; its answer may get lost.
Handle(r) ==
    /\ r.answer = "waits"
    /\ IF Granted(r)
       THEN /\ server' = Applied(r)
            /\ heard' = Append(heard, [kind |-> r.kind, link |-> r.link, value |-> r.value])
            /\ \/ Answered(r, "done") /\ UNCHANGED faults
               \/ faults < MaxFaults /\ faults' = faults + 1 /\ Answered(r, "lost")
       ELSE Answered(r, "refused") /\ UNCHANGED <<server, heard, faults>>
    /\ UNCHANGED <<tab, others, picker, chips, made>>

\* The answer reaches the tab.
Reply(r) ==
    /\ r.answer # "waits"
    /\ requests' = requests \ {r}
    /\ IF r.answer = "done"
       THEN Show(Merged(r))
       ELSE /\ removing' = IF r.kind = "unlink" THEN removing \ {r.link} ELSE removing
            /\ UNCHANGED <<tab, box>>
    /\ UNCHANGED <<world, picker, edits, made>>

\* The stream brings an event.
Hear ==
    /\ heard # << >>
    /\ heard' = Tail(heard)
    /\ Show(Merged(Head(heard)))
    /\ UNCHANGED <<server, others, faults, picker, edits, requests, made>>

\* Another client adds or removes a link: what is under way may be refused for it.
OtherChanges ==
    /\ others < MaxOthers /\ others' = others + 1
    /\ \/ \E e \in DOMAIN server :
             /\ <<e[1], e[2]>> \in Contested
             /\ server' = Without(server, e)
             /\ heard' = Append(heard, [kind |-> "unlink", link |-> e, value |-> 0])
       \/ \E p \in Contested : LET e == Link(p, -others') IN
             /\ ~WouldRefuse(DOMAIN server, e)
             /\ server' = With(server, e, 0)
             /\ heard' = Append(heard, [kind |-> "pick", link |-> e, value |-> 0])
    /\ requests' = Excused(requests)
    /\ UNCHANGED <<faults, tab, picker, chips, made>>

Next ==
    \/ PickerStep
    \/ ChipStep
    \/ \E r \in requests : Handle(r) \/ Reply(r)
    \/ Hear
    \/ OtherChanges

Spec == Init /\ [][Next]_pickerVars

----------------------------------------------------------------------------

\* Links join cards without a loop, what is removed or edited is shown, and the rows and
\* the remembered picks, none of them twice, keep to their limits.
TypeOK ==
    /\ \A e \in DOMAIN server \cup DOMAIN tab : <<e[1], e[2]>> \in Pairs
    /\ NoLoop(DOMAIN server)
    /\ removing \subseteq DOMAIN tab
    /\ recent \in Seq(Others) /\ Len(recent) <= MaxRemembered
    /\ \A i, j \in DOMAIN recent : i # j => recent[i] # recent[j]
    /\ active \in 0 .. MaxSuggestions
    /\ box # NoBox => box.link \in DOMAIN tab

\* "The popup only ever offers cards the server would accept", and nothing is sent twice: a
\* request is refused only if another client's change, or an own request that crossed it,
\* came between; no two removals of a link, and no two saves of an edit, run together,
\* unless the link's chip was drawn anew.
RequestsAreNeeded ==
    /\ \A r \in requests : r.answer = "refused" => r.excused
    /\ \A r, q \in requests :
          r # q /\ r.kind = q.kind /\ ~r.excused /\ ~q.excused =>
             /\ r.kind = "unlink" => r.link # q.link
             /\ r.kind = "reason" => r.edit # q.edit

\* The six rows go to what the user is likely to want: of two cards that may be offered, the
\* one picked later, if it is remembered still, comes first.
PicksLead ==
    \A side \in Sides : \A c, d \in Candidates(side) :
        pickedAt[c] > pickedAt[d] =>
            LET list == Offered(side)
                rank(x) == IF Contains(list, x) THEN PlaceIn(list, x) ELSE Len(list) + 1
                later == {x \in Cards : pickedAt[x] >= pickedAt[c]}
            IN  Cardinality(later) <= MaxRemembered =>
                   rank(c) < rank(d) \/ (rank(c) = rank(d) /\ rank(c) > Len(list))
=============================================================================
