---------------------------- MODULE MCFrontend -----------------------------
(****************************************************************************)
(* The machines of one browser tab, side by side: one run checks each of    *)
(* them on its own small instance. A behaviour picks one machine, which runs*)
(* as its module says, while the variables of the others stay off.  The     *)
(* card editor is extended, for the proofs are about it; the others are     *)
(* instances.                                                               *)
(****************************************************************************)
EXTENDS CardEditor, TLC

CONSTANTS                \* the bounds of the other machines; CardEditor has its own
    MaxReorders, MaxFaults, MaxChanges, MaxWrites, MaxRequests, MaxEdits, MaxOthers, MaxRows, MaxLoads,
    MaxTokens,
    Number, GivenTags, GivenBodies, Tokens,         \* BoardSearch's
    LinkCards, OpenCard, Recency, Narrowings, GivenLinks, Contested, Reasons, MaxOffered,
    MaxRemembered,                                  \* LinkPicker's
    Kind, LinkEnds, Scopes, FieldEdits, FirstOf     \* HistoryView's

VARIABLES
    part,            \* the machine this behaviour is of
    \* ColumnOrder
    position, fresh, unsent, orderTold, orderTab, orderRequests, orderFaults, changes,
    orderExcuse,
    \* LinkPicker
    server, pickerTab, heard, recent, focus, typed, pickerActive, box, removing,
    pickerRequests, pickerMade, others, pickerFaults, pickerEdits, pickedAt,
    \* HistoryView
    current, log, drawerUnsent, news, scope, entries, loading, restoring, loads,
    drawerMade, drawerFaults, drawerCrossed, drawerExcuse,
    \* BoardSearch
    searchTags, searchBody, links, query, open, dismissed, expanded, searchEdits,
    touched, picked,
    \* TagEditor
    tagEditorTags, said, draft, tagEditorActive, focused, known

\* LinkPicker: the open card 0 and two others, of which one changed later; no link at first,
\* or one of the open card's and one of the others'.
Changed == <<0, 1>> @@ 0 :> 0
FirstLinks == {{}, {<<0, 1>>, <<1, 2>>}}
OthersLinks == {<<1, 2>>}

\* HistoryView: a card, its column, its board, and a link to another card.
Kinds == [c1 |-> "card", k1 |-> "column", l1 |-> "card_link", b |-> "board"]
LinkedCards == [l1 |-> {"c1", "c2"}]
ChangedFields == {{"name"}, {"spelling"}, {"column", "tags"}, {"reason"}, {"position"}}
FirstRows == {<<"c1", "baseline">>}

\* BoardSearch: numbers, tags and bodies that contain one another.
Numbers == <<<<"1">>, <<"1", "2">>>>
TagSets == {{<<"a", "b">>}, {<<"1">>}}
CardBodies == {<<"a", "b", " ", "1">>, <<"b", "a", "a", " ", "a", "b", "a", "b">>}
Hash(w) == [hash |-> TRUE, word |-> w]
Text(w) == [hash |-> FALSE, word |-> w]
SearchTokens == {Hash(<<>>), Hash(<<"1">>), Hash(<<"1", "2">>), Hash(<<"a">>), Text(<<"a">>),
                 Text(<<"a", "b">>), Text(<<"b", "b">>), Text(<<"1">>)}

\* TagEditor: two letters, one of them with a capital; drafts of one word or two, with a
\* hash, with a capital, too long and with nothing behind the hash.
LowerCase == "a" :> "a" @@ "A" :> "a" @@ "b" :> "b"
TagDrafts == {<<Text(<<"a">>)>>, <<Text(<<"A">>)>>, <<Hash(<<"b">>)>>,
              <<Text(<<"b", "A">>), Text(<<"a", "b">>)>>, <<Text(<<"a", "b", "b">>)>>, <<Hash(<<>>)>>}
CardTags == {<<>>, <<<<"A">>>>, <<<<"b">>, <<"a">>>>, <<<<"a", "b">>, <<"b">>, <<"a">>>>}
BoardTags == {<<<<"a", "b">>, <<"b">>, <<"b", "a">>>>, <<<<"A">>, <<"b">>>>, <<>>}

Order == INSTANCE ColumnOrder WITH
    Given <- 1 .. 3, Created <- {4}, Places <- {<<0, 1, 9>>}, Far <- 9, Asked <- {0, 2},
    told <- orderTold, tab <- orderTab, requests <- orderRequests,
    faults <- orderFaults, excuse <- orderExcuse

Picker == INSTANCE LinkPicker WITH
    Cards <- LinkCards, Me <- OpenCard, Texts <- Narrowings, MaxSuggestions <- MaxOffered,
    tab <- pickerTab, active <- pickerActive, requests <- pickerRequests, made <- pickerMade,
    faults <- pickerFaults, edits <- pickerEdits

ASSUME PickerAssumption == Picker!ConstantsOK

Drawer == INSTANCE HistoryView WITH
    Ends <- LinkEnds, Edits <- FieldEdits, First <- FirstOf, made <- drawerMade,
    unsent <- drawerUnsent, faults <- drawerFaults, crossed <- drawerCrossed,
    excuse <- drawerExcuse

ASSUME DrawerAssumption == Drawer!ConstantsOK

Search == INSTANCE BoardSearch WITH
    tags <- searchTags, body <- searchBody, edits <- searchEdits

ASSUME SearchAssumption == Search!ConstantsOK

TagEditor == INSTANCE TagEditor WITH
    Lower <- LowerCase, Drafts <- TagDrafts, Cards <- CardTags, Boards <- BoardTags,
    MaxTagChars <- 2, MaxTags <- 3, MaxSuggestions <- 2, tags <- tagEditorTags,
    active <- tagEditorActive

Off == "off"    \* the variables of the machines this behaviour is not of

orderVars == <<position, fresh, unsent, orderTold, orderTab, orderRequests, orderFaults,
               changes, orderExcuse>>
pickerVars == <<server, pickerTab, heard, recent, focus, typed, pickerActive, box,
                removing, pickerRequests, pickerMade, others, pickerFaults, pickerEdits,
                pickedAt>>
drawerVars == <<current, log, drawerUnsent, news, scope, entries, loading, restoring,
                loads, drawerMade, drawerFaults, drawerCrossed, drawerExcuse>>
searchVars == <<searchTags, searchBody, links, query, open, dismissed, expanded,
                searchEdits, touched, picked>>
tagEditorVars == <<tagEditorTags, said, draft, tagEditorActive, focused, known>>

EditorStarts ==
    IF part = "editor" THEN Init
    ELSE stored = Off /\ told = Off /\ form = Off /\ mode = Off /\ card = Off /\
         body = Off /\ saved = Off /\ status = Off /\ timers = Off /\ calls = Off /\
         made = Off /\ wanted = Off /\ excuse = Off
OrderStarts ==
    IF part = "order" THEN Order!Init
    ELSE position = Off /\ fresh = Off /\ unsent = Off /\ orderTold = Off /\
         orderTab = Off /\ orderRequests = Off /\ orderFaults = Off /\ changes = Off /\ orderExcuse = Off
PickerStarts ==
    IF part = "picker" THEN Picker!Init
    ELSE server = Off /\ pickerTab = Off /\ heard = Off /\ recent = Off /\
         focus = Off /\ typed = Off /\ pickerActive = Off /\ box = Off /\
         removing = Off /\ pickerRequests = Off /\ pickerMade = Off /\ others = Off /\
         pickerFaults = Off /\ pickerEdits = Off /\ pickedAt = Off
DrawerStarts ==
    IF part = "drawer" THEN Drawer!Init
    ELSE current = Off /\ log = Off /\ drawerUnsent = Off /\ news = Off /\ scope = Off /\
         entries = Off /\ loading = Off /\ restoring = Off /\ loads = Off /\
         drawerMade = Off /\ drawerFaults = Off /\ drawerCrossed = Off /\ drawerExcuse = Off
SearchStarts ==
    IF part = "search" THEN Search!Init
    ELSE searchTags = Off /\ searchBody = Off /\ links = Off /\ query = Off /\
         open = Off /\ dismissed = Off /\ expanded = Off /\ searchEdits = Off /\
         touched = Off /\ picked = Off
TagEditorStarts ==
    IF part = "tagEditor" THEN TagEditor!Init
    ELSE tagEditorTags = Off /\ said = Off /\ draft = Off /\ tagEditorActive = Off /\
         focused = Off /\ known = Off

FrontendInit ==
    /\ part \in {"editor", "order", "picker", "drawer", "search", "tagEditor"}
    /\ EditorStarts
    /\ OrderStarts
    /\ PickerStarts
    /\ DrawerStarts
    /\ SearchStarts
    /\ TagEditorStarts

EditorRuns ==
    /\ part = "editor" /\ Next
    /\ UNCHANGED <<part, orderVars, pickerVars, drawerVars, searchVars, tagEditorVars>>
OrderRuns ==
    /\ part = "order" /\ Order!Next
    /\ UNCHANGED <<part, editorVars, pickerVars, drawerVars, searchVars, tagEditorVars>>
PickerRuns ==
    /\ part = "picker" /\ Picker!Next
    /\ UNCHANGED <<part, editorVars, orderVars, drawerVars, searchVars, tagEditorVars>>
DrawerRuns ==
    /\ part = "drawer" /\ Drawer!Next
    /\ UNCHANGED <<part, editorVars, orderVars, pickerVars, searchVars, tagEditorVars>>
SearchRuns ==
    /\ part = "search" /\ Search!Next
    /\ UNCHANGED <<part, editorVars, orderVars, pickerVars, drawerVars, tagEditorVars>>
TagEditorRuns ==
    /\ part = "tagEditor" /\ TagEditor!Next
    /\ UNCHANGED <<part, editorVars, orderVars, pickerVars, drawerVars, searchVars>>

FrontendNext ==
    \/ EditorRuns
    \/ OrderRuns
    \/ PickerRuns
    \/ DrawerRuns
    \/ SearchRuns
    \/ TagEditorRuns

FrontendVars == <<part, editorVars, orderVars, pickerVars, drawerVars, searchVars, tagEditorVars>>

FrontendSpec == FrontendInit /\ [][FrontendNext]_FrontendVars

----------------------------------------------------------------------------
(* What each machine keeps to.                                            *)

\* The bounds of ColumnOrder and HistoryView: what comes after is not explored where nothing can
\* end the excuse, or open the drawer again, for their properties say nothing of it.
OrderNotExcused == part = "order" => orderExcuse = {}
DrawerMayShow ==
    part = "drawer" /\ drawerMade.load = MaxLoads =>
        /\ scope # "closed"
        /\ \/ ~drawerExcuse /\ \A l \in loads : l.id # MaxLoads
           \/ \E l \in loads : l.id = MaxLoads /\ ~(l.read /\ l.missed)

\* The type invariants of the machines.
FrontendTypeOK ==
    /\ part = "editor" => TypeOK
    /\ part = "order" => Order!TypeOK
    /\ part = "picker" => Picker!TypeOK
    /\ part = "drawer" => Drawer!TypeOK
    /\ part = "search" => Search!TypeOK
    /\ part = "tagEditor" => TagEditor!TypeOK

\* At rest a card's row has what its user typed last and the tags the edits come to, but for
\* the causes the machine names (components/card.rs, card_modal.rs).
EditorStoresEdits == part = "editor" => EditsStored

\* At rest the tab shows the columns in the server's order, whatever failed, but for the
\* causes the machine names (columns.rs, board_chooser.rs, routes/columns.rs).
OrderFollowsServer == part = "order" => Order!OrderFollowsServer

\* The picker offers only links the server would accept, in an order led by the last picks,
\* and sends nothing twice (components/link_editor.rs, recent.rs).
PickerOffersWell == part = "picker" => Picker!RequestsAreNeeded /\ Picker!PicksLead

\* The drawer holds the rows of its scope, once and as stored, and each says what it changed
\* (components/history_panel.rs, shared history).
DrawerShowsHistory == part = "drawer" => Drawer!DrawerShowsHistory /\ Drawer!ChangesShown

\* A card that fails the query is on screen only while it is open and just touched, a text
\* query marks what it matched, and what the popup offers, the search finds (search.rs).
SearchShowsMatches ==
    part = "search" => Search!PinIsBrief /\ Search!MarksMirrorMatches /\ Search!PickIsFound

\* A tag the user has finished typing is not silently dropped, neither by the box nor by the
\* server that stores the list it hands on (components/tag_editor.rs, shared tags).
FinishedTagsStay ==
    [][part = "tagEditor" =>
          TagEditor!FinishedTags /\ TagEditor!ServerKeepsTheList']_tagEditorVars
============================================================================
