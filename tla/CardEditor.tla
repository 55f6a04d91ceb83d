----------------------------- MODULE CardEditor -----------------------------
(***************************************************************************)
(* One card being edited in one tab: its text, saved by itself half a      *)
(* second after the last key and when the editor is left, and its tags,    *)
(* shown before they are stored (frontend: components/card.rs, the card on *)
(* the board; components/card_modal.rs, the card maximised).  Saves run    *)
(* beside each other; the server handles them one at a time, in any order, *)
(* and tells every tab of each.                                            *)
(*                                                                         *)
(* Abstracted: a text is a number; the caret, the focus and the tag popup; *)
(* the half second (a timer fires at any time); the audit session of a     *)
(* save (CardHistory takes any); the card's move, deletion and links.       *)
(***************************************************************************)
EXTENDS Integers, Sequences

CONSTANTS
    Texts,           \* texts a user may type; 0 is the one stored at first
    Tags,
    Budget           \* bound: clicks, inputs, failed requests and changes by somebody else

VARIABLES
    stored,          \* the row: [body, tags]
    told,            \* events on their way to the tab
    form,            \* "inline" or "modal"
    mode,            \* CardState, of the modal: open and closed for Expanded and Collapsed
    card,            \* the card signal
    body, saved,     \* the text shown; saved_body
    status,          \* SaveStatus
    timers,          \* debounced saves that wait
    calls,           \* requests under way
    made,            \* requests, inputs, and what else the budget counts, so far
    \* history variables: they guide no step
    wanted,          \* what the user's own edits come to
    excuse           \* why the row may differ from it

\* The card is created with the first text.
ASSUME TextsAssumption == 0 \in Texts

editorVars == <<stored, told, form, mode, card, body, saved, status, timers, calls, made,
                wanted, excuse>>

Counted == {"call", "input", "other"}
Affordable == made.input + made.other < Budget
Count(what) == made' = [made EXCEPT ![what] = @ + 1]
Row == [body |-> 0, tags |-> {}]

\* A card just created opens in its editor.
Init ==
    /\ stored = Row /\ told = << >>
    /\ form \in {"inline", "modal"}
    /\ card = Row /\ body = 0 /\ saved = 0 /\ status = "Idle"
    /\ mode \in IF form = "inline" THEN {"Collapsed", "Editing"} ELSE {"Expanded"}
    /\ made = [x \in Counted |-> 0]
    /\ timers = {} /\ calls = {}
    /\ wanted = Row /\ excuse = {}

Saves == {c \in calls : c.field = "body"}
Because(cause, why) == IF cause THEN {why} ELSE {}

\* A request to store value in a field; was is what a tag save falls back to.
Call(field, value, was, closes) ==
    [id |-> made.call + 1, field |-> field, value |-> value, was |-> was, closes |-> closes,
     at |-> "sent", answer |-> Row]

----------------------------------------------------------------------------
(* The signals and the effects that follow them.                           *)

\* The card on the board takes over the text of its card unless it is being edited.
SyncInline(c) ==
    /\ card' = c
    /\ IF mode # "Editing" THEN body' = c.body /\ saved' = c.body ELSE UNCHANGED <<body, saved>>

\* The modal starts afresh on every change of its card.
ResetModal(c) ==
    /\ card' = c /\ body' = c.body /\ saved' = c.body
    /\ status' = "Idle" /\ mode' = IF mode = "Editing" THEN "Expanded" ELSE mode

\* The text shown gives way to another, or to what a timer was to save, though it is the
\* one the user typed last.
Taken(text) == text # body /\ body = wanted.body
Wiped(text) == (text # body \/ text # saved \/ timers # {}) /\ body = wanted.body

\* Leaving with the text as it was last saved leaves a save of another text to land.
Undone == body = saved /\ \E c \in Saves : c.value # body

\* Mutant: the card that is left is not saved.
LeaveUnsaved(m) ==
    /\ mode' = m
    /\ excuse' = excuse \cup Because(Undone, "undone")
    /\ UNCHANGED <<calls, status, made>>

\* exit_editing and collapse_silent: what is not saved is, and the card changes state.
Leave(m) ==
    /\ mode' = m
    /\ IF body # saved
       THEN /\ calls' = calls \cup {Call("body", body, 0, FALSE)}
            /\ status' = "Saving"
            /\ Count("call")
       ELSE UNCHANGED <<calls, status, made>>
    /\ excuse' = excuse \cup Because(Undone, "undone")

----------------------------------------------------------------------------
(* The user.                                                               *)

\* A click on the card, on the board.
Expand ==
    /\ mode = "Collapsed" /\ Affordable
    /\ form = "inline"
    /\ mode' = "Expanded"
    /\ Count("other")
    /\ UNCHANGED <<stored, told, form, card, body, saved, status, timers, calls, wanted,
                   excuse>>

\* A click on the text.
Edit ==
    /\ mode = "Expanded" /\ Affordable
    /\ mode' = "Editing"
    /\ Count("other")
    /\ UNCHANGED <<stored, told, form, card, body, saved, status, timers, calls, wanted, excuse>>

Type ==
    /\ mode = "Editing" /\ Affordable
    /\ \E t \in Texts \ {body} :
          /\ body' = t
          /\ wanted' = [wanted EXCEPT !.body = t]
          /\ timers' = timers \cup {[n |-> made.input, text |-> t]}
    /\ status' = "Idle"
    /\ Count("input")
    /\ UNCHANGED <<stored, told, form, mode, card, saved, calls, excuse>>

\* The debounced save: of the text that still stands, and on the board only while editing.
TimerFires ==
    /\ \E t \in timers :
          /\ timers' = timers \ {t}
          /\ IF body = t.text /\ mode \in (IF form = "inline" THEN {"Editing"}
                                           ELSE {"Editing", "Expanded"})
             THEN /\ calls' = calls \cup {Call("body", body, 0, FALSE)}
                  /\ status' = "Saving"
                  /\ Count("call")
             ELSE UNCHANGED <<calls, status, made>>
    /\ UNCHANGED <<stored, told, form, mode, card, body, saved, wanted, excuse>>

\* Escape or another focus; the modal only stops editing.
Blur ==
    /\ mode = "Editing"
    /\ IF form = "inline" THEN Leave("Expanded")
       ELSE mode' = "Expanded" /\ UNCHANGED <<calls, status, made, excuse>>
    /\ UNCHANGED <<stored, told, form, card, body, saved, timers, wanted>>

\* collapse, or another card takes the one place for an expanded card.
Collapse ==
    /\ form = "inline" /\ mode \in {"Expanded", "Editing"}
    /\ Leave("Collapsed")
    /\ UNCHANGED <<stored, told, form, card, body, saved, timers, wanted>>

\* flush_and_close: what is not saved is, and the modal stays until that is answered.
Close ==
    /\ form = "modal" /\ mode \in {"Expanded", "Editing"}
    /\ IF body # saved
       THEN /\ Affordable
            /\ calls' = calls \cup {Call("body", body, 0, TRUE)}
            /\ status' = "Saving"
            /\ made' = [made EXCEPT !.call = @ + 1, !.other = @ + 1]
            /\ UNCHANGED <<mode, card, excuse>>
       ELSE /\ mode' = "Collapsed"
            /\ excuse' = excuse \cup Because(Undone, "undone")
            /\ UNCHANGED <<calls, status, made, card>>
    /\ UNCHANGED <<stored, told, form, body, saved, timers, wanted>>

\* The card leaves the list it was shown in, and its signals go with it.
Unmount ==
    /\ form = "inline" /\ mode # "gone"
    /\ mode' = "gone"
    /\ timers' = {}
    /\ excuse' = excuse \cup Because(body # saved \/ Undone, "unmounted")
    /\ UNCHANGED <<stored, told, form, card, body, saved, status, calls, made, wanted>>

With(tags, x) == IF x \in tags THEN tags \ {x} ELSE tags \cup {x}

\* The new list is shown at once.
ShowTags(tags) ==
    IF form = "inline" THEN SyncInline([card EXCEPT !.tags = tags])
                            /\ UNCHANGED <<status, mode>>
    ELSE ResetModal([card EXCEPT !.tags = tags])

\* A tag is added or taken off: the whole list as shown is sent.  A chip's cross leaves the
\* focus in the text; adding takes it away first.
Toggle(x) ==
    /\ mode = "Expanded" \/ (mode = "Editing" /\ x \in card.tags)
    /\ Affordable
    /\ LET next == With(card.tags, x)
       IN  /\ ShowTags(next)
           /\ calls' = calls \cup {Call("tags", next, card.tags, FALSE)}
    /\ wanted' = [wanted EXCEPT !.tags = With(@, x)]
    /\ made' = [made EXCEPT !.input = @ + 1, !.call = @ + 1]
    /\ excuse' = excuse \cup Because(form = "modal" /\ Wiped(body'), "wiped")
                        \cup Because(form = "inline" /\ Taken(body'), "echoed")
    /\ UNCHANGED <<stored, told, form, timers>>

----------------------------------------------------------------------------
(* The server, and what comes back.                                        *)

\* An earlier request of the same kind is not yet as far.
Overtakes(c) == \E d \in calls : d.field = c.field /\ d.id < c.id
                                 /\ (c.at = "sent" => d.at = "sent")

Apply(c) == [stored EXCEPT ![c.field] = c.value]

Handle(c) ==
    /\ c.at = "sent"
    /\ stored' = Apply(c)
    /\ told' = IF form = "inline" /\ mode # "gone" THEN Append(told, stored') ELSE told
    /\ calls' = (calls \ {c}) \cup {[c EXCEPT !.at = "ok", !.answer = stored']}
    /\ excuse' = excuse \cup Because(Overtakes(c), "overtaken")
    /\ UNCHANGED <<form, mode, card, body, saved, status, timers, made, wanted>>

\* The request fails before it is handled, or its answer is lost.
Lose(c) ==
    /\ c.at \in {"sent", "ok"} /\ Affordable
    /\ calls' = (calls \ {c}) \cup {[c EXCEPT !.at = "failed"]}
    /\ excuse' = excuse \cup {"failed"}
    /\ Count("other")
    /\ UNCHANGED <<stored, told, form, mode, card, body, saved, status, timers, wanted>>

\* Somebody else edits the card.
Foreign ==
    /\ Affordable
    /\ \E t \in Texts \ {stored.body} : stored' = [stored EXCEPT !.body = t]
    /\ told' = IF form = "inline" /\ mode # "gone" THEN Append(told, stored') ELSE told
    /\ excuse' = excuse \cup {"foreign"}
    /\ Count("other")
    /\ UNCHANGED <<form, mode, card, body, saved, status, timers, calls, wanted>>

\* A change of the list that a tag save of this tab did not ask for.
Replaced(tags) == tags # card.tags /\ card.tags = wanted.tags

\* An event of the card, on the board; the modal hears none.
Hear ==
    /\ told # << >>
    /\ told' = Tail(told)
    /\ IF mode = "gone" THEN UNCHANGED <<card, body, saved, excuse>>
       ELSE /\ SyncInline(Head(told))
            /\ excuse' = excuse \cup Because(Taken(body'), "echoed")
                                \cup Because(Replaced(card'.tags), "replaced")
    /\ UNCHANGED <<stored, form, mode, status, timers, calls, made, wanted>>

\* The answer to a save of the text.
SaveLands(c) ==
    /\ c.field = "body" /\ c.at \in {"ok", "failed"}
    /\ calls' = calls \ {c}
    /\ CASE mode = "gone" -> UNCHANGED <<mode, card, body, saved, status, excuse>>
         [] mode # "gone" /\ c.at = "failed" ->
              status' = "Failed" /\ UNCHANGED <<mode, card, body, saved, excuse>>
         [] mode # "gone" /\ c.at = "ok" /\ form = "inline" ->
              /\ status' = "Saved" /\ card' = c.answer
              /\ saved' = IF mode = "Editing" THEN c.value ELSE c.answer.body
              /\ body' = IF mode = "Editing" THEN body ELSE c.answer.body
              /\ excuse' = excuse \cup Because(Taken(body') /\ Saves # {c}, "echoed")
                                  \cup Because(Overtakes(c), "overtaken")
                                  \cup Because(Replaced(c.answer.tags), "replaced")
              /\ UNCHANGED mode
         [] mode # "gone" /\ c.at = "ok" /\ form = "modal" ->
              /\ saved' = IF c.closes THEN saved ELSE c.value
              /\ status' = IF c.closes THEN status ELSE "Saved"
              /\ mode' = IF c.closes THEN "Collapsed" ELSE mode
              /\ excuse' = excuse \cup Because(c.closes /\ \E d \in Saves : d.value # body, "left")
                                  \cup Because(Overtakes(c), "overtaken")
              /\ UNCHANGED <<card, body>>
    /\ UNCHANGED <<stored, told, form, timers, made, wanted>>

\* The answer to a save of the tags counts only if the list is still the one it asked for.
TagsLand(c) ==
    /\ c.field = "tags" /\ c.at \in {"ok", "failed"}
    /\ calls' = calls \ {c}
    /\ LET next == IF c.at = "ok" THEN c.answer ELSE [card EXCEPT !.tags = c.was]
       IN  IF mode = "gone" \/ card.tags # c.value \/ (form = "modal" /\ mode = "Collapsed")
           THEN UNCHANGED <<mode, card, body, saved, status, excuse>>
           ELSE /\ IF form = "inline" THEN SyncInline(next) /\ UNCHANGED <<mode, status>>
                   ELSE ResetModal(next)
                /\ excuse' = excuse \cup Because(Taken(body'), "echoed")
                                    \cup Because(form = "modal" /\ Wiped(body'), "wiped")
    /\ UNCHANGED <<stored, told, form, timers, made, wanted>>

----------------------------------------------------------------------------

UserSteps == Expand \/ Edit \/ Type \/ Blur \/ Collapse \/ Close \/ Unmount
             \/ \E x \in Tags : Toggle(x)
CallSteps == \E c \in calls : Handle(c) \/ Lose(c) \/ SaveLands(c) \/ TagsLand(c)

Next == UserSteps \/ TimerFires \/ CallSteps \/ Hear \/ Foreign

Spec == Init /\ [][Next]_editorVars

----------------------------------------------------------------------------

\* Row, modal and status have their values, and a debounced save is of an input there was.
TypeOK ==
    /\ stored.body \in Texts /\ stored.tags \subseteq Tags
    /\ mode \in {"Collapsed", "Expanded", "Editing", "gone"}
    /\ status \in {"Idle", "Saving", "Saved", "Failed"}
    /\ \A t \in timers : t.n < made.input
    /\ excuse \subseteq {"undone", "unmounted", "overtaken", "failed", "foreign", "replaced",
                         "echoed", "wiped", "left"}

AtRest == calls = {} /\ timers = {} /\ told = << >>

\* When nothing is under way, the row has the text the user typed last and the tags the user's
\* edits come to, unless somebody else changed the card, a request failed or was overtaken
\* on its way, the card left its list, or one of what the code lets go: a text typed back
\* to the one saved while a save is under way (undone), a text or a list replaced by an
\* older one that came back (echoed, replaced), a text not yet saved when the modal starts
\* afresh (wiped), a text typed, or a save of another one under way, when the modal closes on
\* the answer it waited for (left).
EditsStored == AtRest /\ excuse = {} => stored = wanted

============================================================================
