----------------------------- MODULE TagEditor -----------------------------
(***************************************************************************)
(* The tag box of a card (frontend components/tag_editor.rs) and the rules *)
(* that say what a tag is (shared tags.rs).                                *)
(*                                                                         *)
(* The user types, pastes and picks; the editor hands its owner the card's *)
(* complete new list, which the server normalises by the same rules before *)
(* it stores it.  The card's tags and the board's other tags change under  *)
(* the box as events arrive, and the highlighted row is only an index.     *)
(*                                                                         *)
(* A tag is a sequence of characters.  What is typed is a sequence of      *)
(* tokens, the words between white space, each with or without the '#'     *)
(* that normalize strips.                                                  *)
(***************************************************************************)
EXTENDS Integers, Sequences, SequencesExt, Functions

CONSTANTS
    Lower,              \* the lower case of each character
    Drafts,             \* what may be typed or pasted into the box
    Cards,              \* the tag lists the server may report for the card
    Boards,             \* the tags of the other cards, in order
    MaxTagChars,        \* MAX_TAG_CHARS
    MaxTags,            \* MAX_TAGS_PER_CARD
    MaxSuggestions      \* MAX_SUGGESTIONS

VARIABLES
    tags,       \* the card's tags as shown
    said,       \* what the last step handed to on_change, if anything
    draft,      \* the text in the box, as tokens
    active,     \* the highlighted suggestion, 0 for none
    focused,    \* input_focused
    known       \* BoardCardIndex::all_tags, less the card's own

vars == <<tags, said, draft, active, focused, known>>

None == "none"

(***************************************************************************)
(* Tags                                                                    *)
(***************************************************************************)

Folded(word) == [i \in DOMAIN word |-> Lower[word[i]]]
EqIgnoreCase(a, b) == Folded(a) = Folded(b)
StartsWith(tag, prefix) == IsPrefix(Folded(prefix), Folded(tag))

\* normalize's loop: empties dropped, the first spelling of each tag kept.
Kept(words) ==
    FoldLeft(LAMBDA out, w :
                 IF w = <<>> \/ \E k \in DOMAIN out : EqIgnoreCase(out[k], w)
                 THEN out ELSE Append(out, w),
             <<>>, words)

\* normalize's errors: a tag too long, or too many of them.
TooLong(words) == \E i \in DOMAIN words : Len(words[i]) > MaxTagChars
Refused(words) == TooLong(words) \/ Len(Kept(words)) > MaxTags

Stripped(tokens) == [i \in DOMAIN tokens |-> tokens[i].word]

\* The draft is one that may be typed, the highlight within the popup, and what was
\* handed on is what is shown.
TypeOK ==
    /\ \A k \in DOMAIN tags : tags[k] \in Seq(DOMAIN Lower)
    /\ said = None \/ said = tags
    /\ draft \in Drafts \cup {<<>>}
    /\ active \in 0..MaxSuggestions
    /\ focused \in BOOLEAN
    /\ known \in Boards

Init ==
    /\ tags \in Cards /\ known \in Boards
    /\ said = None /\ draft = <<>> /\ active = 0 /\ focused = FALSE

(***************************************************************************)
(* The popup                                                               *)
(***************************************************************************)

\* The typed text is compared as it stands: a '#' or a space in it matches
\* no tag, and an empty box matches them all.
Completes(tag) ==
    \/ draft = <<>>
    \/ Len(draft) = 1 /\ ~draft[1].hash /\ StartsWith(tag, draft[1].word)

\* The first of the board's tags that go on from what is typed.
Suggestions ==
    LET fresh(tag) == Completes(tag) /\ ~\E k \in DOMAIN tags : EqIgnoreCase(tags[k], tag)
        all == SelectSeq(known, fresh)
    IN SubSeq(all, 1, IF Len(all) < MaxSuggestions THEN Len(all) ELSE MaxSuggestions)

PopupOpen == focused /\ Suggestions # <<>>

(***************************************************************************)
(* commit and remove                                                       *)
(***************************************************************************)

Publish(list) == tags' = list /\ said' = list
Quiet == tags' = tags /\ said' = None

\* (CommitAndClear: a plausible slip, the box emptied whatever came of it.)
CommitAndClear(tokens) ==
    LET next == tags \o Stripped(tokens)
    IN /\ draft' = <<>> /\ active' = 0
       /\ IF tokens = <<>> \/ Refused(next) \/ Kept(next) = tags THEN Quiet ELSE Publish(Kept(next))
Commit(tokens) ==
    LET next == tags \o Stripped(tokens)
    IN IF tokens = <<>> \/ Refused(next)
       THEN Quiet /\ UNCHANGED <<draft, active>>
       ELSE /\ draft' = <<>> /\ active' = 0
            /\ IF Kept(next) = tags THEN Quiet ELSE Publish(Kept(next))

AsTyped(tag) == <<[hash |-> FALSE, word |-> tag]>>

RemoveTag(tag) ==
    LET other(t) == ~EqIgnoreCase(t, tag)
        next == SelectSeq(tags, other)
    IN IF Len(next) # Len(tags) THEN Publish(next) ELSE Quiet

(***************************************************************************)
(* The box                                                                 *)
(***************************************************************************)

Focus == ~focused /\ focused' = TRUE /\ Quiet /\ UNCHANGED <<draft, active, known>>

\* Leaving the box commits what was typed.
Blur == focused /\ focused' = FALSE /\ Commit(draft) /\ UNCHANGED known

Type ==
    /\ focused
    /\ draft' \in Drafts \cup {<<>>}
    /\ active' = 0
    /\ Quiet /\ UNCHANGED <<focused, known>>

\* Enter takes the highlighted row if there still is one, else the text.
Enter ==
    /\ focused
    /\ Commit(IF active \in DOMAIN Suggestions THEN AsTyped(Suggestions[active]) ELSE draft)
    /\ UNCHANGED <<focused, known>>

Space == focused /\ Commit(draft) /\ UNCHANGED <<focused, known>>

\* Escape throws the text away; in an empty box it leaves.
Escape ==
    /\ focused
    /\ Quiet
    /\ IF draft = <<>> THEN focused' = FALSE /\ UNCHANGED <<draft, active>>
       ELSE draft' = <<>> /\ active' = 0 /\ UNCHANGED focused
    /\ UNCHANGED known

Arrow ==
    /\ focused
    /\ LET len == Len(Suggestions)
       IN /\ len > 0
          /\ \/ active' = IF active = 0 THEN 1 ELSE (active % len) + 1
             \/ active' = IF active \in {0, 1} THEN len ELSE active - 1
    /\ Quiet /\ UNCHANGED <<draft, focused, known>>

Backspace ==
    /\ focused
    /\ draft = <<>> /\ tags # <<>>
    /\ RemoveTag(Last(tags))
    /\ UNCHANGED <<draft, active, focused, known>>

\* Both are pressed without the box losing its focus.
ClickRow ==
    /\ PopupOpen
    /\ \E row \in DOMAIN Suggestions : Commit(AsTyped(Suggestions[row]))
    /\ UNCHANGED <<focused, known>>

ClickRemove ==
    /\ \E k \in DOMAIN tags : RemoveTag(tags[k])
    /\ UNCHANGED <<draft, active, focused, known>>

(***************************************************************************)
(* The board                                                               *)
(***************************************************************************)

\* The server reports the card's tags: its own normalised answer, another
\* client's list, a restore.
CardUpdated ==
    /\ tags' \in Cards
    /\ said' = None
    /\ UNCHANGED <<draft, active, focused, known>>

BoardChanges ==
    /\ known' \in Boards
    /\ Quiet /\ UNCHANGED <<draft, active, focused>>

Next ==
    \/ Focus \/ Blur \/ Type \/ Enter \/ Space \/ Escape \/ Arrow \/ Backspace
    \/ ClickRow \/ ClickRemove \/ CardUpdated \/ BoardChanges

Spec == Init /\ [][Next]_vars

(***************************************************************************)
(* Properties                                                              *)
(***************************************************************************)

\* The editor and the server agree on the outcome (tag_editor.rs:64-70): a
\* list handed to the owner is stored as it stands, so the tags shown at
\* once are the tags the server reports back, however the card changed
\* under the box.
ServerKeepsTheList == said # None => said = Kept(said) /\ ~Refused(said)

\* A tag the user has finished typing is not silently dropped (:145-150):
\* when the box is emptied otherwise than by Escape, each word that was in
\* it is on the card, as typed or completed by the picked suggestion, and
\* the tags the card had are still there in their places.
FinishedTags ==
       draft # <<>> /\ draft' = <<>> /\ ~Escape =>
          \/ Type
          \/ /\ IsPrefix(tags, tags')
             /\ \A i \in DOMAIN draft :
                  draft[i].word # <<>> => \E k \in DOMAIN tags' : StartsWith(tags'[k], draft[i].word)
FinishedTagsStay == [][FinishedTags]_vars
=============================================================================
