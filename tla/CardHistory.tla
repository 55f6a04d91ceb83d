---------------------------- MODULE CardHistory ----------------------------
(***************************************************************************)
(* The edits of one card and the history they leave (backend:              *)
(* routes/cards.rs update_card and move_card, routes/cards/update.rs,      *)
(* audit.rs): a request reads the card, plans what it changes, writes it,  *)
(* and then records it, in a row of its own or merged into the newest row  *)
(* of the same stretch of editing.  No lock is held between the steps.     *)
(*                                                                         *)
(* Abstracted: texts, tag lists and places are numbers; validation, the    *)
(* board of the column, the events, and the deletion of the card           *)
(* (BoardStore has it).                                                    *)
(***************************************************************************)
EXTENDS Integers, Sequences, SequencesExt

CONSTANTS
    Handlers,        \* requests handled at the same time
    Actors,
    Sessions,        \* audit_edit_session tokens
    MaxEdits         \* bound: requests in one behaviour

NoSession == "none"
Fields == {"body", "tags", "place"}
Values == 0 .. 1
Contents == [Fields -> Values]

VARIABLES
    row,             \* the card's row
    history,         \* audit_log rows of the card, oldest created_at first
    clock,           \* the last created_at
    request,         \* request[h]: what handler h works on
    edits,
    overlapped       \* history: two requests were under way at the same time

historyVars == <<row, history, clock, request, edits, overlapped>>

Nothing == [pc |-> "idle"]
Blank == [f \in Fields |-> 0]

Init ==
    /\ row = Blank
    /\ history = <<[actor |-> NoSession, action |-> "create", session |-> NoSession,
                    before |-> Blank, after |-> Blank, restored |-> FALSE, at |-> 0]>>
    /\ clock = 0
    /\ request = [h \in Handlers |-> Nothing]
    /\ edits = 0
    /\ overlapped = FALSE

----------------------------------------------------------------------------
(* What a request asks for.                                                *)

Asked == {{"body"}, {"tags"}, {"place"}, {"body", "tags"}}

\* Some of the fields, or the content some row but a move's recorded (card_content_version).
Wishes == [fields : Asked, to : {[f \in Fields |-> v] : v \in Values}, restored : {FALSE}]
              \cup {[fields |-> {"body", "tags"}, to |-> version.after, restored |-> TRUE] :
                       version \in {e \in ToSet(history) : e.action # "move"}}

Arrives(h) ==
    /\ request[h].pc = "idle" /\ edits < MaxEdits
    /\ \E w \in Wishes, a \in Actors, s \in Sessions \cup {NoSession} :
          /\ w.restored => s = NoSession
          /\ request' = [request EXCEPT ![h] = [pc |-> "load", wish |-> w, actor |-> a, session |-> s]]
    /\ edits' = edits + 1
    /\ overlapped' = (overlapped \/ \E g \in Handlers \ {h} : request[g].pc # "idle")
    /\ UNCHANGED <<row, history, clock>>

\* What is written: tags only if they differ from the card as it was loaded.
Writes(w, card) == IF w.to["tags"] = card["tags"] /\ ~w.restored THEN w.fields \ {"tags"} ELSE w.fields

\* A change of place alone is a move.
Action(w, fields) ==
    IF w.restored THEN "restore" ELSE IF fields \subseteq {"place"} THEN "move" ELSE "update"

\* A change of the tags has a row of its own.
Session(r, fields) ==
    IF Action(r.wish, fields) = "update" /\ "tags" \notin fields THEN r.session ELSE NoSession

\* CardUpdate::plan, on the card as it is now; a restore of what the card has is refused.
Load(h) ==
    /\ request[h].pc = "load"
    /\ LET r == request[h]
           fields == Writes(r.wish, row)
           same == r.wish.restored /\ \A f \in fields : row[f] = r.wish.to[f]
       IN  request' = [request EXCEPT ![h] =
              IF fields = {} \/ same THEN Nothing
              ELSE [pc |-> "write", wish |-> r.wish, actor |-> r.actor, fields |-> fields,
                    session |-> Session(r, fields), before |-> row]]
    /\ UNCHANGED <<row, history, clock, edits, overlapped>>

Write(h) ==
    /\ request[h].pc = "write"
    /\ LET r == request[h]
       IN  /\ row' = [f \in Fields |-> IF f \in r.fields THEN r.wish.to[f] ELSE row[f]]
           /\ request' = [request EXCEPT ![h] =
                 [pc |-> IF r.session = NoSession THEN "append" ELSE "find", actor |-> r.actor,
                  session |-> r.session, action |-> Action(r.wish, r.fields), before |-> r.before,
                  after |-> row', restored |-> r.wish.restored]]
    /\ UNCHANGED <<history, clock, edits, overlapped>>

----------------------------------------------------------------------------
(* Recording it.                                                           *)

Ours(r, last) == /\ last.action = "update" /\ last.actor = r.actor /\ ~last.restored
                 /\ last.session = r.session

\* Mutant: the newest row of the stretch, not of the card.
FoundInSession(r) ==
    LET own == SelectSeq(history, LAMBDA last : Ours(r, last))
    IN  IF own = << >> THEN << >> ELSE <<Last(own)>>

\* The newest row, if it is of the same stretch by the same actor.
Found(r) == IF Ours(r, Last(history)) THEN <<Last(history)>> ELSE << >>

\* try_merge_card_update_audit reads the newest row.
Find(h) ==
    /\ request[h].pc = "find"
    /\ LET found == Found(request[h])
       IN  request' = [request EXCEPT ![h] =
              IF found = << >> THEN [@ EXCEPT !.pc = "append"]
              ELSE [actor |-> @.actor, session |-> @.session, action |-> @.action,
                    before |-> @.before, after |-> @.after, restored |-> @.restored,
                    pc |-> "merge", last |-> found[1]]]
    /\ UNCHANGED <<row, history, clock, edits, overlapped>>

\* Compare and set on created_at: the row found takes the new content and becomes the newest,
\* or nothing matches and a row of its own is due.
Merge(h) ==
    /\ request[h].pc = "merge"
    /\ LET last == request[h].last
           merged == [last EXCEPT !.after = request[h].after, !.at = clock + 1]
           found == {i \in DOMAIN history : history[i].at = last.at}
       IN  \/ /\ \E i \in found : history' = Append(RemoveAt(history, i), merged)
              /\ clock' = clock + 1
              /\ request' = [request EXCEPT ![h] = Nothing]
           \/ /\ found = {}
              /\ request' = [request EXCEPT ![h].pc = "append"]
              /\ UNCHANGED <<history, clock>>
    /\ UNCHANGED <<row, edits, overlapped>>

AppendRow(h) ==
    /\ request[h].pc = "append"
    /\ LET r == request[h]
       IN  history' = Append(history,
              [actor |-> r.actor, action |-> r.action, session |-> r.session, before |-> r.before,
               after |-> r.after, restored |-> r.restored, at |-> clock + 1])
    /\ clock' = clock + 1
    /\ request' = [request EXCEPT ![h] = Nothing]
    /\ UNCHANGED <<row, edits, overlapped>>

----------------------------------------------------------------------------

Next == \E h \in Handlers :
            Arrives(h) \/ Load(h) \/ Write(h) \/ Find(h) \/ Merge(h) \/ AppendRow(h)

Spec == Init /\ [][Next]_historyVars

----------------------------------------------------------------------------

\* Rows record contents, each created later than the one before it.
TypeOK ==
    /\ row \in Contents
    /\ \A i \in DOMAIN history : history[i].before \in Contents /\ history[i].after \in Contents
    /\ \A i, j \in DOMAIN history : i < j => history[i].at < history[j].at
    /\ \A h \in Handlers : request[h].pc \in {"idle", "load", "write", "find", "merge", "append"}

\* As long as no two requests for the card were under way together, its history reads as the
\* card changed: each row starts where the one before it ends, the newest ends with the card,
\* a row that was merged is one actor's, and no row of a stretch of editing hides a change
\* of the tags.
HistoryReads ==
    ~overlapped /\ (\A h \in Handlers : request[h].pc \in {"idle", "load", "write"}) =>
        /\ \A i \in 2 .. Len(history) : history[i].before = history[i - 1].after
        /\ Last(history).after = row
        /\ \A i \in DOMAIN history : history[i].session # NoSession =>
              history[i].before["tags"] = history[i].after["tags"]
============================================================================
