--------------------------- MODULE FrontendProofs ---------------------------
(***************************************************************************)
(* Four machines of a browser tab, for any constants.                      *)
(*                                                                         *)
(* The card editor: at rest the row has what the user typed, but for the   *)
(* causes the machine names. While nothing is excused, saves are handled   *)
(* in their order and the last one under way is of the text shown, or a    *)
(* timer will make one that is; the lists of tags likewise.                *)
(*                                                                         *)
(* The search: what is on screen passes the query or was just touched, the *)
(* marks are of what matched, and a picked completion is found.            *)
(*                                                                         *)
(* The picker: what the tab asks for while it knows the links as they are  *)
(* stands until the server handles it, and the last picks come first.      *)
(*                                                                         *)
(* The history drawer: what it holds is the table as the server read it,   *)
(* but for the rows the events that have not been heard tell of.           *)
(***************************************************************************)
EXTENDS MCFrontend, FiniteSetTheorems, SequenceTheorems, WellFoundedInduction, TLAPS

\* What a card's row can hold.
Rows == [body : Texts, tags : SUBSET Tags]

\* The types; only the card on the board leaves its list or is told of events.
Shapes ==
    /\ form \in {"inline", "modal"}
    /\ mode \in {"Collapsed", "Expanded", "Editing", "gone"} /\ (mode = "gone" => form = "inline")
    /\ made \in [Counted -> Nat]
    /\ stored \in Rows /\ card \in Rows /\ wanted \in Rows
    /\ body \in Texts /\ saved \in Texts
    /\ told \in Seq(Rows) /\ (form = "modal" => told = << >>)

\* A request has its fields, which hold what its kind of value is.
CallShape(c) ==
    c = [id |-> c.id, field |-> c.field, value |-> c.value, was |-> c.was,
         closes |-> c.closes, at |-> c.at, answer |-> c.answer]

CallTyped(c) ==
    /\ c.answer \in Rows
    /\ c.field = "body" => c.value \in Texts
    /\ c.field = "tags" => c.value \subseteq Tags /\ c.was \subseteq Tags

\* Requests are numbered as they are made.
CallsNumbered ==
    \A c \in calls :
        /\ CallShape(c) /\ CallTyped(c)
        /\ c.field \in {"body", "tags"}
        /\ c.id \in Nat /\ c.id <= made.call
        /\ \A d \in calls : c.id = d.id => c = d

\* The answer to a request that went well has the value it stored.
AnswersTrue ==
    \A c \in calls : c.at = "ok" =>
        /\ c.field = "tags" => c.answer.tags = c.value
        /\ c.field = "body" => c.answer.body = c.value

\* What holds while nothing is excused.  No request has failed.
NoneFailed == \A c \in calls : c.at \in {"sent", "ok"}

IsSave(c) == c.field = "body"
IsSentTags(c) == c.field = "tags" /\ c.at = "sent"

\* The list shown is what the edits come to, and so is the last one on its way to the server;
\* with none on its way, it is the one stored.
TagsFollow ==
    /\ card.tags = wanted.tags
    /\ (\A c \in calls : ~IsSentTags(c)) => stored.tags = wanted.tags
    /\ \A c \in calls :
          IsSentTags(c) /\ (\A d \in calls : IsSentTags(d) => d.id <= c.id) => c.value = wanted.tags

NoSaves == \A c \in calls : ~IsSave(c)

\* The last save under way is of the text; with none, it is the one stored.
LastSaves(t) ==
    /\ NoSaves => stored.body = t
    /\ \A c \in calls : IsSave(c) /\ (\A d \in calls : IsSave(d) => d.id <= c.id) => c.value = t

\* The editor is left for good; or it still saves on a timer.
Ended == mode = IF form = "inline" THEN "gone" ELSE "Collapsed"
Watches == mode = "Editing" \/ (form = "modal" /\ mode = "Expanded")

\* Saves are handled in their order: an answer not yet heard is older than what is on its way,
\* and the newest such answer has what is stored.
InOrder ==
    /\ \A c, d \in calls :
          IsSave(c) /\ c.at = "ok" /\ IsSave(d) /\ d.at = "sent" => c.id < d.id
    /\ (\A c \in calls : ~(IsSave(c) /\ c.at = "ok"))
       \/ \E c \in calls :
             /\ IsSave(c) /\ c.at = "ok" /\ stored.body = c.value
             /\ \A d \in calls : IsSave(d) /\ d.at = "ok" => d.id <= c.id

\* While the editor stands, its text is saved last, or by a timer to come.
TextKept ==
    /\ LastSaves(body) \/ (Watches /\ \E t \in timers : t.text = body)
    /\ NoSaves => stored.body = saved
    /\ InOrder

\* Once the editor is left, every save under way is of the text, and one of them, or one
\* before, stores it.
TextLeft ==
    /\ \A c \in calls : IsSave(c) => c.value = body
    /\ NoSaves => stored.body = body
    /\ (\E c \in calls : IsSave(c) /\ c.at = "ok") => stored.body = body

\* The text shown is the one typed last, and is or will be what is stored.
BodyFollows ==
    /\ body = wanted.body
    /\ IF Ended THEN TextLeft ELSE TextKept

Unexcused == NoneFailed /\ TagsFollow /\ BodyFollows

EditorInv ==
    /\ Shapes
    /\ CallsNumbered
    /\ AnswersTrue
    /\ excuse = {} => Unexcused

LEMMA InitEditor == Init => EditorInv
BY TextsAssumption
   DEF Init, EditorInv, Shapes, Rows, Row, Counted, CallsNumbered, AnswersTrue, Unexcused,
       NoneFailed, TagsFollow, BodyFollows, TextLeft, TextKept, LastSaves, NoSaves, InOrder, Ended

\* At rest, what follows has arrived.
LEMMA Ends == EditorInv => EditsStored
<1> SUFFICES ASSUME EditorInv, AtRest, excuse = {} PROVE stored = wanted
  BY DEF EditsStored
<1>1. stored.tags = wanted.tags /\ stored.body = wanted.body
  BY DEF EditorInv, AtRest, Unexcused, TagsFollow, BodyFollows, TextLeft, TextKept, LastSaves,
         NoSaves
<1>2. QED BY <1>1 DEF EditorInv, Shapes, Rows

----------------------------------------------------------------------------
(* Rows and counters.                                                      *)

LEMMA TagsChange ==
    ASSUME NEW r \in Rows, NEW x
    PROVE  /\ x \subseteq Tags => [r EXCEPT !.tags = x] \in Rows
           /\ [r EXCEPT !.tags = x].tags = x /\ [r EXCEPT !.tags = x].body = r.body
BY DEF Rows

LEMMA BodyChanges ==
    ASSUME NEW r \in Rows, NEW y
    PROVE  /\ y \in Texts => [r EXCEPT !.body = y] \in Rows
           /\ [r EXCEPT !.body = y].body = y /\ [r EXCEPT !.body = y].tags = r.tags
BY DEF Rows

LEMMA MadeChanges ==
    ASSUME made \in [Counted -> Nat]
    PROVE  /\ \A what \in Counted :
                Count(what) => made' \in [Counted -> Nat]
           /\ Count("call") => made'.call = made.call + 1
           /\ \A y \in {"input", "other"} :
                 /\ Count(y) => made'.call = made.call
                 /\ made' = [made EXCEPT !.call = @ + 1, ![y] = @ + 1] =>
                       made' \in [Counted -> Nat] /\ made'.call = made.call + 1
<1>0. made.call \in Nat /\ made.input \in Nat /\ made.other \in Nat /\ "call" \in Counted
  BY DEF Counted
<1>1. ASSUME NEW what \in Counted, Count(what) PROVE made' \in [Counted -> Nat]
  BY <1>1 DEF Count
<1>2. Count("call") => made'.call = made.call + 1
  BY <1>0 DEF Count
<1>3. ASSUME NEW y \in {"input", "other"}, Count(y) PROVE made'.call = made.call
  BY <1>0, <1>3 DEF Count
<1>4. ASSUME NEW y \in {"input", "other"}, made' = [made EXCEPT !.call = @ + 1, ![y] = @ + 1]
      PROVE  made' \in [Counted -> Nat] /\ made'.call = made.call + 1
  BY <1>0, <1>4 DEF Counted
<1>5. QED BY <1>1, <1>2, <1>3, <1>4

----------------------------------------------------------------------------
(* What a step does to the requests: nothing, a new one, one that lands.   *)

Numbered == CallsNumbered /\ AnswersTrue

LEMMA SameCalls ==
    ASSUME Numbered, calls' = calls, made'.call = made.call
    PROVE  Numbered' /\ (NoneFailed => NoneFailed')
BY DEF Numbered, CallsNumbered, AnswersTrue, NoneFailed

IsNew(n) ==
    /\ CallShape(n) /\ CallTyped(n)
    /\ n.field \in {"body", "tags"} /\ n.id = made.call + 1 /\ n.at = "sent"

\* What Call makes is a request of the kind asked for.
LEMMA CallIsNew ==
    ASSUME NEW f \in {"body", "tags"}, NEW v, NEW w, NEW b,
           f = "body" => v \in Texts, f = "tags" => v \subseteq Tags /\ w \subseteq Tags
    PROVE  LET n == Call(f, v, w, b) IN IsNew(n) /\ n.field = f /\ n.value = v
BY TextsAssumption DEF Call, IsNew, CallShape, CallTyped, Rows, Row

LEMMA NewCall ==
    ASSUME Numbered, made.call \in Nat, NEW n, IsNew(n), calls' = calls \cup {n},
           made'.call = made.call + 1
    PROVE  /\ Numbered' /\ (NoneFailed => NoneFailed')
           /\ \A c \in calls : c.id < n.id
<1>1. \A c \in calls : c.id \in Nat /\ c.id <= made.call
  BY DEF Numbered, CallsNumbered
<1>2. CallsNumbered'
  BY <1>1 DEF Numbered, CallsNumbered, IsNew
<1>3. AnswersTrue' /\ (NoneFailed => NoneFailed')
  BY DEF Numbered, AnswersTrue, NoneFailed, IsNew
<1>4. QED BY <1>1, <1>2, <1>3 DEF Numbered, IsNew

LEMMA CallLands ==
    ASSUME Numbered, NEW c, calls' = calls \ {c}, made'.call = made.call
    PROVE  Numbered' /\ (NoneFailed => NoneFailed')
BY DEF Numbered, CallsNumbered, AnswersTrue, NoneFailed

\* A request of another kind, or none, changes nothing for the text.
LEMMA TagsKept ==
    ASSUME TagsFollow, card'.tags = wanted'.tags, wanted'.tags = wanted.tags,
           stored'.tags = stored.tags,
           \A c : c \in calls /\ IsSentTags(c) <=> c \in calls' /\ IsSentTags(c)
    PROVE  TagsFollow'
BY DEF TagsFollow

LEMMA TextKeeps ==
    ASSUME LastSaves(body), stored'.body = stored.body, body' = body,
           \A c : c \in calls /\ IsSave(c) <=> c \in calls' /\ IsSave(c)
    PROVE  LastSaves(body)'
BY DEF LastSaves, NoSaves

LEMMA OrderKeeps ==
    ASSUME InOrder, stored'.body = stored.body,
           \A c : c \in calls /\ IsSave(c) <=> c \in calls' /\ IsSave(c)
    PROVE  InOrder'
BY DEF InOrder

----------------------------------------------------------------------------
(* The user's steps.                                                       *)

LEMMA ExpandKeeps == ASSUME EditorInv, Expand PROVE EditorInv'
<1> USE DEF EditorInv
<1>1. UNCHANGED <<stored, told, form, card, body, saved, status, timers, calls, wanted, excuse>>
      /\ made'.call = made.call /\ made' \in [Counted -> Nat]
      /\ mode = "Collapsed" /\ mode' = "Expanded" /\ form = "inline"
  BY MadeChanges DEF Expand, Shapes, Counted
<1>2. Shapes'
  BY <1>1 DEF Shapes
<1>3. Numbered' /\ (NoneFailed => NoneFailed')
  BY <1>1, SameCalls DEF Numbered
<1>4. ASSUME excuse' = {} PROVE TagsFollow' /\ BodyFollows'
  <2>1. TagsFollow'
    BY <1>1, <1>4 DEF Unexcused, TagsFollow
  <2>2. LastSaves(body)' /\ InOrder'
    BY <1>1, <1>4 DEF Unexcused, BodyFollows, TextKept, Watches, Ended, LastSaves, NoSaves, InOrder
  <2>3. BodyFollows'
    BY <1>1, <1>4, <2>2 DEF Unexcused, BodyFollows, TextKept, Ended, NoSaves
  <2>4. QED BY <2>1, <2>3
<1>5. QED BY <1>1, <1>2, <1>3, <1>4 DEF Unexcused, Numbered

LEMMA EditKeeps == ASSUME EditorInv, Edit PROVE EditorInv'
<1> USE DEF EditorInv
<1>1. UNCHANGED <<stored, told, form, card, body, saved, status, timers, calls, wanted, excuse>>
      /\ made'.call = made.call /\ made' \in [Counted -> Nat]
      /\ mode = "Expanded" /\ mode' = "Editing"
  BY MadeChanges DEF Edit, Shapes, Counted
<1>2. Shapes'
  BY <1>1 DEF Shapes
<1>3. Numbered' /\ (NoneFailed => NoneFailed')
  BY <1>1, SameCalls DEF Numbered
<1>4. ASSUME excuse' = {} PROVE TagsFollow' /\ BodyFollows'
  <2>1. TagsFollow'
    BY <1>1, <1>4 DEF Unexcused, TagsFollow
  <2>2. (LastSaves(body)' <=> LastSaves(body)) /\ (InOrder' <=> InOrder)
    BY <1>1 DEF LastSaves, NoSaves, InOrder
  <2>3. BodyFollows'
    BY <1>1, <1>4, <2>2 DEF Unexcused, BodyFollows, TextKept, Ended, NoSaves, Watches, Shapes
  <2>4. QED BY <2>1, <2>3
<1>5. QED BY <1>1, <1>2, <1>3, <1>4 DEF Unexcused, Numbered

LEMMA TypeKeeps == ASSUME EditorInv, Type PROVE EditorInv'
<1> USE DEF EditorInv
<1>1. PICK t \in Texts :
         /\ body' = t /\ wanted' = [wanted EXCEPT !.body = t]
         /\ timers' = timers \cup {[n |-> made.input, text |-> t]}
  BY DEF Type
<1>2. UNCHANGED <<stored, told, form, mode, card, saved, calls, excuse>>
      /\ made'.call = made.call /\ made' \in [Counted -> Nat] /\ mode = "Editing"
      /\ wanted' \in Rows /\ wanted'.body = t /\ wanted'.tags = wanted.tags
  <2>1. wanted' \in Rows /\ wanted'.body = t /\ wanted'.tags = wanted.tags
    BY <1>1, TagsChange, BodyChanges DEF Shapes
  <2>2. made'.call = made.call /\ made' \in [Counted -> Nat]
    BY MadeChanges DEF Type, Shapes, Counted
  <2>3. QED BY <2>1, <2>2 DEF Type
<1>3. Shapes'
  BY <1>1, <1>2 DEF Shapes
<1>4. Numbered' /\ (NoneFailed => NoneFailed')
  BY <1>2, SameCalls DEF Numbered
<1>5. ASSUME excuse' = {} PROVE TagsFollow' /\ BodyFollows'
  <2>1. TagsFollow'
    BY <1>2, <1>5 DEF Unexcused, TagsFollow
  <2>2. InOrder' <=> InOrder
    BY <1>2 DEF InOrder
  <2>3. \E x \in timers' : x.text = body'
    <3>1. [n |-> made.input, text |-> t] \in timers'
      BY <1>1
    <3>2. QED BY <1>1, <3>1
  <2>4. BodyFollows'
    BY <1>1, <1>2, <1>5, <2>2, <2>3
       DEF Unexcused, BodyFollows, TextKept, Ended, NoSaves, Watches, Shapes
  <2>5. QED BY <2>1, <2>4
<1>6. QED BY <1>2, <1>3, <1>4, <1>5 DEF Unexcused, Numbered

\* The text is saved by a new request, which is the last one.
LEMMA SavedText ==
    ASSUME Numbered, made.call \in Nat, InOrder, NEW n, IsNew(n), IsSave(n), n.value = body,
           calls' = calls \cup {n}, UNCHANGED <<stored, body>>, made'.call = made.call + 1
    PROVE  LastSaves(body)' /\ ~NoSaves' /\ InOrder'
<1>1. \A c \in calls : c.id < n.id /\ c.id \in Nat
  BY NewCall DEF Numbered, CallsNumbered
<1>2. n.id \in Nat
  BY DEF IsNew
<1>3. \A c \in calls' : c # n => c.id < n.id /\ c.id \in Nat
  BY <1>1
<1>4. n \in calls' /\ LastSaves(body)' /\ ~NoSaves'
  BY <1>2, <1>3 DEF LastSaves, NoSaves
<1>5. n.at = "sent"
  BY DEF IsNew
<1>6. \A c \in calls' : c.at = "ok" => c \in calls
  BY <1>5
<1>7. InOrder'
  BY <1>1, <1>5, <1>6 DEF InOrder
<1>8. QED BY <1>4, <1>7

\* What leaving comes to: the text is saved, or was.
LEMMA LeaveKeeps ==
    ASSUME EditorInv, NEW m, Leave(m), m \in {"Collapsed", "Expanded"}, form = "inline",
           mode \in {"Expanded", "Editing"},
           UNCHANGED <<stored, told, form, card, body, saved, timers, wanted>>
    PROVE  EditorInv'
<1> USE DEF EditorInv
<1>1. Shapes'
  BY MadeChanges DEF Shapes, Leave, Counted
<1>2. CASE body # saved
  <2> DEFINE n == Call("body", body, 0, FALSE)
  <2>0. body \in Texts
    BY DEF Shapes
  <2>1. IsNew(n) /\ IsSave(n) /\ n.value = body /\ ~IsSentTags(n)
    <3>1. ASSUME NEW b
          PROVE  LET c == Call("body", body, 0, b)
                 IN  IsNew(c) /\ IsSave(c) /\ c.value = body /\ ~IsSentTags(c)
      BY <2>0, CallIsNew DEF IsSave, IsSentTags
    <3>2. QED BY <3>1, Zenon
  <2>2. calls' = calls \cup {n} /\ made'.call = made.call + 1 /\ mode' = m
        /\ made.call \in Nat /\ excuse' = excuse \cup Because(Undone, "undone")
    <3>0. made \in [Counted -> Nat]
      BY DEF Shapes
    <3>1. made.call \in Nat /\ made \in [Counted -> Nat]
      BY <3>0 DEF Counted
    <3>2. Count("call")
      BY <1>2 DEF Leave
    <3>3. QED BY <1>2, <3>1, <3>2, MadeChanges DEF Leave
  <2> HIDE DEF n
  <2>3. Numbered' /\ (NoneFailed => NoneFailed')
    BY <2>1, <2>2, NewCall DEF Numbered
  <2>4. ASSUME excuse' = {} PROVE TagsFollow' /\ BodyFollows'
    <3>0. excuse = {}
      BY <2>2, <2>4
    <3>1. TagsFollow'
      BY <2>1, <2>2, <3>0, TagsKept DEF Unexcused, TagsFollow
    <3>2. InOrder
      BY <3>0 DEF Unexcused, BodyFollows, TextKept, Ended
    <3>3. LastSaves(body)' /\ ~NoSaves' /\ InOrder'
      BY <2>1, <2>2, <3>2, SavedText DEF Numbered
    <3>4. BodyFollows'
      BY <2>2, <3>0, <3>3 DEF Unexcused, BodyFollows, TextKept, Ended
    <3>5. QED BY <3>1, <3>4
  <2>5. QED BY <1>1, <2>2, <2>3, <2>4 DEF Unexcused, Numbered
<1>3. CASE body = saved
  <2>1. UNCHANGED <<calls, made>> /\ mode' = m /\ excuse' = excuse \cup Because(Undone, "undone")
    BY <1>3 DEF Leave
  <2>2. Numbered' /\ (NoneFailed => NoneFailed')
    BY <2>1, SameCalls DEF Numbered
  <2>3. ASSUME excuse' = {} PROVE TagsFollow' /\ BodyFollows'
    <3>0. excuse = {} /\ ~Undone
      BY <2>1, <2>3 DEF Because
    <3>1. TagsFollow'
      BY <2>1, <3>0 DEF Unexcused, TagsFollow
    <3>2. TextKept /\ body = wanted.body
      BY <3>0 DEF Unexcused, BodyFollows, TextKept, Ended
    <3>3. \A c \in calls : IsSave(c) => c.value = body
      BY <1>3, <3>0 DEF Undone, Saves, IsSave
    <3>4. LastSaves(body)
      BY <1>3, <3>2, <3>3 DEF TextKept, LastSaves, NoSaves
    <3>5. (LastSaves(body)' <=> LastSaves(body)) /\ (InOrder' <=> InOrder)
      BY <2>1 DEF LastSaves, NoSaves, InOrder
    <3>6. BodyFollows'
      BY <2>1, <3>2, <3>4, <3>5 DEF BodyFollows, TextKept, Ended, NoSaves
    <3>7. QED BY <3>1, <3>6
  <2>4. QED BY <1>1, <2>1, <2>2, <2>3 DEF Unexcused, Numbered
<1>4. QED BY <1>2, <1>3

LEMMA BlurKeeps == ASSUME EditorInv, Blur PROVE EditorInv'
<1> USE DEF EditorInv
<1>1. CASE form = "inline"
  BY <1>1, LeaveKeeps DEF Blur
<1>2. CASE form = "modal"
  <2>1. UNCHANGED <<stored, told, form, card, body, saved, timers, wanted, calls, status, made,
                    excuse>>
        /\ mode = "Editing" /\ mode' = "Expanded"
    BY <1>2 DEF Blur
  <2>2. Shapes'
    BY <2>1 DEF Shapes
  <2>3. Numbered' /\ (NoneFailed => NoneFailed')
    BY <2>1, SameCalls DEF Numbered
  <2>4. ASSUME excuse' = {} PROVE TagsFollow' /\ BodyFollows'
    <3>1. TagsFollow'
      BY <2>1, <2>4 DEF Unexcused, TagsFollow
    <3>2. (LastSaves(body)' <=> LastSaves(body)) /\ (InOrder' <=> InOrder)
      BY <2>1 DEF LastSaves, NoSaves, InOrder
    <3>3. BodyFollows'
      BY <1>2, <2>1, <2>4, <3>2 DEF Unexcused, BodyFollows, TextKept, Ended, NoSaves, Watches
    <3>4. QED BY <3>1, <3>3
  <2>5. QED BY <2>1, <2>2, <2>3, <2>4 DEF Unexcused, Numbered
<1>3. QED BY <1>1, <1>2 DEF Shapes

LEMMA CollapseKeeps == ASSUME EditorInv, Collapse PROVE EditorInv'
BY LeaveKeeps DEF Collapse

\* A request to store the text, with nothing else changed but the status.
LEMMA SaveStep ==
    ASSUME EditorInv, NEW closes, ~Ended,
           calls' = calls \cup {Call("body", body, 0, closes)},
           made' \in [Counted -> Nat], made'.call = made.call + 1,
           UNCHANGED <<stored, told, form, mode, card, body, saved, wanted, excuse>>
    PROVE  EditorInv'
<1> USE DEF EditorInv
<1> DEFINE n == Call("body", body, 0, closes)
<1>1. IsNew(n) /\ IsSave(n) /\ n.value = body /\ ~IsSentTags(n)
  BY CallIsNew DEF IsSave, IsSentTags, Shapes
<1>2. calls' = calls \cup {n} /\ made.call \in Nat
  BY DEF Shapes, Counted
<1> HIDE DEF n
<1>3. Numbered' /\ (NoneFailed => NoneFailed')
  BY <1>1, <1>2, NewCall DEF Numbered
<1>4. Shapes'
  BY DEF Shapes
<1>5. ASSUME excuse' = {} PROVE TagsFollow' /\ BodyFollows'
  <2>1. TagsFollow'
    BY <1>1, <1>2, <1>5, TagsKept DEF Unexcused, TagsFollow
  <2>2. InOrder
    BY <1>5 DEF Unexcused, BodyFollows, TextKept, Ended
  <2>3. LastSaves(body)' /\ ~NoSaves' /\ InOrder'
    BY <1>1, <1>2, <2>2, SavedText DEF Numbered
  <2>4. BodyFollows'
    BY <1>5, <2>3 DEF Unexcused, BodyFollows, TextKept, Ended
  <2>5. QED BY <2>1, <2>4
<1>6. QED BY <1>3, <1>4, <1>5 DEF Unexcused, Numbered

LEMMA TimerKeeps == ASSUME EditorInv, TimerFires PROVE EditorInv'
<1> USE DEF EditorInv
<1>1. PICK t \in timers :
         /\ timers' = timers \ {t}
         /\ IF body = t.text /\ mode \in (IF form = "inline" THEN {"Editing"}
                                          ELSE {"Editing", "Expanded"})
            THEN /\ calls' = calls \cup {Call("body", body, 0, FALSE)}
                 /\ status' = "Saving"
                 /\ Count("call")
            ELSE UNCHANGED <<calls, status, made>>
  BY DEF TimerFires
<1>2. UNCHANGED <<stored, told, form, mode, card, body, saved, wanted, excuse>>
  BY DEF TimerFires
<1>3. CASE body = t.text /\ Watches
  <2>1. calls' = calls \cup {Call("body", body, 0, FALSE)} /\ Count("call")
    BY <1>1, <1>3 DEF Watches, Shapes
  <2>2. made' \in [Counted -> Nat] /\ made'.call = made.call + 1
    BY <2>1, MadeChanges DEF Shapes, Counted
  <2>3. QED BY <1>2, <1>3, <2>1, <2>2, SaveStep DEF Watches, Ended, Shapes
<1>4. CASE ~(body = t.text /\ Watches)
  <2>1. UNCHANGED <<calls, made>>
    BY <1>1, <1>4 DEF Watches, Shapes
  <2>2. Shapes'
    BY <1>2, <2>1 DEF Shapes
  <2>3. Numbered' /\ (NoneFailed => NoneFailed')
    BY <2>1, SameCalls DEF Numbered
  <2>4. ASSUME excuse' = {} PROVE TagsFollow' /\ BodyFollows'
    <3>1. TagsFollow'
      BY <1>2, <2>1, <2>4 DEF Unexcused, TagsFollow
    <3>2. (LastSaves(body)' <=> LastSaves(body)) /\ (InOrder' <=> InOrder)
          /\ (NoSaves' <=> NoSaves) /\ (TextLeft' <=> TextLeft) /\ (Watches' <=> Watches)
          /\ (Ended' <=> Ended)
      BY <1>2, <2>1 DEF LastSaves, NoSaves, InOrder, TextLeft, Watches, Ended
    <3>3. \A x \in timers : x.text = body /\ Watches => x \in timers'
      BY <1>1, <1>4
    <3>4. BodyFollows'
      BY <1>2, <2>4, <3>2, <3>3 DEF Unexcused, BodyFollows, TextKept
    <3>5. QED BY <3>1, <3>4
  <2>5. QED BY <1>2, <2>2, <2>3, <2>4 DEF Unexcused, Numbered
<1>5. QED BY <1>3, <1>4

\* What is left with its text saved ends well.
LEMMA LeftSaved ==
    ASSUME TextKept, body = saved, ~Undone, UNCHANGED <<stored, calls, body>>, InOrder
    PROVE  TextLeft'
<1>1. \A c \in calls : IsSave(c) => c.value = body
  BY DEF Undone, Saves, IsSave
<1>2. NoSaves => stored.body = body
  BY DEF TextKept
<1>3. (\E c \in calls : IsSave(c) /\ c.at = "ok") => stored.body = body
  BY <1>1 DEF InOrder
<1>4. QED BY <1>1, <1>2, <1>3 DEF TextLeft, NoSaves

LEMMA CloseKeeps == ASSUME EditorInv, Close PROVE EditorInv'
<1> USE DEF EditorInv
<1>1. form = "modal" /\ mode \in {"Expanded", "Editing"}
      /\ UNCHANGED <<stored, told, form, body, saved, timers, wanted>>
  BY DEF Close
<1>2. CASE body # saved
  <2>1. /\ calls' = calls \cup {Call("body", body, 0, TRUE)}
        /\ made' = [made EXCEPT !.call = @ + 1, !.other = @ + 1]
        /\ UNCHANGED <<mode, card, excuse>>
    BY <1>2 DEF Close
  <2>2. made' \in [Counted -> Nat] /\ made'.call = made.call + 1
    <3>1. made \in [Counted -> Nat]
      BY DEF Shapes
    <3>2. made.call \in Nat /\ made.other \in Nat
      BY <3>1 DEF Counted
    <3>3. QED BY <2>1, <3>1, MadeChanges
  <2>3. QED BY <1>1, <2>1, <2>2, SaveStep DEF Ended
<1>3. CASE body = saved
  <2>1. UNCHANGED <<calls, made, card>> /\ mode' = "Collapsed"
        /\ excuse' = excuse \cup Because(Undone, "undone")
    BY <1>3 DEF Close
  <2>2. Shapes'
    BY <1>1, <2>1 DEF Shapes
  <2>3. Numbered' /\ (NoneFailed => NoneFailed')
    BY <2>1, SameCalls DEF Numbered
  <2>4. ASSUME excuse' = {} PROVE TagsFollow' /\ BodyFollows'
    <3>0. excuse = {} /\ ~Undone
      BY <2>1, <2>4 DEF Because
    <3>1. TagsFollow'
      BY <1>1, <2>1, <3>0 DEF Unexcused, TagsFollow
    <3>2. TextKept /\ body = wanted.body /\ InOrder
      BY <1>1, <3>0 DEF Unexcused, BodyFollows, TextKept, Ended
    <3>3. TextLeft'
      BY <1>1, <1>3, <2>1, <3>0, <3>2, LeftSaved
    <3>4. BodyFollows'
      BY <1>1, <2>1, <3>2, <3>3 DEF BodyFollows, Ended
    <3>5. QED BY <3>1, <3>4
  <2>5. QED BY <2>1, <2>2, <2>3, <2>4 DEF Unexcused, Numbered
<1>4. QED BY <1>2, <1>3

LEMMA UnmountKeeps == ASSUME EditorInv, Unmount PROVE EditorInv'
<1> USE DEF EditorInv
<1>1. form = "inline" /\ mode # "gone" /\ mode' = "gone" /\ timers' = {}
      /\ UNCHANGED <<stored, told, form, card, body, saved, status, calls, made, wanted>>
      /\ excuse' = excuse \cup Because(body # saved \/ Undone, "unmounted")
  BY DEF Unmount
<1>2. Shapes'
  BY <1>1 DEF Shapes
<1>3. Numbered' /\ (NoneFailed => NoneFailed')
  BY <1>1, SameCalls DEF Numbered
<1>4. ASSUME excuse' = {} PROVE TagsFollow' /\ BodyFollows'
  <2>0. excuse = {} /\ body = saved /\ ~Undone
    BY <1>1, <1>4 DEF Because
  <2>1. TagsFollow'
    BY <1>1, <2>0 DEF Unexcused, TagsFollow
  <2>2. TextKept /\ body = wanted.body /\ InOrder
    BY <1>1, <2>0 DEF Unexcused, BodyFollows, TextKept, Ended
  <2>3. TextLeft'
    BY <1>1, <2>0, <2>2, LeftSaved
  <2>4. BodyFollows'
    BY <1>1, <2>2, <2>3 DEF BodyFollows, Ended
  <2>5. QED BY <2>1, <2>4
<1>5. QED BY <1>1, <1>2, <1>3, <1>4 DEF Unexcused, Numbered

\* An effect follows the card: the text shown and the one saved either stay or become the
\* card's, and then, but for an excuse, they are those that stand.
Follows ==
    \/ UNCHANGED <<body, saved>>
    \/ body' = body /\ saved' = body /\ (~Watches \/ timers = {})

\* With the row and the saves as they were, the text follows still.
LEMMA FollowedText ==
    ASSUME BodyFollows, UNCHANGED <<timers, form>>, stored'.body = stored.body,
           wanted'.body = wanted.body, Follows,
           mode' = mode \/ (form = "modal" /\ mode = "Editing" /\ mode' = "Expanded"),
           \A c : c \in calls /\ IsSave(c) <=> c \in calls' /\ IsSave(c)
    PROVE  BodyFollows'
<1>1. body' = body /\ (Ended' <=> Ended) /\ (NoSaves' <=> NoSaves) /\ (Watches' <=> Watches)
  BY DEF Follows, Ended, NoSaves, Watches
<1>2. (LastSaves(body)' <=> LastSaves(body))
  BY <1>1 DEF LastSaves
<1>3. InOrder => InOrder'
  BY OrderKeeps
<1>4. CASE Ended
  BY <1>1, <1>4 DEF BodyFollows, TextLeft
<1>5. CASE ~Ended /\ UNCHANGED saved
  BY <1>1, <1>2, <1>3, <1>5 DEF BodyFollows, TextKept
<1>6. CASE ~Ended /\ saved' = body /\ (~Watches \/ timers = {})
  <2>1. LastSaves(body) /\ (NoSaves => stored.body = body)
    BY <1>6 DEF BodyFollows, TextKept, LastSaves
  <2>2. QED BY <1>1, <1>2, <1>3, <1>6, <2>1 DEF BodyFollows, TextKept
<1>7. QED BY <1>4, <1>5, <1>6 DEF Follows

LEMMA ToggleKeeps == ASSUME EditorInv, NEW x \in Tags, Toggle(x) PROVE EditorInv'
<1> USE DEF EditorInv
<1> DEFINE next == With(card.tags, x)
           n == Call("tags", next, card.tags, FALSE)
<1>1. card.tags \subseteq Tags /\ next \subseteq Tags
  BY DEF Shapes, Rows, With
<1>2. IsNew(n) /\ n.value = next /\ ~IsSave(n) /\ IsSentTags(n)
  <2>1. ASSUME NEW b
        PROVE  LET c == Call("tags", next, card.tags, b)
               IN  IsNew(c) /\ c.value = next /\ ~IsSave(c) /\ IsSentTags(c)
    BY <1>1, CallIsNew DEF IsSave, IsSentTags, IsNew
  <2>2. QED BY <2>1, Zenon
<1>3. ShowTags(next) /\ calls' = calls \cup {n} /\ wanted' = [wanted EXCEPT !.tags = With(@, x)]
      /\ UNCHANGED <<stored, told, form, timers>> /\ mode # "gone"
      /\ excuse' = excuse \cup Because(form = "modal" /\ Wiped(body'), "wiped")
                          \cup Because(form = "inline" /\ Taken(body'), "echoed")
  BY DEF Toggle
<1>4. made' \in [Counted -> Nat] /\ made'.call = made.call + 1 /\ made.call \in Nat
  <2>1. made \in [Counted -> Nat]
    BY DEF Shapes
  <2>2. made' = [made EXCEPT !.input = @ + 1, !.call = @ + 1]
    BY DEF Toggle
  <2>3. made' = [made EXCEPT !.call = @ + 1, !.input = @ + 1]
    BY <2>1, <2>2 DEF Counted
  <2>4. made.call \in Nat
    BY <2>1 DEF Counted
  <2>5. QED BY <2>1, <2>3, <2>4, MadeChanges
<1> DEFINE shown == [card EXCEPT !.tags = next]
<1>5. shown \in Rows /\ shown.tags = next /\ shown.body = card.body
  BY <1>1, TagsChange, BodyChanges DEF Shapes
<1>6. card' = shown /\ (UNCHANGED <<body, saved>> \/ (body' = card.body /\ saved' = card.body))
      /\ (form = "modal" => body' = card.body /\ saved' = card.body)
      /\ (mode' = mode \/ (form = "modal" /\ mode = "Editing" /\ mode' = "Expanded"))
      /\ (form = "inline" /\ mode = "Editing" => UNCHANGED <<body, saved>>)
  <2> HIDE DEF next
  <2>1. IF form = "inline" THEN SyncInline(shown) /\ UNCHANGED <<status, mode>>
        ELSE ResetModal(shown)
    BY <1>3 DEF ShowTags
  <2> HIDE DEF shown
  <2>2. CASE form = "inline"
    BY <1>5, <2>1, <2>2 DEF SyncInline
  <2>3. CASE form = "modal"
    BY <1>5, <2>1, <2>3 DEF ResetModal
  <2>4. QED BY <2>2, <2>3 DEF Shapes
<1> HIDE DEF next, n, shown
<1>7. wanted' \in Rows /\ wanted'.tags = With(wanted.tags, x) /\ wanted'.body = wanted.body
  <2>1. wanted' = [wanted EXCEPT !.tags = With(wanted.tags, x)]
        /\ With(wanted.tags, x) \subseteq Tags /\ wanted \in Rows
    BY <1>3 DEF Shapes, Rows, With
  <2>2. QED BY <2>1, TagsChange, BodyChanges
<1>8. Shapes'
  <2>1. card.body \in Texts
    BY DEF Shapes, Rows
  <2>2. QED BY <1>3, <1>4, <1>5, <1>6, <1>7, <2>1 DEF Shapes
<1>9. Numbered' /\ (NoneFailed => NoneFailed')
  BY <1>2, <1>3, <1>4, NewCall DEF Numbered
<1>10. ASSUME excuse' = {} PROVE TagsFollow' /\ BodyFollows'
  <2>0. excuse = {} /\ (form = "modal" => ~Wiped(body')) /\ (form = "inline" => ~Taken(body'))
    BY <1>3, <1>10 DEF Because
  <2>1. TagsFollow /\ BodyFollows /\ body = wanted.body
    BY <2>0 DEF Unexcused, BodyFollows
  <2>2. \A c \in calls : c.id < n.id /\ c.id \in Nat
    BY <1>2, <1>3, <1>4, NewCall DEF Numbered, CallsNumbered
  <2>3. TagsFollow'
    <3>1. n.value = wanted'.tags /\ card'.tags = wanted'.tags
      BY <1>2, <1>5, <1>6, <1>7, <2>1 DEF TagsFollow, next
    <3>2. \A c \in calls' : c # n => c.id < n.id /\ c.id \in Nat
      BY <1>3, <2>2
    <3>3. n \in calls' /\ n.id \in Nat
      BY <1>2, <1>3, <1>4 DEF IsNew
    <3>4. QED BY <1>2, <3>1, <3>2, <3>3 DEF TagsFollow
  <2>4. Follows
    BY <1>6, <2>0, <2>1 DEF Follows, Wiped, Taken, Watches, Shapes
  <2>5. BodyFollows'
    BY <1>2, <1>3, <1>6, <1>7, <2>1, <2>4, FollowedText
  <2>6. QED BY <2>3, <2>5
<1>11. QED BY <1>8, <1>9, <1>10, <1>3 DEF Unexcused, Numbered, Because

----------------------------------------------------------------------------
(* The server's, and what comes back.                                      *)

LEMMA HearKeeps == ASSUME EditorInv, Hear PROVE EditorInv'
<1> USE DEF EditorInv
<1>1. told # << >> /\ told' = Tail(told)
      /\ UNCHANGED <<stored, form, mode, status, timers, calls, made, wanted>>
  BY DEF Hear
<1>2. form = "inline" /\ Head(told) \in Rows /\ Tail(told) \in Seq(Rows)
  BY <1>1 DEF Shapes
<1>3. Numbered' /\ (NoneFailed => NoneFailed')
  BY <1>1, SameCalls DEF Numbered
<1>4. CASE mode = "gone"
  <2>1. UNCHANGED <<card, body, saved, excuse>>
    BY <1>4 DEF Hear
  <2>2. Shapes'
    BY <1>1, <1>2, <2>1 DEF Shapes
  <2>3. ASSUME excuse' = {} PROVE TagsFollow' /\ BodyFollows'
    <3>1. TagsFollow'
      BY <1>1, <2>1, <2>3 DEF Unexcused, TagsFollow
    <3>2. BodyFollows'
      BY <1>1, <2>1, <2>3, FollowedText DEF Unexcused, Follows
    <3>3. QED BY <3>1, <3>2
  <2>4. QED BY <1>3, <2>1, <2>2, <2>3 DEF Unexcused, Numbered
<1>5. CASE mode # "gone"
  <2>1. card' = Head(told) /\ excuse' = excuse \cup Because(Taken(body'), "echoed")
                                          \cup Because(Replaced(card'.tags), "replaced")
        /\ IF mode # "Editing" THEN body' = Head(told).body /\ saved' = Head(told).body
           ELSE UNCHANGED <<body, saved>>
    BY <1>5 DEF Hear, SyncInline
  <2>2. Shapes'
    <3>1. Head(told).body \in Texts
      BY <1>2 DEF Rows
    <3>2. QED BY <1>1, <1>2, <2>1, <3>1 DEF Shapes
  <2>3. ASSUME excuse' = {} PROVE TagsFollow' /\ BodyFollows'
    <3>0. excuse = {} /\ ~Taken(body') /\ ~Replaced(card'.tags)
      BY <2>1, <2>3 DEF Because
    <3>1. TagsFollow /\ BodyFollows /\ body = wanted.body /\ card.tags = wanted.tags
      BY <3>0 DEF Unexcused, BodyFollows, TagsFollow
    <3>2. TagsFollow'
      BY <1>1, <3>0, <3>1, TagsKept DEF Replaced
    <3>3. Follows
      BY <1>2, <2>1, <3>0, <3>1 DEF Follows, Taken, Watches
    <3>4. BodyFollows'
      BY <1>1, <3>1, <3>3, FollowedText
    <3>5. QED BY <3>2, <3>4
  <2>4. QED BY <1>3, <2>1, <2>2, <2>3 DEF Unexcused, Numbered, Because
<1>6. QED BY <1>4, <1>5

LEMMA ForeignKeeps == ASSUME EditorInv, Foreign PROVE EditorInv'
<1> USE DEF EditorInv
<1>1. PICK t \in Texts : stored' = [stored EXCEPT !.body = t]
  BY DEF Foreign
<1>2. stored' \in Rows /\ made' \in [Counted -> Nat] /\ made'.call = made.call
  <2>1. stored \in Rows /\ made \in [Counted -> Nat] /\ Count("other")
    BY DEF Shapes, Foreign
  <2>2. QED BY <1>1, <2>1, TagsChange, BodyChanges, MadeChanges DEF Counted
<1>3. "foreign" \in excuse' /\ UNCHANGED <<form, mode, card, body, saved, timers, calls, wanted>>
      /\ ((told' = Append(told, stored') /\ form = "inline") \/ told' = told)
  BY DEF Foreign
<1>4. Shapes'
  <2>1. told' \in Seq(Rows) /\ (form = "modal" => told' = << >>)
    <3>1. told \in Seq(Rows) /\ (form = "modal" => told = << >>)
      BY DEF Shapes
    <3>2. CASE told' = told
      BY ONLY <1>3, <3>1, <3>2
    <3>3. CASE told' = Append(told, stored') /\ form = "inline"
      <4>1. told \in Seq(Rows) /\ stored' \in Rows
        BY <1>2, <3>1
      <4>2. Append(told, stored') \in Seq(Rows)
        BY ONLY <4>1, AppendProperties
      <4>3. form' # "modal"
        BY <1>3, <3>3
      <4>4. QED BY ONLY <3>3, <4>2, <4>3
    <3>4. QED BY <1>3, <3>2, <3>3
  <2>2. QED BY <1>2, <1>3, <2>1 DEF Shapes
<1>5. Numbered'
  BY <1>2, <1>3, SameCalls DEF Numbered
<1>6. QED BY <1>3, <1>4, <1>5 DEF Numbered

\* A request whose fields stay but for how far it is.
LEMMA CallMarked ==
    ASSUME Numbered, NEW c \in calls, NEW d, CallShape(d), CallTyped(d),
           d.id = c.id, d.field = c.field, d.value = c.value, d.was = c.was,
           d.at = "ok" => (d.field = "tags" => d.answer.tags = d.value)
                          /\ (d.field = "body" => d.answer.body = d.value),
           calls' = (calls \ {c}) \cup {d}, made'.call = made.call
    PROVE  Numbered'
<1>1. CallsNumbered'
  BY DEF Numbered, CallsNumbered
<1>2. AnswersTrue'
  BY DEF Numbered, AnswersTrue
<1>3. QED BY <1>1, <1>2 DEF Numbered

LEMMA LoseKeeps == ASSUME EditorInv, NEW c \in calls, Lose(c) PROVE EditorInv'
<1> USE DEF EditorInv
<1> DEFINE d == [c EXCEPT !.at = "failed"]
<1>1. CallShape(c) /\ CallTyped(c)
  BY DEF CallsNumbered
<1>2. CallShape(d) /\ CallTyped(d) /\ d.id = c.id /\ d.field = c.field /\ d.value = c.value
      /\ d.was = c.was /\ d.at = "failed"
  BY <1>1 DEF CallShape, CallTyped
<1>3. made' \in [Counted -> Nat] /\ made'.call = made.call
  <2>1. made \in [Counted -> Nat] /\ Count("other")
    BY DEF Shapes, Lose
  <2>2. QED BY <2>1, MadeChanges DEF Counted
<1>4. calls' = (calls \ {c}) \cup {d} /\ "failed" \in excuse'
      /\ UNCHANGED <<stored, told, form, mode, card, body, saved, status, timers, wanted>>
  BY DEF Lose
<1> HIDE DEF d
<1>5. Shapes'
  BY <1>3, <1>4 DEF Shapes
<1>6. Numbered'
  BY <1>2, <1>3, <1>4, CallMarked DEF Numbered
<1>7. QED BY <1>4, <1>5, <1>6 DEF Numbered

\* A save that is handled in its turn.
LEMMA SaveHandled ==
    ASSUME Numbered, BodyFollows, NEW c \in calls, IsSave(c), c.at = "sent", ~Overtakes(c),
           NEW d, d.id = c.id, IsSave(d), d.value = c.value, d.at = "ok",
           calls' = (calls \ {c}) \cup {d}, stored'.body = c.value,
           UNCHANGED <<form, mode, body, saved, timers, wanted>>
    PROVE  BodyFollows'
<1>1. \A e \in calls : IsSave(e) /\ e.at = "sent" /\ e # c => c.id < e.id
  BY DEF Numbered, CallsNumbered, Overtakes, IsSave
<1>2. CASE Ended
  BY <1>2 DEF BodyFollows, TextLeft, Ended, NoSaves
<1>3. CASE ~Ended
  <2>1. TextKept /\ ~Ended' /\ (Watches' <=> Watches) /\ body' = wanted'.body
    BY <1>3 DEF BodyFollows, Ended, Watches
  <2>2. ~NoSaves /\ ~NoSaves'
    BY DEF NoSaves
  <2>3. LastSaves(body) => LastSaves(body)'
    BY <2>2 DEF LastSaves
  <2>4. InOrder'
    <3>1. \A a, b \in calls' : IsSave(a) /\ a.at = "ok" /\ IsSave(b) /\ b.at = "sent" => a.id < b.id
      BY <1>1, <2>1 DEF TextKept, InOrder
    <3>2. \A e \in calls' : IsSave(e) /\ e.at = "ok" => e.id <= d.id
      BY <2>1 DEF TextKept, InOrder, Numbered, CallsNumbered
    <3>3. QED BY <3>1, <3>2 DEF InOrder
  <2>5. QED BY <2>1, <2>2, <2>3, <2>4 DEF BodyFollows, TextKept
<1>4. QED BY <1>2, <1>3

LEMMA HandleKeeps == ASSUME EditorInv, NEW c \in calls, Handle(c) PROVE EditorInv'
<1> USE DEF EditorInv
<1>0. PICK d : d = [c EXCEPT !.at = "ok", !.answer = stored']
  OBVIOUS
<1>1. CallShape(c) /\ CallTyped(c) /\ c.field \in {"body", "tags"} /\ c.at = "sent"
  BY DEF CallsNumbered, Handle
<1>2. stored' = [stored EXCEPT ![c.field] = c.value]
      /\ calls' = (calls \ {c}) \cup {d}
      /\ excuse' = excuse \cup Because(Overtakes(c), "overtaken")
      /\ UNCHANGED <<form, mode, card, body, saved, status, timers, made, wanted>>
      /\ ((told' = Append(told, stored') /\ form = "inline") \/ told' = told)
  <2>1. calls' = (calls \ {c}) \cup {d}
    BY <1>0, Zenon DEF Handle
  <2>2. (told' = Append(told, stored') /\ form = "inline") \/ told' = told
    BY DEF Handle
  <2>3. QED BY <2>1, <2>2, Zenon DEF Handle, Apply
<1>3. stored' \in Rows
      /\ (c.field = "body" => stored'.body = c.value /\ stored'.tags = stored.tags)
      /\ (c.field = "tags" => stored'.tags = c.value /\ stored'.body = stored.body)
  <2>1. CASE c.field = "body"
    <3>1. stored' = [stored EXCEPT !.body = c.value] /\ c.value \in Texts /\ stored \in Rows
      BY <1>1, <1>2, <2>1 DEF Shapes, CallTyped
    <3>2. QED BY <2>1, <3>1, TagsChange, BodyChanges
  <2>2. CASE c.field = "tags"
    <3>1. stored' = [stored EXCEPT !.tags = c.value] /\ c.value \subseteq Tags /\ stored \in Rows
      BY <1>1, <1>2, <2>2 DEF Shapes, CallTyped
    <3>2. QED BY <2>2, <3>1, TagsChange, BodyChanges
  <2>3. QED BY <1>1, <2>1, <2>2
<1>4. CallShape(d) /\ CallTyped(d) /\ d.id = c.id /\ d.field = c.field /\ d.value = c.value
      /\ d.was = c.was /\ d.at = "ok" /\ d.answer = stored'
  <2>1. CallShape(d) /\ d.at = "ok" /\ d.answer = stored'
        /\ d.id = c.id /\ d.field = c.field /\ d.value = c.value /\ d.was = c.was
    <3>1. DOMAIN c = {"id", "field", "value", "was", "closes", "at", "answer"}
      BY <1>1 DEF CallShape
    <3>2. d.at = "ok" /\ d.answer = stored' /\ d.id = c.id /\ d.field = c.field
          /\ d.value = c.value /\ d.was = c.was /\ d.closes = c.closes
      BY <1>0, <3>1
    <3>3. d = [id |-> d.id, field |-> d.field, value |-> d.value, was |-> d.was,
               closes |-> d.closes, at |-> d.at, answer |-> d.answer]
      BY <1>0, <3>1
    <3>4. QED BY <3>2, <3>3 DEF CallShape
  <2>2. QED BY <1>1, <1>3, <2>1 DEF CallTyped
<1>5. Shapes'
  <2>1. told' \in Seq(Rows) /\ (form = "modal" => told' = << >>)
    <3>1. told \in Seq(Rows) /\ (form = "modal" => told = << >>)
      BY DEF Shapes
    <3>2. stored' \in Rows /\ ((told' = Append(told, stored') /\ form = "inline") \/ told' = told)
      BY <1>2, <1>3
    <3>3. QED BY ONLY <3>1, <3>2
  <2>2. QED BY <1>2, <1>3, <2>1 DEF Shapes
<1>6. Numbered'
  BY <1>1, <1>2, <1>3, <1>4, CallMarked DEF Numbered
<1>7. ASSUME excuse' = {} PROVE Unexcused'
  <2>0. excuse = {} /\ ~Overtakes(c) /\ Unexcused
    BY <1>2, <1>7 DEF Because
  <2>1. NoneFailed'
    BY <1>2, <1>4, <2>0 DEF Unexcused, NoneFailed
  <2>2. CASE c.field = "body"
    <3>1. TagsFollow'
      BY <1>1, <1>2, <1>3, <1>4, <2>0, <2>2, TagsKept DEF Unexcused, TagsFollow, IsSentTags
    <3>2. BodyFollows'
      BY <1>1, <1>2, <1>3, <1>4, <2>0, <2>2, SaveHandled DEF Unexcused, IsSave, Numbered
    <3>3. QED BY <2>1, <3>1, <3>2 DEF Unexcused
  <2>3. CASE c.field = "tags"
    <3>1. \A e \in calls : IsSentTags(e) /\ e # c => c.id < e.id
      BY <1>1, <2>0, <2>3 DEF CallsNumbered, Overtakes, IsSentTags
    <3>2. \A e : e \in calls' /\ IsSentTags(e) <=> e \in calls /\ e # c /\ IsSentTags(e)
      BY <1>2, <1>4 DEF IsSentTags
    <3>3. card'.tags = wanted'.tags
      BY <1>2, <2>0 DEF Unexcused, TagsFollow
    <3>4. (\A e \in calls' : ~IsSentTags(e)) => stored'.tags = wanted'.tags
      <4>1. SUFFICES ASSUME \A e \in calls' : ~IsSentTags(e) PROVE c.value = wanted.tags
        BY <1>2, <1>3, <2>3
      <4>2. \A e \in calls : IsSentTags(e) => e = c
        BY <3>2, <4>1
      <4>3. c.id \in Nat
        BY DEF CallsNumbered
      <4>4. QED BY <1>1, <2>0, <2>3, <4>2, <4>3 DEF Unexcused, TagsFollow, IsSentTags
    <3>5. \A e \in calls' :
             IsSentTags(e) /\ (\A b \in calls' : IsSentTags(b) => b.id <= e.id)
             => e.value = wanted'.tags
      <4>1. SUFFICES ASSUME NEW e \in calls', IsSentTags(e),
                            \A b \in calls' : IsSentTags(b) => b.id <= e.id
                     PROVE  e.value = wanted.tags
        BY <1>2
      <4>2. e \in calls /\ c.id < e.id /\ c.id \in Nat /\ e.id \in Nat
        BY <3>1, <3>2, <4>1 DEF CallsNumbered
      <4>3. \A b \in calls : IsSentTags(b) => b.id <= e.id
        BY <3>2, <4>1, <4>2
      <4>4. QED BY <2>0, <4>1, <4>2, <4>3 DEF Unexcused, TagsFollow
    <3>6. TagsFollow'
      BY <3>3, <3>4, <3>5 DEF TagsFollow
    <3>7. Follows
      BY <1>2 DEF Follows
    <3>8. \A e : e \in calls /\ IsSave(e) <=> e \in calls' /\ IsSave(e)
      BY <1>2, <1>4, <2>3 DEF IsSave
    <3>9. BodyFollows'
      BY <1>2, <1>3, <2>0, <2>3, <3>7, <3>8, FollowedText DEF Unexcused
    <3>10. QED BY <2>1, <3>6, <3>9 DEF Unexcused
  <2>4. QED BY <1>1, <2>2, <2>3
<1>8. QED BY <1>5, <1>6, <1>7 DEF Numbered

\* A save that lands in its turn: what was saved last stays so.
LEMMA SaveLanded ==
    ASSUME Numbered, InOrder, NEW c \in calls, IsSave(c), c.at = "ok", ~Overtakes(c),
           calls' = calls \ {c}, stored'.body = stored.body, body' = body
    PROVE  /\ InOrder'
           /\ NoSaves' => stored.body = c.value
           /\ LastSaves(body) => LastSaves(body)'
<1>1. \A e \in calls : IsSave(e) /\ e # c => c.id < e.id /\ c.id \in Nat /\ e.id \in Nat
  BY DEF Numbered, CallsNumbered, Overtakes, IsSave
<1>2. NoSaves' => stored.body = c.value
  BY DEF NoSaves, InOrder
<1>3. InOrder'
  BY <1>1 DEF InOrder
<1>4. ASSUME LastSaves(body) PROVE LastSaves(body)'
  <2>1. CASE NoSaves'
    <3>1. \A e \in calls : IsSave(e) => e = c
      BY <2>1 DEF NoSaves
    <3>2. c.id \in Nat
      BY DEF Numbered, CallsNumbered
    <3>3. c.value = body
      BY <1>4, <3>1, <3>2 DEF LastSaves
    <3>4. QED BY <1>2, <2>1, <3>3 DEF LastSaves, NoSaves
  <2>2. CASE ~NoSaves'
    <3>1. ASSUME NEW e \in calls', IsSave(e), \A b \in calls' : IsSave(b) => b.id <= e.id
          PROVE  e.value = body
      <4>1. \A b \in calls : IsSave(b) => b.id <= e.id
        BY <1>1, <3>1
      <4>2. QED BY <1>4, <3>1, <4>1 DEF LastSaves
    <3>2. QED BY <2>2, <3>1 DEF LastSaves
  <2>3. QED BY <2>1, <2>2
<1>5. QED BY <1>2, <1>3, <1>4

\* Where the text is left, what lands changes nothing.
LEMMA LeftLands ==
    ASSUME TextLeft, NEW c \in calls, IsSave(c), c.at = "ok", calls' = calls \ {c},
           stored'.body = stored.body, body' = body
    PROVE  TextLeft'
BY DEF TextLeft, NoSaves

LEMMA SaveLandsKeeps == ASSUME EditorInv, NEW c \in calls, SaveLands(c) PROVE EditorInv'
<1> USE DEF EditorInv
<1>1. c.field = "body" /\ c.at \in {"ok", "failed"} /\ calls' = calls \ {c}
      /\ UNCHANGED <<stored, told, form, timers, made, wanted>>
  BY DEF SaveLands
<1>2. CallTyped(c) /\ AnswersTrue /\ IsSave(c)
  BY <1>1 DEF CallsNumbered, IsSave
<1>3. Numbered' /\ (NoneFailed => NoneFailed')
  BY <1>1, CallLands DEF Numbered
<1>4. \A e : e \in calls /\ IsSentTags(e) <=> e \in calls' /\ IsSentTags(e)
  BY <1>1 DEF IsSentTags
<1>5. CASE mode = "gone" \/ c.at = "failed"
  <2>1. UNCHANGED <<mode, card, body, saved, excuse>>
    BY <1>1, <1>5 DEF SaveLands, Shapes
  <2>2. Shapes'
    BY <1>1, <2>1 DEF Shapes
  <2>3. ASSUME excuse' = {} PROVE TagsFollow' /\ BodyFollows'
    <3>1. Unexcused /\ c.at = "ok" /\ mode = "gone" /\ form = "inline"
      BY <1>1, <1>5, <2>1, <2>3 DEF Unexcused, NoneFailed, Shapes
    <3>2. TagsFollow'
      BY <1>1, <1>4, <2>1, <3>1, TagsKept DEF Unexcused, TagsFollow
    <3>3. BodyFollows'
      BY <1>1, <1>2, <2>1, <3>1, LeftLands DEF Unexcused, BodyFollows, Ended
    <3>4. QED BY <3>2, <3>3
  <2>4. QED BY <1>3, <2>1, <2>2, <2>3 DEF Unexcused, Numbered
<1>6. CASE mode # "gone" /\ c.at = "ok" /\ form = "inline"
  <2>1. /\ card' = c.answer /\ mode' = mode
        /\ saved' = IF mode = "Editing" THEN c.value ELSE c.answer.body
        /\ body' = IF mode = "Editing" THEN body ELSE c.answer.body
        /\ excuse' = excuse \cup Because(Taken(body') /\ Saves # {c}, "echoed")
                            \cup Because(Overtakes(c), "overtaken")
                            \cup Because(Replaced(c.answer.tags), "replaced")
    BY <1>1, <1>6 DEF SaveLands
  <2>2. c.answer \in Rows /\ c.answer.body = c.value /\ c.value \in Texts
    BY <1>1, <1>2, <1>6 DEF CallTyped, AnswersTrue
  <2>3. Shapes'
    BY <1>1, <2>1, <2>2 DEF Shapes
  <2>4. ASSUME excuse' = {} PROVE TagsFollow' /\ BodyFollows'
    <3>0. Unexcused /\ ~(Taken(body') /\ Saves # {c}) /\ ~Overtakes(c) /\ ~Replaced(c.answer.tags)
      BY <2>1, <2>4 DEF Because
    <3>1. TagsFollow'
      BY <1>1, <1>4, <2>1, <3>0, TagsKept DEF Unexcused, TagsFollow, Replaced
    <3>2. ~Ended /\ ~Ended' /\ TextKept /\ body = wanted.body /\ (Watches <=> mode = "Editing")
          /\ InOrder
      BY <1>1, <1>6, <2>1, <3>0 DEF Unexcused, BodyFollows, Ended, Watches, TextKept
    <3>3. body' = body /\ saved' = c.value
      <4>1. CASE mode = "Editing"
        BY <2>1, <4>1
      <4>2. CASE mode # "Editing" /\ Saves # {c}
        BY <2>1, <2>2, <3>0, <3>2, <4>2 DEF Taken
      <4>3. CASE mode # "Editing" /\ Saves = {c}
        <5>1. \A e \in calls : IsSave(e) => e = c
          BY <4>3 DEF Saves, IsSave
        <5>2. c.id \in Nat
          BY DEF CallsNumbered
        <5>3. c.value = body
          BY <1>2, <3>2, <4>3, <5>1, <5>2 DEF TextKept, LastSaves
        <5>4. QED BY <2>1, <2>2, <4>3, <5>3
      <4>4. QED BY <4>1, <4>2, <4>3
    <3>4. InOrder' /\ (NoSaves' => stored.body = c.value) /\ (LastSaves(body) => LastSaves(body)')
      BY <1>1, <1>2, <1>6, <3>0, <3>2, <3>3, SaveLanded DEF Numbered
    <3>5. BodyFollows'
      BY <1>1, <2>1, <3>2, <3>3, <3>4 DEF BodyFollows, TextKept, Watches
    <3>6. QED BY <3>1, <3>5
  <2>5. QED BY <1>3, <2>1, <2>3, <2>4 DEF Unexcused, Numbered, Because
<1>7. CASE mode # "gone" /\ c.at = "ok" /\ form = "modal"
  <2>1. /\ saved' = IF c.closes THEN saved ELSE c.value
        /\ mode' = IF c.closes THEN "Collapsed" ELSE mode
        /\ excuse' = excuse \cup Because(c.closes /\ \E d \in Saves : d.value # body, "left")
                            \cup Because(Overtakes(c), "overtaken")
        /\ UNCHANGED <<card, body>>
    BY <1>1, <1>7 DEF SaveLands
  <2>2. Shapes'
    BY <1>1, <1>2, <1>7, <2>1 DEF Shapes, CallTyped
  <2>3. ASSUME excuse' = {} PROVE TagsFollow' /\ BodyFollows'
    <3>0. Unexcused /\ ~(c.closes /\ \E d \in Saves : d.value # body) /\ ~Overtakes(c)
      BY <2>1, <2>3 DEF Because
    <3>1. TagsFollow'
      BY <1>1, <1>4, <2>1, <3>0, TagsKept DEF Unexcused, TagsFollow
    <3>2. CASE Ended
      <4>1. Ended' /\ TextLeft /\ body = wanted.body
        BY <1>1, <1>7, <2>1, <3>0, <3>2 DEF Ended, Unexcused, BodyFollows
      <4>2. QED BY <1>1, <1>2, <1>7, <2>1, <3>1, <4>1, LeftLands DEF BodyFollows
    <3>3. CASE ~Ended /\ c.closes
      <4>1. Ended' /\ InOrder /\ body = wanted.body
        BY <1>1, <1>7, <2>1, <3>0, <3>3 DEF Ended, Unexcused, BodyFollows, TextKept
      <4>2. \A d \in calls : IsSave(d) => d.value = body
        BY <3>0, <3>3 DEF Saves, IsSave
      <4>3. stored.body = body
        BY <1>2, <1>7, <4>1, <4>2 DEF InOrder
      <4>4. TextLeft'
        BY <1>1, <2>1, <4>2, <4>3 DEF TextLeft
      <4>5. QED BY <1>1, <2>1, <3>1, <4>1, <4>4 DEF BodyFollows
    <3>4. CASE ~Ended /\ ~c.closes
      <4>1. ~Ended' /\ TextKept /\ body = wanted.body /\ InOrder /\ saved' = c.value
            /\ (Watches' <=> Watches)
        BY <1>1, <1>7, <2>1, <3>0, <3>4 DEF Ended, Unexcused, BodyFollows, TextKept, Watches
      <4>2. InOrder' /\ (NoSaves' => stored.body = c.value) /\ (LastSaves(body) => LastSaves(body)')
        BY <1>1, <1>2, <1>7, <2>1, <3>0, <4>1, SaveLanded DEF Numbered
      <4>3. BodyFollows'
        BY <1>1, <2>1, <4>1, <4>2 DEF BodyFollows, TextKept
      <4>4. QED BY <3>1, <4>3
    <3>5. QED BY <3>2, <3>3, <3>4
  <2>4. QED BY <1>3, <2>1, <2>2, <2>3 DEF Unexcused, Numbered, Because
<1>8. QED BY <1>1, <1>5, <1>6, <1>7 DEF Shapes

LEMMA TagsLandKeeps == ASSUME EditorInv, NEW c \in calls, TagsLand(c) PROVE EditorInv'
<1> USE DEF EditorInv
<1> DEFINE next == IF c.at = "ok" THEN c.answer ELSE [card EXCEPT !.tags = c.was]
<1>1. c.field = "tags" /\ c.at \in {"ok", "failed"} /\ calls' = calls \ {c}
      /\ UNCHANGED <<stored, told, form, timers, made, wanted>>
  BY DEF TagsLand
<1>2. CallTyped(c) /\ AnswersTrue /\ ~IsSave(c) /\ ~IsSentTags(c)
  BY <1>1 DEF CallsNumbered, IsSave, IsSentTags
<1>3. Numbered' /\ (NoneFailed => NoneFailed')
  BY <1>1, CallLands DEF Numbered
<1>4. \A e : /\ e \in calls /\ IsSentTags(e) <=> e \in calls' /\ IsSentTags(e)
             /\ e \in calls /\ IsSave(e) <=> e \in calls' /\ IsSave(e)
  BY <1>1, <1>2
<1>5. next \in Rows
  <2>1. c.was \subseteq Tags /\ c.answer \in Rows /\ card \in Rows
    BY <1>1, <1>2 DEF CallTyped, Shapes
  <2>2. QED BY <2>1, TagsChange
<1>6. CASE mode = "gone" \/ card.tags # c.value \/ (form = "modal" /\ mode = "Collapsed")
  <2>1. UNCHANGED <<mode, card, body, saved, excuse>>
    BY <1>6 DEF TagsLand
  <2>2. Shapes'
    BY <1>1, <2>1 DEF Shapes
  <2>3. ASSUME excuse' = {} PROVE TagsFollow' /\ BodyFollows'
    <3>1. TagsFollow'
      BY <1>1, <1>4, <2>1, <2>3, TagsKept DEF Unexcused, TagsFollow
    <3>2. BodyFollows'
      BY <1>1, <1>4, <2>1, <2>3, FollowedText DEF Unexcused, Follows
    <3>3. QED BY <3>1, <3>2
  <2>4. QED BY <1>3, <2>1, <2>2, <2>3 DEF Unexcused, Numbered
<1>7. CASE ~(mode = "gone" \/ card.tags # c.value \/ (form = "modal" /\ mode = "Collapsed"))
  <2>1. /\ IF form = "inline" THEN SyncInline(next) /\ UNCHANGED <<mode, status>>
           ELSE ResetModal(next)
        /\ excuse' = excuse \cup Because(Taken(body'), "echoed")
                            \cup Because(form = "modal" /\ Wiped(body'), "wiped")
    BY <1>7 DEF TagsLand
  <2> HIDE DEF next
  <2>2. card' = next /\ (UNCHANGED <<body, saved>> \/ (body' = next.body /\ saved' = next.body))
        /\ (form = "modal" => body' = next.body /\ saved' = next.body)
        /\ (mode' = mode \/ (form = "modal" /\ mode = "Editing" /\ mode' = "Expanded"))
        /\ (form = "inline" /\ mode = "Editing" => UNCHANGED <<body, saved>>)
    <3>1. CASE form = "inline"
      BY <2>1, <3>1 DEF SyncInline
    <3>2. CASE form = "modal"
      BY <2>1, <3>2 DEF ResetModal
    <3>3. QED BY <3>1, <3>2 DEF Shapes
  <2>3. Shapes'
    <3>1. next.body \in Texts
      BY <1>5 DEF Rows
    <3>2. QED BY <1>1, <1>5, <2>2, <3>1 DEF Shapes
  <2>4. ASSUME excuse' = {} PROVE TagsFollow' /\ BodyFollows'
    <3>0. Unexcused /\ ~Taken(body') /\ (form = "modal" => ~Wiped(body')) /\ c.at = "ok"
      BY <1>1, <2>1, <2>4 DEF Because, Unexcused, NoneFailed
    <3>1. next.tags = card.tags
      BY <1>1, <1>2, <1>7, <3>0 DEF AnswersTrue, next
    <3>2. TagsFollow'
      BY <1>1, <1>4, <2>2, <3>0, <3>1, TagsKept DEF Unexcused, TagsFollow
    <3>3. BodyFollows /\ body = wanted.body
      BY <3>0 DEF Unexcused, BodyFollows
    <3>4. Follows
      BY <2>2, <3>0, <3>3 DEF Follows, Wiped, Taken, Watches, Shapes
    <3>5. BodyFollows'
      BY <1>1, <1>4, <2>2, <3>3, <3>4, FollowedText
    <3>6. QED BY <3>2, <3>5
  <2>5. QED BY <1>3, <2>1, <2>3, <2>4 DEF Unexcused, Numbered, Because
<1>8. QED BY <1>6, <1>7

LEMMA NextKeepsEditor ==
    ASSUME EditorInv, Next \/ UNCHANGED editorVars
    PROVE  EditorInv'
<1>1. CASE UNCHANGED editorVars
  <2>1. Shapes' /\ CallsNumbered' /\ AnswersTrue' /\ (Unexcused => Unexcused')
    BY <1>1 DEF editorVars, EditorInv, Shapes, CallsNumbered, AnswersTrue, Unexcused, NoneFailed,
       TagsFollow, BodyFollows, TextLeft, TextKept, LastSaves, NoSaves, InOrder, Ended, Watches
  <2>2. QED BY <1>1, <2>1 DEF editorVars, EditorInv
<1>2. CASE UserSteps
  BY <1>2, ExpandKeeps, EditKeeps, TypeKeeps, BlurKeeps, CollapseKeeps, CloseKeeps, UnmountKeeps,
     ToggleKeeps DEF UserSteps
<1>3. CASE CallSteps
  BY <1>3, HandleKeeps, LoseKeeps, SaveLandsKeeps, TagsLandKeeps DEF CallSteps
<1>4. QED BY <1>1, <1>2, <1>3, TimerKeeps, HearKeeps, ForeignKeeps DEF Next

----------------------------------------------------------------------------
(* The editor among the machines of the tab.                               *)

EditorPart == part = "editor" => EditorInv

LEMMA EditorStays ==
    ASSUME EditorPart, [FrontendNext]_FrontendVars
    PROVE  EditorPart'
<1> SUFFICES ASSUME part' = "editor" PROVE EditorInv'
  BY DEF EditorPart
<1>1. part = "editor" /\ (Next \/ UNCHANGED editorVars)
  BY DEF FrontendNext, FrontendVars, EditorRuns, OrderRuns, PickerRuns, DrawerRuns, SearchRuns,
         TagEditorRuns
<1>2. QED BY <1>1, NextKeepsEditor DEF EditorPart

\* At rest a card's row has the text its user typed last and the tags the edits come to, for
\* any texts, tags and number of steps, but for the causes the machine names
\* (components/card.rs, card_modal.rs).
THEOREM EditsStoredCorrect == FrontendSpec => []EditorStoresEdits
<1>1. FrontendInit => EditorPart
  BY InitEditor DEF FrontendInit, EditorStarts, EditorPart
<1>2. EditorPart => EditorStoresEdits
  BY Ends DEF EditorStoresEdits, EditorPart
<1>3. QED BY <1>1, <1>2, EditorStays, PTL DEF FrontendSpec

----------------------------------------------------------------------------
(* The search of the board.                                                *)

Words == Seq(STRING)
QueryTokens == {t \in [hash : BOOLEAN, word : Words] : ~t.hash => t.word # << >>}

\* The types.
SearchTyped ==
    /\ searchTags \in [Search!Cards -> GivenTags] /\ searchBody \in [Search!Cards -> GivenBodies]
    /\ query \in Seq(QueryTokens) /\ (open => query # << >>)
    /\ expanded \in Search!Cards \cup {Search!NoCard}
    /\ touched \subseteq Search!Cards

\* An open card passes the query, or was opened or changed since the query last moved.
PinHeld == expanded # Search!NoCard => Search!Matches(expanded, query) \/ expanded \in touched

\* The completion that was picked ends the query, behind a #.
PickStands ==
    picked # Search!NoPick =>
        /\ query # << >> /\ Search!Last(query) = [hash |-> TRUE, word |-> picked[1].value]
        /\ picked[1].kind \in {"tag", "card"}

SearchInv == SearchTyped /\ PinHeld /\ PickStands

----------------------------------------------------------------------------
(* What is marked.                                                         *)

LEMMA HasLeast ==
    ASSUME NEW T \in SUBSET Nat, T # {} PROVE \E x \in T : \A y \in T : x <= y
<1>1. \E x \in T : \A y \in T : <<y, x>> \notin OpToRel(<, Nat)
  BY NatLessThanWellFounded, WFMin, Zenon
<1>2. \E x \in T : \A y \in T : ~ (y < x)
  BY <1>1, Zenon DEF OpToRel
<1>3. QED BY <1>2, SMT

\* Places that are marked lie in a run of marked places.
LEMMA RunAround ==
    ASSUME NEW n \in Nat, NEW marked \in SUBSET (1 .. n), NEW a \in marked
    PROVE  \E lo, hi \in marked :
              /\ lo <= hi /\ lo .. hi \subseteq marked
              /\ lo - 1 \notin marked /\ hi + 1 \notin marked
<1> DEFINE Lows == {l \in Nat : l <= a /\ l .. a \subseteq marked}
           Highs == {h \in Nat : a <= n - h /\ a .. n - h \subseteq marked}
<1>1. a \in 1 .. n /\ a \in Lows /\ n - a \in Highs
  OBVIOUS
<1>2. PICK lo \in Lows : \A l \in Lows : lo <= l
  BY <1>1, HasLeast
<1>3. PICK h \in Highs : \A k \in Highs : h <= k
  BY <1>1, HasLeast
<1>4. lo \in Nat /\ lo <= a /\ lo .. a \subseteq marked /\ h \in Nat /\ a <= n - h
      /\ a .. n - h \subseteq marked
  BY <1>2, <1>3
<1>5. lo \in marked /\ n - h \in marked
  BY <1>1, <1>4
<1>6. lo - 1 \notin marked
  <2> SUFFICES ASSUME lo - 1 \in marked PROVE FALSE
    OBVIOUS
  <2>1. lo - 1 \in Nat /\ lo - 1 <= a
    BY <1>1, <1>4
  <2>2. (lo - 1) .. a \subseteq marked
    BY <1>1, <1>4, <2>1
  <2>3. lo <= lo - 1
    BY <1>2, <2>1, <2>2
  <2>4. QED BY <1>4, <2>3
<1>7. n - h + 1 \notin marked
  <2> SUFFICES ASSUME n - h + 1 \in marked PROVE FALSE
    OBVIOUS
  <2>1. h - 1 \in Nat /\ n - (h - 1) = n - h + 1
    BY <1>1, <1>4
  <2>2. a .. n - (h - 1) \subseteq marked /\ a <= n - (h - 1)
    BY <1>1, <1>4, <2>1
  <2>3. h <= h - 1
    BY <1>3, <2>1, <2>2
  <2>4. QED BY <1>4, <2>3
<1>8. lo .. n - h \subseteq marked /\ lo <= n - h
  BY <1>1, <1>4
<1>9. QED BY <1>5, <1>6, <1>7, <1>8

\* A merge marks something when one of its spans does.
LEMMA MergeMarks ==
    ASSUME NEW n \in Nat, NEW spans, \A s \in spans : s[1] \in 1 .. n /\ s[2] \in 1 .. n
    PROVE  Search!MergeSpans(spans) # {} <=> \E s \in spans : s[1] <= s[2]
<1> DEFINE marked == UNION {s[1] .. s[2] : s \in spans}
<1>1. marked \in SUBSET (1 .. n)
  OBVIOUS
<1>2. ASSUME NEW run \in Search!MergeSpans(spans) PROVE \E s \in spans : s[1] <= s[2]
  <2>1. \E a : a \in marked
    BY <1>2 DEF Search!MergeSpans
  <2>2. QED BY <2>1
<1>3. ASSUME NEW s \in spans, s[1] <= s[2] PROVE Search!MergeSpans(spans) # {}
  <2>1. s[1] \in marked
    BY <1>3
  <2>2. PICK lo, hi \in marked :
              /\ lo <= hi /\ lo .. hi \subseteq marked
              /\ lo - 1 \notin marked /\ hi + 1 \notin marked
    BY <1>1, <2>1, RunAround
  <2>3. <<lo, hi>> \in Search!MergeSpans(spans)
    BY <2>2 DEF Search!MergeSpans
  <2>4. QED BY <2>3
<1>4. QED BY <1>2, <1>3

\* A stretch of a sequence, place by place.
LEMMA SubSeqPlaces ==
    ASSUME NEW S, NEW s \in Seq(S), NEW a \in Nat, NEW b \in Nat, 1 <= a, a <= b, b <= Len(s)
    PROVE  /\ DOMAIN SubSeq(s, a, b) = 1 .. b - a + 1
           /\ \A i \in 1 .. b - a + 1 : SubSeq(s, a, b)[i] = s[a + i - 1]
<1>1. SubSeq(s, a, b) = [i \in 1 .. b - a + 1 |-> s[a + i - 1]]
  BY SMTT(30)
<1>2. QED BY <1>1

\* The place in a word of the i-th letter of a term that starts at letter j of the text.
LEMMA PlaceInWord ==
    ASSUME NEW first \in Nat, NEW last \in Nat, NEW size \in Nat, NEW j \in Int, NEW i \in Nat,
           first <= j, j <= last - size + 1, i >= 1, i <= size
    PROVE  /\ j + i - first \in 1 .. last - first + 1
           /\ first + (j + i - first) - 1 = j + i - 1
  OBVIOUS

\* A stretch of a sequence is a subsequence of every longer stretch around it.
LEMMA StretchIsSubsequence ==
    ASSUME NEW text \in Words, NEW term \in Words,
           NEW first \in Nat, NEW last \in Nat, NEW j \in Nat,
           1 <= first, first <= last, last <= Len(text),
           first <= j, j <= last - Len(term) + 1,
           SubSeq(text, j, j + Len(term) - 1) = term
    PROVE  Search!IsSubsequence(term, SubSeq(text, first, last))
<1> DEFINE word == SubSeq(text, first, last)
           at == [i \in DOMAIN term |-> j + i - first]
<1>1. text \in Seq(STRING) /\ DOMAIN term = 1 .. Len(term) /\ Len(term) \in Nat
  BY DEF Words
<1>2. /\ DOMAIN word = 1 .. last - first + 1
      /\ \A k \in 1 .. last - first + 1 : word[k] = text[first + k - 1]
  BY <1>1, SubSeqPlaces
<1>3. ASSUME NEW i \in 1 .. Len(term) PROVE term[i] = text[j + i - 1]
  <2>1. j + Len(term) - 1 \in Nat /\ 1 <= j /\ j <= j + Len(term) - 1
    BY <1>1
  <2>2. j + Len(term) - 1 <= last
    BY <1>1
  <2>3. j + Len(term) - 1 <= Len(text)
    <3>1. Len(text) \in Nat
      BY DEF Words
    <3>2. QED BY <2>1, <2>2, <3>1
  <2>4. i \in 1 .. (j + Len(term) - 1) - j + 1
    BY <1>1
  <2>5. SubSeq(text, j, j + Len(term) - 1)[i] = text[j + i - 1]
    BY <1>1, <2>1, <2>3, <2>4, SubSeqPlaces
  <2>6. QED BY <2>5
<1>4. at = [i \in DOMAIN term |-> at[i]] /\ \A i \in 1 .. Len(term) : at[i] = j + i - first
  BY <1>1
<1> HIDE DEF word, at
<1>5. ASSUME NEW i \in 1 .. Len(term)
      PROVE  at[i] \in 1 .. last - first + 1 /\ word[at[i]] = term[i]
  <2>1. j + i - first \in 1 .. last - first + 1 /\ first + (j + i - first) - 1 = j + i - 1
    BY <1>1, PlaceInWord
  <2>2. word[j + i - first] = text[j + i - 1]
    BY <1>2, <2>1
  <2>3. QED BY <1>3, <1>4, <2>1, <2>2
<1>6. at \in [DOMAIN term -> DOMAIN word] /\ \A i \in DOMAIN term : word[at[i]] = term[i]
  BY <1>1, <1>2, <1>4, <1>5
<1>7. \A i, k \in DOMAIN term : i < k => at[i] < at[k]
  BY <1>1, <1>4
<1>8. QED BY <1>6, <1>7 DEF Search!IsSubsequence, word

\* A term that stands in a word is a subsequence of it.
LEMMA LiteralIsSubsequence ==
    ASSUME NEW text \in Words, NEW term \in Words, NEW w \in Search!WordsOf(text),
           NEW s \in Search!Literal(term, text, w)
    PROVE  Search!IsSubsequence(term, SubSeq(text, w[1], w[2]))
<1>1. w[1] \in 1 .. Len(text) /\ w[2] \in 1 .. Len(text) /\ w[1] <= w[2]
  BY DEF Search!WordsOf
<1>2. PICK j \in w[1] .. w[2] - Len(term) + 1 : SubSeq(text, j, j + Len(term) - 1) = term
  BY DEF Search!Literal
<1>3. /\ w[1] \in Nat /\ w[2] \in Nat /\ 1 <= w[1] /\ w[2] <= Len(text)
      /\ Len(term) \in Nat
  BY <1>1 DEF Words
<1>4. j \in Nat /\ w[1] <= j /\ j <= w[2] - Len(term) + 1
  BY <1>2, <1>3
<1>5. QED BY <1>1, <1>2, <1>3, <1>4, StretchIsSubsequence

\* A word that is searched for marks a text when it is a subsequence of one of its words.
LEMMA MarksWhatMatches ==
    ASSUME NEW text \in Words, NEW term \in Words, term # << >>
    PROVE  Search!HighlightSpans(text, {term}) # {}
           <=> \E w \in Search!WordsOf(text) : Search!IsSubsequence(term, SubSeq(text, w[1], w[2]))
<1> DEFINE spans == UNION {Search!SpansIn(t, text, w) : t \in {term}, w \in Search!WordsOf(text)}
<1>1. Len(text) \in Nat /\ Len(term) \in Nat /\ Len(term) >= 1
  BY DEF Words
<1>2. \A s : s \in spans <=> \E w \in Search!WordsOf(text) : s \in Search!SpansIn(term, text, w)
  OBVIOUS
<1>3. ASSUME NEW w \in Search!WordsOf(text)
      PROVE  w[1] \in 1 .. Len(text) /\ w[2] \in 1 .. Len(text) /\ w[1] <= w[2]
  BY DEF Search!WordsOf
<1>4. ASSUME NEW w \in Search!WordsOf(text), NEW s \in Search!SpansIn(term, text, w)
      PROVE  s[1] \in 1 .. Len(text) /\ s[2] \in 1 .. Len(text) /\ s[1] <= s[2]
  <2>1. CASE s \in Search!Literal(term, text, w)
    <3>1. PICK j \in w[1] .. w[2] - Len(term) + 1 : s = <<j, j + Len(term) - 1>>
      BY <2>1 DEF Search!Literal
    <3>2. s[1] = j /\ s[2] = j + Len(term) - 1
      BY <3>1
    <3>3. QED BY <1>1, <1>3, <3>1, <3>2
  <2>2. CASE s = w
    BY <1>3, <2>2
  <2>3. QED BY <1>4, <2>1, <2>2 DEF Search!SpansIn
<1>9. Search!HighlightSpans(text, {term}) = Search!MergeSpans(spans)
  BY DEF Search!HighlightSpans
<1> HIDE DEF spans
<1>5. \A s \in spans : s[1] \in 1 .. Len(text) /\ s[2] \in 1 .. Len(text) /\ s[1] <= s[2]
  BY <1>2, <1>4
<1>6. Search!MergeSpans(spans) # {} <=> \E s : s \in spans
  <2>1. Search!MergeSpans(spans) # {} <=> \E s \in spans : s[1] <= s[2]
    <3>1. \A s \in spans : s[1] \in 1 .. Len(text) /\ s[2] \in 1 .. Len(text)
      BY <1>5
    <3>2. QED BY <1>1, <3>1, MergeMarks
  <2>2. QED BY <1>5, <2>1
<1>7. ASSUME NEW w \in Search!WordsOf(text)
      PROVE  (\E s : s \in Search!SpansIn(term, text, w))
             <=> Search!IsSubsequence(term, SubSeq(text, w[1], w[2]))
  BY LiteralIsSubsequence DEF Search!SpansIn
<1>8. QED BY <1>2, <1>6, <1>7, <1>9

----------------------------------------------------------------------------
(* The states of the search.                                               *)

\* Whether a card passes a query is up to its tags, its body and the links.
LEMMA PassesStill ==
    ASSUME NEW c, NEW q, searchTags'[c] = searchTags[c], searchBody'[c] = searchBody[c],
           links' = links
    PROVE  Search!Matches(c, q)' <=> Search!Matches(c, q)
<1>1. Search!BodyWords(c)' = Search!BodyWords(c)
  BY DEF Search!BodyWords
<1>2. Search!TextMatches(c, q)' <=> Search!TextMatches(c, q)
  BY <1>1 DEF Search!TextMatches, Search!IsNumberOf
<1>3. \A n : Search!LinkedToNumber(c, n)' <=> Search!LinkedToNumber(c, n)
  BY DEF Search!LinkedToNumber
<1>4. QED BY <1>2, <1>3 DEF Search!Matches

LEMMA PassesOnSameBoard ==
    UNCHANGED Search!board => \A c, q : Search!Matches(c, q)' <=> Search!Matches(c, q)
BY PassesStill DEF Search!board

LEMMA InitSearch == Search!ConstantsOK /\ Search!Init => SearchInv
BY DEF Search!Init, SearchInv, SearchTyped, PinHeld, PickStands, Search!NoCard

\* Whoever moves the query, the card that is open passes it, or was touched since it moved.
LEMMA QueryMoves ==
    ASSUME Search!ConstantsOK, SearchInv, NEW q \in Seq(QueryTokens), NEW o \in BOOLEAN,
           o => q # << >>, Search!SetQuery(q, o)
    PROVE  SearchTyped' /\ PinHeld'
<1>1. /\ query' = q /\ open' = o /\ expanded' = Search!Unpin(q)
      /\ UNCHANGED <<searchTags, searchBody, links, searchEdits>>
      /\ touched' = (IF q # query THEN {} ELSE touched)
  BY DEF Search!SetQuery, Search!board
<1>2. SearchTyped'
  BY <1>1 DEF SearchInv, SearchTyped, Search!Unpin
<1>3. \A c, p : Search!Matches(c, p)' <=> Search!Matches(c, p)
  BY <1>1, PassesOnSameBoard DEF Search!board
<1>4. expanded' # Search!NoCard => Search!Matches(expanded', q) \/ expanded' \in touched'
  BY <1>1 DEF SearchInv, PinHeld, Search!Unpin
<1>5. PinHeld'
  BY <1>1, <1>3, <1>4 DEF PinHeld
<1>6. QED BY <1>2, <1>5

\* Tokens that are typed, and completions, are tokens of a query.
LEMMA TokenWell == Search!ConstantsOK => \A t \in Tokens : t \in QueryTokens
BY DEF Search!ConstantsOK, QueryTokens, Words, Search!Written

LEMMA CompletionWell ==
    ASSUME Search!ConstantsOK, SearchTyped, NEW s \in Search!Completions
    PROVE  /\ query # << >>
           /\ s = [kind |-> s.kind, value |-> s.value] /\ s.kind \in {"tag", "card"}
           /\ s.value \in Words
<1>1. PICK p \in Search!Prefix : 
         \/ \E t \in UNION {searchTags[c] : c \in Search!Cards} : s = [kind |-> "tag", value |-> t]
         \/ \E c \in Search!Cards : s = [kind |-> "card", value |-> Number[c]]
  BY DEF Search!Completions
<1>2. query # << >>
  BY <1>1 DEF Search!Prefix
<1>3. \A c \in Search!Cards : Number[c] \in Words
  BY DEF Search!ConstantsOK, Search!Written, Words
<1>4. \A t \in UNION {searchTags[c] : c \in Search!Cards} : t \in Words
  BY DEF Search!ConstantsOK, SearchTyped, Words
<1>5. QED BY <1>1, <1>2, <1>3, <1>4

\* What stands before the last token of a query.
LEMMA FrontWell ==
    ASSUME NEW q \in Seq(QueryTokens), q # << >>, NEW t \in QueryTokens
    PROVE  /\ Search!Front(q) \in Seq(QueryTokens)
           /\ Append(Search!Front(q), t) \in Seq(QueryTokens)
           /\ Append(Search!Front(q), t) # << >>
           /\ Search!Last(Append(Search!Front(q), t)) = t
<1>1. Search!Front(q) \in Seq(QueryTokens)
  BY DEF Search!Front
<1>2. \A r \in Seq(QueryTokens) : Append(r, t) \in Seq(QueryTokens) /\ Append(r, t) # << >>
                                  /\ Append(r, t)[Len(Append(r, t))] = t
  OBVIOUS
<1>3. QED BY <1>1, <1>2 DEF Search!Last

LEMMA TypingKeeps ==
    ASSUME Search!ConstantsOK, SearchInv, Search!Type PROVE SearchInv'
<1>1. \E q \in Seq(QueryTokens), o \in BOOLEAN : (o => q # << >>) /\ Search!SetQuery(q, o)
  <2>1. PICK t \in Tokens :
          \/ ~open /\ Len(query) < MaxTokens /\ Search!SetQuery(Append(query, t), TRUE)
          \/ open /\ Search!SetQuery(Append(Search!Front(query), t), TRUE)
          \/ open /\ Search!SetQuery(query, FALSE)
    BY DEF Search!Type
  <2>2. t \in QueryTokens /\ query \in Seq(QueryTokens) /\ (open => query # << >>)
    BY TokenWell DEF SearchInv, SearchTyped
  <2>3. Append(query, t) \in Seq(QueryTokens) /\ Append(query, t) # << >>
    BY <2>2
  <2>4. open => /\ Append(Search!Front(query), t) \in Seq(QueryTokens)
                /\ Append(Search!Front(query), t) # << >>
    BY <2>2, FrontWell
  <2>5. QED BY <2>1, <2>2, <2>3, <2>4
<1>2. SearchTyped' /\ PinHeld'
  BY <1>1, QueryMoves
<1>3. PickStands'
  BY DEF Search!Type, PickStands
<1>4. QED BY <1>2, <1>3 DEF SearchInv

LEMMA AcceptKeeps ==
    ASSUME Search!ConstantsOK, SearchInv, Search!Accept PROVE SearchInv'
<1>1. PICK s \in Search!Completions :
         Search!SetQuery(Search!Apply(query, s.value), FALSE) /\ picked' = <<s>>
  BY DEF Search!Accept
<1>2. query # << >> /\ s.value \in Words /\ s.kind \in {"tag", "card"} /\ query \in Seq(QueryTokens)
  BY CompletionWell DEF SearchInv, SearchTyped
<1> DEFINE t == [hash |-> TRUE, word |-> s.value]
<1>3. t \in QueryTokens
  BY <1>2 DEF QueryTokens
<1>4. /\ Search!Apply(query, s.value) \in Seq(QueryTokens) /\ Search!Apply(query, s.value) # << >>
      /\ Search!Last(Search!Apply(query, s.value)) = t
  BY <1>2, <1>3, FrontWell DEF Search!Apply
<1>5. SearchTyped' /\ PinHeld'
  BY <1>1, <1>4, QueryMoves
<1>6. query' = Search!Apply(query, s.value) /\ picked'[1] = s
  BY <1>1 DEF Search!SetQuery
<1>7. PickStands'
  BY <1>2, <1>4, <1>6 DEF PickStands
<1>8. QED BY <1>5, <1>7 DEF SearchInv

LEMMA ClearKeeps ==
    ASSUME Search!ConstantsOK, SearchInv, Search!SetQuery(<< >>, FALSE),
           picked' = Search!NoPick
    PROVE  SearchInv'
<1>1. << >> \in Seq(QueryTokens)
  OBVIOUS
<1>2. SearchTyped' /\ PinHeld'
  BY <1>1, QueryMoves
<1>3. QED BY <1>2 DEF SearchInv, PickStands

\* A step that leaves the query and its completion.
LEMMA StillPicked ==
    ASSUME SearchInv, UNCHANGED <<query, picked>> PROVE PickStands'
BY DEF SearchInv, PickStands

LEMMA OpeningKeeps ==
    ASSUME Search!ConstantsOK, SearchInv, NEW c \in Search!Cards, Search!Expand(c) PROVE SearchInv'
<1>1. SearchTyped' /\ PinHeld'
  BY DEF SearchInv, SearchTyped, PinHeld, Search!Expand, Search!Touch, Search!Still, Search!board
<1>2. QED BY <1>1, StillPicked DEF SearchInv, Search!Expand, Search!Still

LEMMA FoldingKeeps ==
    ASSUME Search!ConstantsOK, SearchInv, Search!Collapse PROVE SearchInv'
<1>1. SearchTyped' /\ PinHeld'
  BY DEF SearchInv, SearchTyped, PinHeld, Search!Collapse, Search!Still, Search!board
<1>2. QED BY <1>1, StillPicked DEF SearchInv, Search!Collapse, Search!Still

LEMMA ChangeKeeps ==
    ASSUME Search!ConstantsOK, SearchInv, NEW c \in Search!Cards, Search!Change(c) PROVE SearchInv'
<1>1. /\ \/ /\ \E t \in GivenTags : searchTags' = [searchTags EXCEPT ![c] = t]
            /\ searchBody' = searchBody
         \/ /\ \E b \in GivenBodies : searchBody' = [searchBody EXCEPT ![c] = b]
            /\ searchTags' = searchTags
         \/ searchTags' = searchTags /\ searchBody' = searchBody
      /\ touched' = touched \cup (IF links' = links THEN {c} ELSE Search!Cards)
      /\ UNCHANGED <<query, open, expanded, picked>>
  BY DEF Search!Change, Search!Touch, Search!Still
<1>2. SearchTyped'
  BY <1>1 DEF SearchInv, SearchTyped
<1>3. PinHeld'
  <2> SUFFICES ASSUME expanded # Search!NoCard, expanded \notin touched'
               PROVE  Search!Matches(expanded, query)'
    BY <1>1 DEF PinHeld
  <2>1. /\ links' = links /\ expanded # c /\ expanded \in Search!Cards
        /\ Search!Matches(expanded, query)
    BY <1>1 DEF SearchInv, SearchTyped, PinHeld
  <2>2. searchTags'[expanded] = searchTags[expanded] /\ searchBody'[expanded] = searchBody[expanded]
    BY <1>1, <2>1 DEF SearchInv, SearchTyped
  <2>3. \A d, q : searchTags'[d] = searchTags[d] /\ searchBody'[d] = searchBody[d] /\ links' = links
                  => (Search!Matches(d, q)' <=> Search!Matches(d, q))
    BY PassesStill
  <2>4. QED BY <1>1, <2>1, <2>2, <2>3
<1>4. QED BY <1>1, <1>2, <1>3, StillPicked DEF SearchInv

LEMMA SearchKeeps ==
    ASSUME Search!ConstantsOK, SearchInv, [Search!Next]_(Search!searchVars) PROVE SearchInv'
<1>1. CASE Search!Type BY <1>1, TypingKeeps
<1>2. CASE Search!Accept BY <1>2, AcceptKeeps
<1>3. CASE Search!Escape
  <2>1. CASE UNCHANGED <<Search!board, query, open, expanded, touched, picked>>
    <3>1. SearchTyped' /\ PinHeld'
      <4>1. \A c, p : Search!Matches(c, p)' <=> Search!Matches(c, p)
        BY <2>1, PassesOnSameBoard
      <4>2. SearchTyped'
        BY <2>1 DEF SearchInv, SearchTyped, Search!board
      <4>3. QED BY <2>1, <4>1, <4>2 DEF SearchInv, PinHeld
    <3>2. QED BY <2>1, <3>1, StillPicked DEF SearchInv
  <2>2. CASE Search!SetQuery(<< >>, FALSE) /\ picked' = Search!NoPick
    BY <2>2, ClearKeeps
  <2>3. QED BY <1>3, <2>1, <2>2 DEF Search!Escape
<1>4. CASE Search!ClearButton BY <1>4, ClearKeeps DEF Search!ClearButton
<1>5. CASE Search!Collapse BY <1>5, FoldingKeeps
<1>6. ASSUME NEW c \in Search!Cards, Search!Expand(c) PROVE SearchInv' BY <1>6, OpeningKeeps
<1>7. ASSUME NEW c \in Search!Cards, Search!Change(c) PROVE SearchInv' BY <1>7, ChangeKeeps
<1>8. CASE UNCHANGED Search!searchVars
  <2>1. \A c, p : Search!Matches(c, p)' <=> Search!Matches(c, p)
    BY <1>8, PassesOnSameBoard DEF Search!searchVars, Search!board
  <2>2. SearchTyped'
    BY <1>8 DEF Search!searchVars, SearchInv, SearchTyped
  <2>3. PinHeld'
    BY <1>8, <2>1 DEF Search!searchVars, SearchInv, PinHeld
  <2>4. QED BY <1>8, <2>2, <2>3, StillPicked DEF Search!searchVars, SearchInv
<1>9. QED BY <1>1, <1>2, <1>3, <1>4, <1>5, <1>6, <1>7, <1>8 DEF Search!Next

----------------------------------------------------------------------------
(* What the states show.                                                   *)

LEMMA Pinned == Search!ConstantsOK /\ SearchInv => Search!PinIsBrief
BY DEF Search!ConstantsOK, SearchInv, PinHeld, Search!PinIsBrief, Search!Visible

LEMMA Mirrored == ASSUME Search!ConstantsOK, SearchInv PROVE Search!MarksMirrorMatches
<1> SUFFICES ASSUME NEW c \in Search!Cards, NEW i \in Search!TextOf(query)
             PROVE  (\E w \in Search!BodyWords(c) : Search!IsSubsequence(query[i].word, w))
                    <=> Search!HighlightSpans(searchBody[c], {query[i].word}) # {}
  BY DEF Search!MarksMirrorMatches, Search!TextMatches
<1>1. query[i] \in QueryTokens /\ ~query[i].hash
  BY DEF SearchInv, SearchTyped, Search!TextOf
<1>2. query[i].word \in Words /\ query[i].word # << >>
  BY <1>1 DEF QueryTokens
<1>3. searchBody[c] \in Words
  BY DEF SearchInv, SearchTyped, Search!ConstantsOK, Words
<1>4. (\E w \in Search!BodyWords(c) : Search!IsSubsequence(query[i].word, w))
      <=> \E w \in Search!WordsOf(searchBody[c]) :
             Search!IsSubsequence(query[i].word, SubSeq(searchBody[c], w[1], w[2]))
  BY DEF Search!BodyWords
<1>5. QED BY <1>2, <1>3, <1>4, MarksWhatMatches

\* A # term at the end of a query asks for one word more, and for no text.
LEMMA LastAsks ==
    ASSUME NEW q \in Seq(QueryTokens), q # << >>, Search!Last(q).hash
    PROVE  /\ Search!HashWords(q)
                \subseteq Search!HashWords(Search!Front(q)) \cup {Search!Last(q).word}
           /\ Search!TextOf(q) = Search!TextOf(Search!Front(q))
           /\ \A i \in Search!TextOf(q) : q[i] = Search!Front(q)[i]
<1>1. Len(q) \in Nat /\ Len(q) >= 1 /\ DOMAIN q = 1 .. Len(q)
  OBVIOUS
<1>2. /\ DOMAIN Search!Front(q) = 1 .. Len(q) - 1
      /\ \A i \in 1 .. Len(q) - 1 : Search!Front(q)[i] = q[i]
  BY <1>1 DEF Search!Front
<1>3. Search!Last(q) = q[Len(q)] /\ \A i \in DOMAIN q : i = Len(q) \/ i \in DOMAIN Search!Front(q)
  BY <1>1, <1>2 DEF Search!Last
<1>4. \A i \in DOMAIN Search!Front(q) : i \in DOMAIN q /\ Search!Front(q)[i] = q[i]
  BY <1>1, <1>2
<1>5. /\ Search!TextOf(q) = Search!TextOf(Search!Front(q))
      /\ \A i \in Search!TextOf(q) : q[i] = Search!Front(q)[i]
  BY <1>3, <1>4 DEF Search!TextOf
<1>6. ASSUME NEW word \in Search!HashWords(q)
      PROVE  word \in Search!HashWords(Search!Front(q)) \cup {Search!Last(q).word}
  <2>1. PICK i \in DOMAIN q : q[i].hash /\ q[i].word # << >> /\ word = q[i].word
    BY <1>6 DEF Search!HashWords
  <2>2. CASE i = Len(q)
    BY <1>3, <2>1, <2>2
  <2>3. CASE i \in DOMAIN Search!Front(q)
    BY <1>4, <2>1, <2>3 DEF Search!HashWords
  <2>4. QED BY <1>3, <2>1, <2>2, <2>3
<1>7. QED BY <1>5, <1>6

LEMMA Found == ASSUME Search!ConstantsOK, SearchInv PROVE Search!PickIsFound
<1> SUFFICES ASSUME picked # Search!NoPick, NEW c \in Search!Cards,
                    \/ picked[1].kind = "card" /\ Number[c] = picked[1].value
                    \/ picked[1].kind = "tag" /\ picked[1].value \in searchTags[c]
                       /\ ~Search!AllDigits(picked[1].value),
                    Search!Matches(c, Search!Front(query))
             PROVE  Search!Matches(c, query)
  BY DEF Search!PickIsFound
<1>1. /\ query \in Seq(QueryTokens) /\ query # << >>
      /\ Search!Last(query).hash /\ Search!Last(query).word = picked[1].value
  BY DEF SearchInv, SearchTyped, PickStands
<1> DEFINE value == picked[1].value
<1>2. /\ Search!HashWords(query) \subseteq Search!HashWords(Search!Front(query)) \cup {value}
      /\ Search!TextOf(query) = Search!TextOf(Search!Front(query))
      /\ \A i \in Search!TextOf(query) : query[i] = Search!Front(query)[i]
  BY <1>1, LastAsks
<1>3. Search!AllDigits(Number[c])
  BY DEF Search!ConstantsOK, Search!AllDigits
<1>4. ASSUME NEW n \in Search!NumbersOf(query) PROVE n = Number[c] \/ Search!LinkedToNumber(c, n)
  <2>1. CASE n \in Search!NumbersOf(Search!Front(query))
    BY <2>1 DEF Search!Matches
  <2>2. CASE n = value /\ Search!AllDigits(value)
    BY <2>2
  <2>3. QED BY <1>2, <1>4, <2>1, <2>2 DEF Search!NumbersOf
<1>5. ASSUME NEW needle \in Search!TagsOf(query)
      PROVE  \E t \in searchTags[c] : Search!IsPrefix(needle, t)
  <2>1. CASE needle \in Search!TagsOf(Search!Front(query))
    BY <2>1 DEF Search!Matches
  <2>2. CASE needle = value /\ ~Search!AllDigits(value)
    <3>1. value \in searchTags[c]
      BY <1>3, <2>2
    <3>2. value \in Words
      BY <3>1 DEF SearchInv, SearchTyped, Search!ConstantsOK, Words
    <3>3. Search!IsPrefix(value, value)
      BY <3>2 DEF Search!IsPrefix, Words
    <3>4. QED BY <2>2, <3>1, <3>3
  <2>3. QED BY <1>2, <1>5, <2>1, <2>2 DEF Search!TagsOf, Search!NumbersOf
<1>6. Search!TextMatches(c, query)
  BY <1>2 DEF Search!Matches, Search!TextMatches, Search!IsNumberOf
<1>7. QED BY <1>4, <1>5, <1>6 DEF Search!Matches

----------------------------------------------------------------------------
(* The search among the machines of the tab.                               *)

SearchPart == part = "search" => SearchInv

LEMMA SearchStays ==
    ASSUME SearchPart, [FrontendNext]_FrontendVars
    PROVE  SearchPart'
<1> SUFFICES ASSUME part' = "search" PROVE SearchInv'
  BY DEF SearchPart
<1>1. part = "search" /\ [Search!Next]_(Search!searchVars)
  BY DEF FrontendNext, FrontendVars, searchVars, Search!searchVars, EditorRuns, OrderRuns,
         PickerRuns, DrawerRuns, SearchRuns, TagEditorRuns
<1>2. QED BY <1>1, SearchAssumption, SearchKeeps DEF SearchPart

\* A card that fails the query is on screen only while it is open and was touched since the
\* query moved, a text query marks what it matched, and what the popup offers the search
\* finds, for any cards, tags, bodies and tokens (search.rs).
THEOREM SearchCorrect == FrontendSpec => []SearchShowsMatches
<1>1. FrontendInit => SearchPart
  BY SearchAssumption, InitSearch DEF FrontendInit, SearchStarts, SearchPart
<1>2. SearchPart => SearchShowsMatches
  BY SearchAssumption, Pinned, Mirrored, Found DEF SearchShowsMatches, SearchPart
<1>3. QED BY <1>1, <1>2, SearchStays, PTL DEF FrontendSpec

----------------------------------------------------------------------------
(* The link editor: the inductive invariant of its picker and chips.       *)

Links == LinkCards \X LinkCards \X Int
Values == Reasons \cup {0}
RequestKinds == {"pick", "unlink", "reason"}
Events == [kind : RequestKinds, link : Links, value : Values]

\* A request has its fields.
RequestShape(r) ==
    /\ r = [id |-> r.id, kind |-> r.kind, link |-> r.link, value |-> r.value,
            edit |-> r.edit, excused |-> r.excused, answer |-> r.answer]
    /\ r.kind \in RequestKinds /\ r.link \in Links /\ r.value \in Values
    /\ r.id \in Nat /\ r.id <= pickerMade /\ r.edit \in Nat /\ r.edit <= pickerEdits
    /\ r.excused \in BOOLEAN
    /\ r.answer \in {"waits", "done", "lost", "refused"}

\* The types; requests are numbered as they are made.
PickerTyped ==
    /\ focus \in Picker!Sides \cup {Picker!None}
    /\ pickerMade \in Nat /\ others \in Nat /\ pickerEdits \in Nat
    /\ DOMAIN server \subseteq Links
    /\ DOMAIN pickerTab \subseteq Links /\ pickerTab \in [DOMAIN pickerTab -> Values]
    /\ heard \in Seq(Events)
    /\ \A r \in pickerRequests : RequestShape(r) /\ \A q \in pickerRequests : r.id = q.id => r = q

\* The box of a reason is of a link the tab has, and saves it once.
BoxHeld ==
    /\ box = [link |-> box.link, draft |-> box.draft, open |-> box.open]
    /\ box # Picker!NoBox => box.link \in DOMAIN pickerTab /\ box.draft \in Values
    /\ \A r \in pickerRequests : r.kind = "reason" /\ box # Picker!NoBox /\ box.open
          => r.edit < pickerEdits
    /\ \A r, q \in pickerRequests : r.kind = "reason" /\ q.kind = "reason" /\ r.edit = q.edit
          => r = q

\* A link that anyone has heard of; one that a pick is to make is not yet.
Waits(r) == r.answer = "waits"
ToMake(r) == r.kind = "pick" /\ Waits(r)
Named(l) ==
    \/ l \in DOMAIN server \cup DOMAIN pickerTab
    \/ \E i \in DOMAIN heard : heard[i].link = l
    \/ \E r \in pickerRequests : r.link = l /\ ~ToMake(r)

\* A link that is to be made has a number of its own.
LinksNumbered ==
    /\ \A l : Named(l) => /\ -others <= l[3] /\ l[3] <= pickerMade
                          /\ \A r \in pickerRequests : ToMake(r) => l[3] # r.id
    /\ \A r \in pickerRequests : ToMake(r) => r.link[3] = r.id

\* What was removed is gone for good.
GoneForGood ==
    /\ \A i \in DOMAIN heard : heard[i].kind = "unlink" => heard[i].link \notin DOMAIN server
    /\ \A r \in pickerRequests : r.kind = "unlink" /\ r.answer \in {"done", "lost"}
          => r.link \notin DOMAIN server

\* Nothing that came between can refuse a request that is not excused.
LinkStands(r) ==
    /\ ~Picker!WouldRefuse(DOMAIN server, r.link)
    /\ \A q \in pickerRequests : q.kind = "pick" => q = r
ReasonStands(r) ==
    /\ r.link \in DOMAIN server
    /\ \A q \in pickerRequests : q.kind = "unlink" => q.link # r.link
UnlinkStands(r) ==
    /\ r.link \in DOMAIN server /\ r.link \in DOMAIN pickerTab /\ r.link \in removing
    /\ \A q \in pickerRequests : q.kind \in {"unlink", "reason"} /\ q.link = r.link => q = r
    /\ ~Picker!Redraws("unlink", r.link)

Standing ==
    \A r \in pickerRequests :
        /\ r.answer = "refused" => r.excused
        /\ ~r.excused /\ Waits(r) =>
              /\ r.kind = "pick" => LinkStands(r)
              /\ r.kind = "reason" => ReasonStands(r)
              /\ r.kind = "unlink" => UnlinkStands(r)

OneRemoval ==
    \A r, q \in pickerRequests :
        r.kind = "unlink" /\ q.kind = "unlink" /\ ~r.excused /\ ~q.excused /\ r.link = q.link
        => r = q

\* The list has the cards picked last, the last one first.
Remembered ==
    /\ pickedAt \in [LinkCards -> Nat] /\ \A c \in LinkCards : pickedAt[c] <= pickerMade
    /\ recent \in Seq(LinkCards) /\ Len(recent) <= MaxRemembered
    /\ \A i \in DOMAIN recent : pickedAt[recent[i]] > 0
    /\ \A i, j \in DOMAIN recent : i < j => pickedAt[recent[i]] > pickedAt[recent[j]]
    /\ \A c \in LinkCards : pickedAt[c] > 0 =>
          \/ \E i \in DOMAIN recent : recent[i] = c
          \/ /\ Len(recent) = MaxRemembered
             /\ \A i \in DOMAIN recent : pickedAt[recent[i]] > pickedAt[c]

PickerInv ==
    /\ PickerTyped /\ BoxHeld /\ LinksNumbered /\ GoneForGood /\ Standing /\ OneRemoval
    /\ Remembered

----------------------------------------------------------------------------
(* The rows.                                                               *)

\* The picker's module counts as this one does.
LEMMA PickerCounts ==
    \A S : Picker!Cardinality(S) = Cardinality(S) /\ (Picker!IsFiniteSet(S) <=> IsFiniteSet(S))
BY Zenon DEF Picker!Cardinality, Cardinality, Picker!IsFiniteSet, IsFiniteSet

LEMMA RankKnown ==
    ASSUME Picker!ConstantsOK, Remembered, NEW c \in LinkCards
    PROVE  /\ Picker!RankOf(c) \in Int
           /\ Picker!Contains(recent, c) <=> \E i \in DOMAIN recent : recent[i] = c
           /\ Picker!Contains(recent, c) => Picker!RankOf(c) \in DOMAIN recent
              /\ recent[Picker!RankOf(c)] = c
           /\ ~Picker!Contains(recent, c) => Picker!RankOf(c) = MaxRemembered + 1
<1>1. recent \in Seq(LinkCards) /\ MaxRemembered \in Nat
  BY DEF Remembered, Picker!ConstantsOK
<1>2. DOMAIN recent = 1 .. Len(recent) /\ Len(recent) \in Nat
  BY <1>1
<1>3. Picker!Contains(recent, c) <=> \E i \in DOMAIN recent : recent[i] = c
  BY <1>2 DEF Picker!Contains
<1>4. CASE Picker!Contains(recent, c)
  <2>1. Picker!PlaceIn(recent, c) \in DOMAIN recent /\ recent[Picker!PlaceIn(recent, c)] = c
    BY <1>3, <1>4 DEF Picker!PlaceIn
  <2>2. Picker!RankOf(c) = Picker!PlaceIn(recent, c)
    BY <1>4 DEF Picker!RankOf
  <2>3. QED BY <1>2, <1>3, <1>4, <2>1, <2>2
<1>5. CASE ~Picker!Contains(recent, c)
  BY <1>1, <1>3, <1>5 DEF Picker!RankOf
<1>6. QED BY <1>4, <1>5

\* Of two cards just one leads.
LEMMA LeadsOrders ==
    ASSUME Picker!ConstantsOK, Remembered
    PROVE  /\ \A c \in LinkCards : ~Picker!Leads(c, c)
           /\ \A c, d \in LinkCards : c = d \/ Picker!Leads(c, d) \/ Picker!Leads(d, c)
           /\ \A b, c, d \in LinkCards : Picker!Leads(b, c) /\ Picker!Leads(c, d)
                 => Picker!Leads(b, d)
<1>1. \A c \in LinkCards : Picker!RankOf(c) \in Int /\ Recency[c] \in Int /\ c \in Int
  BY RankKnown DEF Picker!ConstantsOK
<1> HIDE DEF Picker!RankOf
<1>2. QED BY <1>1 DEF Picker!Leads

\* Each card has a place of its own, behind those that lead it.
LEMMA Placed ==
    ASSUME Picker!ConstantsOK, Remembered, NEW S \in SUBSET LinkCards
    PROVE  /\ IsFiniteSet(S) /\ Cardinality(S) \in Nat
           /\ \A c \in S : Picker!PlaceAmong(S, c) \in 1 .. Cardinality(S)
           /\ \A c, d \in S : Picker!Leads(c, d)
                 => Picker!PlaceAmong(S, c) < Picker!PlaceAmong(S, d)
           /\ \A i \in 1 .. Cardinality(S) : \E c \in S : Picker!PlaceAmong(S, c) = i
<1> DEFINE Ahead(c) == {d \in S : Picker!Leads(d, c)}
           n == Cardinality(S)
<1>1. IsFiniteSet(S) /\ n \in Nat
  BY PickerCounts, FS_Subset, FS_CardinalityType DEF Picker!ConstantsOK
<1>2. ASSUME NEW c \in S
      PROVE  IsFiniteSet(Ahead(c)) /\ Cardinality(Ahead(c)) \in Nat
             /\ Picker!PlaceAmong(S, c) = Cardinality(Ahead(c)) + 1
  BY <1>1, FS_Subset, FS_CardinalityType, PickerCounts DEF Picker!PlaceAmong
<1>3. ASSUME NEW c \in S PROVE Picker!PlaceAmong(S, c) \in 1 .. n
  <2>1. Ahead(c) \subseteq S \ {c}
    BY LeadsOrders
  <2>2. IsFiniteSet(S \ {c}) /\ Cardinality(S \ {c}) = n - 1
    BY <1>1, FS_RemoveElement
  <2>3. Cardinality(Ahead(c)) <= n - 1
    BY <2>1, <2>2, FS_Subset
  <2>4. QED BY <1>1, <1>2, <2>3
<1>4. ASSUME NEW c \in S, NEW d \in S, Picker!Leads(c, d)
      PROVE  Picker!PlaceAmong(S, c) < Picker!PlaceAmong(S, d)
  <2>1. Ahead(c) \subseteq Ahead(d) \ {c} /\ c \in Ahead(d)
    BY <1>4, LeadsOrders
  <2>2. IsFiniteSet(Ahead(d) \ {c}) /\ Cardinality(Ahead(d) \ {c}) = Cardinality(Ahead(d)) - 1
    BY <1>2, <2>1, FS_RemoveElement
  <2>3. Cardinality(Ahead(c)) <= Cardinality(Ahead(d)) - 1
    BY <2>1, <2>2, FS_Subset
  <2>4. QED BY <1>2, <2>3
<1> DEFINE f == [c \in S |-> Picker!PlaceAmong(S, c)]
<1>5. f \in Injection(S, 1 .. n)
  <2>1. f \in [S -> 1 .. n]
    BY <1>3
  <2>2. \A c, d \in S : f[c] = f[d] => c = d
    <3> SUFFICES ASSUME NEW c \in S, NEW d \in S, c # d
                 PROVE Picker!PlaceAmong(S, c) # Picker!PlaceAmong(S, d)
      OBVIOUS
    <3>1. Picker!Leads(c, d) \/ Picker!Leads(d, c)
      BY LeadsOrders
    <3>2. Picker!PlaceAmong(S, c) \in Int /\ Picker!PlaceAmong(S, d) \in Int
      BY <1>3
    <3>3. QED BY <1>4, <3>1, <3>2
  <2> HIDE DEF f
  <2>3. QED BY <2>1, <2>2 DEF Injection, IsInjective
<1>6. IsFiniteSet(1 .. n) /\ Cardinality(1 .. n) = n
  BY <1>1, FS_Interval
<1>7. f \in Surjection(S, 1 .. n)
  <2> HIDE DEF f
  <2>1. QED BY <1>1, <1>5, <1>6, FS_Injection
<1>8. ASSUME NEW i \in 1 .. n PROVE \E c \in S : Picker!PlaceAmong(S, c) = i
  <2>1. \E c \in S : f[c] = i
    <3> HIDE DEF f
    <3>1. QED BY <1>7, Zenon DEF Surjection
  <2>2. QED BY <2>1
<1>9. QED BY <1>1, <1>3, <1>4, <1>8

\* The rows hold the candidates whose places are not behind the last row, each in its place.
LEMMA RowsPlaced ==
    ASSUME Picker!ConstantsOK, Remembered, NEW side
    PROVE  /\ Len(Picker!Offered(side)) \in Nat
           /\ Picker!Offered(side) \in Seq(Picker!Candidates(side))
           /\ \A c \in Picker!Candidates(side) :
                 IF Picker!PlaceAmong(Picker!Candidates(side), c) <= Len(Picker!Offered(side))
                 THEN /\ Picker!Contains(Picker!Offered(side), c)
                      /\ Picker!PlaceIn(Picker!Offered(side), c)
                             = Picker!PlaceAmong(Picker!Candidates(side), c)
                 ELSE ~Picker!Contains(Picker!Offered(side), c)
<1> DEFINE S == Picker!Candidates(side)
           list == Picker!Offered(side)
           n == Picker!Lesser(Cardinality(S), MaxOffered)
<1>1. S \in SUBSET LinkCards
  BY DEF Picker!Candidates, Picker!Others
<1>2. /\ Cardinality(S) \in Nat
      /\ \A c \in S : Picker!PlaceAmong(S, c) \in 1 .. Cardinality(S)
      /\ \A c, d \in S : Picker!Leads(c, d) => Picker!PlaceAmong(S, c) < Picker!PlaceAmong(S, d)
      /\ \A i \in 1 .. Cardinality(S) : \E c \in S : Picker!PlaceAmong(S, c) = i
  BY <1>1, Placed
<1>3. n \in Nat /\ n <= Cardinality(S)
  BY <1>2 DEF Picker!Lesser, Picker!ConstantsOK
<1>4. list = [i \in 1 .. n |-> CHOOSE c \in S : Picker!PlaceAmong(S, c) = i]
  BY PickerCounts DEF Picker!Offered
<1> HIDE DEF S, list, n
<1>5. ASSUME NEW i \in 1 .. n PROVE list[i] \in S /\ Picker!PlaceAmong(S, list[i]) = i
  <2>1. i \in 1 .. Cardinality(S)
    BY <1>2, <1>3
  <2>2. \E c \in S : Picker!PlaceAmong(S, c) = i
    BY <1>2, <2>1
  <2>3. list[i] = CHOOSE c \in S : Picker!PlaceAmong(S, c) = i
    BY <1>4
  <2>4. QED BY <2>2, <2>3
<1>6. list \in Seq(S) /\ Len(list) = n /\ DOMAIN list = 1 .. n
  BY <1>3, <1>4, <1>5
<1>7. ASSUME NEW c \in S, NEW d \in S, Picker!PlaceAmong(S, c) = Picker!PlaceAmong(S, d)
      PROVE c = d
  <2>1. Picker!PlaceAmong(S, c) \in Int /\ Picker!PlaceAmong(S, d) \in Int
    BY <1>2
  <2>2. c \in LinkCards /\ d \in LinkCards
    BY <1>1
  <2>3. c = d \/ Picker!Leads(c, d) \/ Picker!Leads(d, c)
    BY <2>2, LeadsOrders
  <2>4. QED BY <1>2, <1>7, <2>1, <2>3
<1>8. ASSUME NEW c \in S
      PROVE  IF Picker!PlaceAmong(S, c) <= n
             THEN Picker!Contains(list, c) /\ Picker!PlaceIn(list, c) = Picker!PlaceAmong(S, c)
             ELSE ~Picker!Contains(list, c)
  <2>1. Picker!PlaceAmong(S, c) \in Nat /\ Picker!PlaceAmong(S, c) >= 1
    BY <1>2
  <2>2. \A i \in 1 .. n : list[i] = c => Picker!PlaceAmong(S, c) = i
    BY <1>5
  <2>3. CASE Picker!PlaceAmong(S, c) <= n
    <3>1. Picker!PlaceAmong(S, c) \in 1 .. n
      BY <1>3, <2>1, <2>3
    <3>2. list[Picker!PlaceAmong(S, c)] = c
      BY <1>5, <1>7, <3>1
    <3>3. Picker!Contains(list, c)
      BY <1>6, <3>1, <3>2 DEF Picker!Contains
    <3>4. Picker!PlaceIn(list, c) \in 1 .. n /\ list[Picker!PlaceIn(list, c)] = c
      BY <1>6, <3>1, <3>2 DEF Picker!PlaceIn
    <3>5. QED BY <2>2, <2>3, <3>3, <3>4
  <2>4. CASE ~(Picker!PlaceAmong(S, c) <= n)
    <3>1. \A i \in 1 .. n : i <= n
      BY <1>3
    <3>2. ~Picker!Contains(list, c)
      BY <1>6, <2>2, <2>4, <3>1 DEF Picker!Contains
    <3>3. QED BY <2>4, <3>2
  <2>5. QED BY <2>3, <2>4
<1>9. QED BY <1>3, <1>6, <1>8 DEF S, list, n

\* What is offered is a candidate.
LEMMA OfferedWell ==
    ASSUME Picker!ConstantsOK, Remembered, NEW side, NEW i \in DOMAIN Picker!Offered(side)
    PROVE  Picker!Offered(side)[i] \in Picker!Candidates(side)
BY RowsPlaced

\* A card picked later than the cards that are remembered is remembered.
LEMMA StillRemembered ==
    ASSUME Picker!ConstantsOK, Remembered, NEW c \in LinkCards, pickedAt[c] > 0,
           Cardinality({x \in LinkCards : pickedAt[x] >= pickedAt[c]}) <= MaxRemembered
    PROVE  Picker!Contains(recent, c)
<1> SUFFICES ASSUME ~Picker!Contains(recent, c) PROVE FALSE
  OBVIOUS
<1> DEFINE later == {x \in LinkCards : pickedAt[x] >= pickedAt[c]}
           n == Len(recent)
<1>1. recent \in Seq(LinkCards) /\ n \in Nat /\ DOMAIN recent = 1 .. n /\ MaxRemembered \in Nat
      /\ pickedAt \in [LinkCards -> Nat]
  BY DEF Remembered, Picker!ConstantsOK
<1>2. n = MaxRemembered /\ \A i \in 1 .. n : pickedAt[recent[i]] > pickedAt[c]
  BY <1>1, RankKnown DEF Remembered
<1>3. IsFiniteSet(later) /\ Cardinality(later) \in Nat
  BY PickerCounts, FS_Subset, FS_CardinalityType DEF Picker!ConstantsOK
<1> DEFINE g == [i \in 1 .. n |-> recent[i]]
<1>4. c \in later /\ \A i \in 1 .. n : recent[i] \in later \ {c}
  BY <1>1, <1>2
<1>5. \A i, j \in 1 .. n : i # j => recent[i] # recent[j]
  <2> SUFFICES ASSUME NEW i \in 1 .. n, NEW j \in 1 .. n, i # j PROVE recent[i] # recent[j]
    OBVIOUS
  <2>1. i < j \/ j < i
    BY <1>1
  <2>2. \A k, l \in 1 .. n : k < l => pickedAt[recent[k]] > pickedAt[recent[l]]
    BY <1>1 DEF Remembered
  <2>3. pickedAt[recent[i]] \in Nat /\ pickedAt[recent[j]] \in Nat
    BY <1>1
  <2>4. pickedAt[recent[i]] # pickedAt[recent[j]]
    BY <2>1, <2>2, <2>3
  <2>5. QED BY <2>4
<1>6. g \in Injection(1 .. n, later \ {c})
  <2>1. g \in [1 .. n -> later \ {c}] /\ \A i, j \in 1 .. n : g[i] = g[j] => i = j
    BY <1>4, <1>5
  <2> HIDE DEF g, later
  <2>2. QED BY <2>1 DEF Injection, IsInjective
<1>7. IsFiniteSet(later \ {c}) /\ Cardinality(later \ {c}) = Cardinality(later) - 1
  <2>1. c \in later
    BY <1>4
  <2> HIDE DEF later
  <2>2. QED BY <1>3, <2>1, FS_RemoveElement
<1>8. IsFiniteSet(1 .. n) /\ Cardinality(1 .. n) = n
  <2> HIDE DEF n
  <2>1. QED BY <1>1, FS_Interval
<1>9. n <= Cardinality(later) - 1
  <2> HIDE DEF later, g, n
  <2>1. QED BY <1>6, <1>7, <1>8, FS_Injection
<1>10. QED BY <1>1, <1>2, <1>3, <1>9

LEMMA PicksDoLead == ASSUME Picker!ConstantsOK, Remembered PROVE Picker!PicksLead
<1> SUFFICES ASSUME NEW side \in Picker!Sides, NEW c \in Picker!Candidates(side),
                    NEW d \in Picker!Candidates(side),
                    pickedAt[c] > pickedAt[d],
                    Cardinality({x \in LinkCards : pickedAt[x] >= pickedAt[c]}) <= MaxRemembered
             PROVE  LET list == Picker!Offered(side)
                        rank(x) == IF Picker!Contains(list, x) THEN Picker!PlaceIn(list, x)
                                   ELSE Len(list) + 1
                    IN  rank(c) < rank(d) \/ (rank(c) = rank(d) /\ rank(c) > Len(list))
  BY PickerCounts DEF Picker!PicksLead
<1> DEFINE S == Picker!Candidates(side)
<1>1. c \in LinkCards /\ d \in LinkCards /\ S \in SUBSET LinkCards
  BY DEF Picker!Candidates, Picker!Others
<1>2. pickedAt[c] > 0 /\ pickedAt[c] \in Nat /\ pickedAt[d] \in Nat
  BY <1>1 DEF Remembered
<1>3. Picker!Contains(recent, c)
  BY <1>1, <1>2, StillRemembered
<1>4. /\ Picker!RankOf(c) \in DOMAIN recent /\ recent[Picker!RankOf(c)] = c
      /\ Picker!RankOf(d) \in Int
      /\ Picker!Contains(recent, d) => Picker!RankOf(d) \in DOMAIN recent
         /\ recent[Picker!RankOf(d)] = d
      /\ ~Picker!Contains(recent, d) => Picker!RankOf(d) = MaxRemembered + 1
  BY <1>1, <1>3, RankKnown
<1>5. DOMAIN recent = 1 .. Len(recent) /\ Len(recent) \in Nat /\ Len(recent) <= MaxRemembered
      /\ MaxRemembered \in Nat
  BY DEF Remembered, Picker!ConstantsOK
<1>6. Picker!RankOf(c) < Picker!RankOf(d)
  <2>1. CASE Picker!Contains(recent, d)
    <3>1. \A i, j \in DOMAIN recent : i < j => pickedAt[recent[i]] > pickedAt[recent[j]]
      BY DEF Remembered
    <3>2. ~(Picker!RankOf(d) < Picker!RankOf(c))
      BY <1>2, <1>4, <2>1, <3>1
    <3>3. Picker!RankOf(c) # Picker!RankOf(d)
      BY <1>2, <1>4, <2>1
    <3>4. QED BY <1>4, <1>5, <2>1, <3>2, <3>3
  <2>2. CASE ~Picker!Contains(recent, d)
    BY <1>4, <1>5, <2>2
  <2>3. QED BY <2>1, <2>2
<1>7. Picker!Leads(c, d)
  BY <1>6 DEF Picker!Leads
<1>8. Picker!PlaceAmong(S, c) < Picker!PlaceAmong(S, d) /\ Picker!PlaceAmong(S, c) \in Int
      /\ Picker!PlaceAmong(S, d) \in Int
  BY <1>1, <1>7, Placed
<1> DEFINE list == Picker!Offered(side)
<1>9. /\ Len(list) \in Nat
      /\ IF Picker!PlaceAmong(S, c) <= Len(list)
         THEN Picker!Contains(list, c) /\ Picker!PlaceIn(list, c) = Picker!PlaceAmong(S, c)
         ELSE ~Picker!Contains(list, c)
      /\ IF Picker!PlaceAmong(S, d) <= Len(list)
         THEN Picker!Contains(list, d) /\ Picker!PlaceIn(list, d) = Picker!PlaceAmong(S, d)
         ELSE ~Picker!Contains(list, d)
  BY RowsPlaced
<1> HIDE DEF S, list
<1>10. QED BY <1>8, <1>9 DEF list

\* A sequence without its entry at a place.
LEMMA RemovedAt ==
    ASSUME NEW S, NEW list \in Seq(S), NEW at \in DOMAIN list
    PROVE  /\ Picker!RemoveAt(list, at) \in Seq(S)
           /\ Len(Picker!RemoveAt(list, at)) = Len(list) - 1
           /\ \A i \in 1 .. Len(list) - 1 :
                 Picker!RemoveAt(list, at)[i] = list[IF i < at THEN i ELSE i + 1]
<1> DEFINE front == SubSeq(list, 1, at - 1)
           back == SubSeq(list, at + 1, Len(list))
<1>1. Len(list) \in Nat /\ at \in Nat /\ at >= 1 /\ at <= Len(list)
  OBVIOUS
<1>2. front \in Seq(S) /\ Len(front) = at - 1 /\ \A i \in 1 .. at - 1 : front[i] = list[i]
  <2>1. \A i \in 1 .. at - 1 : list[i] \in S
    BY <1>1
  <2>2. /\ front \in Seq(S) /\ Len(front) = (IF 1 <= at - 1 THEN at - 1 - 1 + 1 ELSE 0)
        /\ \A i \in 1 .. at - 1 - 1 + 1 : front[i] = list[1 + i - 1]
    BY <1>1, <2>1, SubSeqProperties
  <2>3. QED BY ONLY <1>1, <2>2
<1>3. back \in Seq(S) /\ Len(back) = Len(list) - at
      /\ \A i \in 1 .. Len(list) - at : back[i] = list[at + i]
  <2>1. \A i \in at + 1 .. Len(list) : list[i] \in S
    BY <1>1
  <2>2. /\ back \in Seq(S)
        /\ Len(back) = (IF at + 1 <= Len(list) THEN Len(list) - (at + 1) + 1 ELSE 0)
        /\ \A i \in 1 .. Len(list) - (at + 1) + 1 : back[i] = list[at + 1 + i - 1]
    BY <1>1, <2>1, SubSeqProperties
  <2>3. QED BY ONLY <1>1, <2>2
<1> HIDE DEF front, back
<1>4. /\ front \o back \in Seq(S) /\ Len(front \o back) = Len(front) + Len(back)
      /\ \A i \in 1 .. Len(front) + Len(back) :
            (front \o back)[i] = IF i <= Len(front) THEN front[i] ELSE back[i - Len(front)]
  BY ONLY <1>2, <1>3, ConcatProperties
<1>5. ASSUME NEW i \in 1 .. Len(list) - 1
      PROVE  (front \o back)[i] = list[IF i < at THEN i ELSE i + 1]
  <2>1. i \in 1 .. Len(front) + Len(back) /\ (i <= Len(front) <=> i < at)
    BY <1>1, <1>2, <1>3
  <2>2. CASE i < at
    <3>1. i \in 1 .. at - 1
      BY <1>1, <2>2
    <3>2. QED BY <1>2, <1>4, <2>1, <2>2, <3>1
  <2>3. CASE ~(i < at)
    <3>1. i - (at - 1) \in 1 .. Len(list) - at /\ at + (i - (at - 1)) = i + 1
      BY <1>1, <2>3
    <3>2. back[i - (at - 1)] = list[i + 1]
      BY <1>3, <3>1
    <3>3. QED BY <1>2, <1>4, <2>1, <2>3, <3>2
  <2>4. QED BY <2>2, <2>3
<1>6. Picker!RemoveAt(list, at) = front \o back
  BY DEF Picker!RemoveAt, front, back
<1>7. Len(front \o back) = Len(list) - 1
  BY <1>1, <1>2, <1>3, <1>4
<1>8. QED BY <1>4, <1>5, <1>6, <1>7

\* new has c in front of what recent has; src: where each entry behind it comes from.
PutBefore(new, c, src) ==
    /\ \A i \in 2 .. Len(new) : new[i] = recent[src[i]] /\ new[i] # c
    /\ \A i, j \in 2 .. Len(new) : i < j => src[i] < src[j]
    /\ \A p \in DOMAIN recent :
          \/ recent[p] = c
          \/ \E i \in 2 .. Len(new) : new[i] = recent[p]
          \/ Len(new) = MaxRemembered /\ \A i \in 2 .. Len(new) : src[i] < p

\* What a pick makes of the list: the card in front, the others in their order behind it,
\* and only entries beyond the limit left out.
LEMMA Pushed ==
    ASSUME Picker!ConstantsOK, Remembered, NEW c \in LinkCards, NEW new,
           new = Picker!PushFront(recent, c)
    PROVE  /\ new \in Seq(LinkCards) /\ Len(new) <= MaxRemembered /\ Len(new) >= Len(recent)
           /\ Len(new) = 0 => MaxRemembered = 0
           /\ Len(new) > 0 => new[1] = c
           /\ \E src \in [2 .. Len(new) -> DOMAIN recent] : PutBefore(new, c, src)
<1> DEFINE n == Len(recent)
           at == IF Picker!Contains(recent, c) THEN Picker!PlaceIn(recent, c) ELSE n + 1
           rest == IF Picker!Contains(recent, c)
                   THEN Picker!RemoveAt(recent, Picker!PlaceIn(recent, c)) ELSE recent
           kept == <<c>> \o rest
           m == Picker!Lesser(Len(kept), MaxRemembered)
           from(i) == IF i <= at THEN i - 1 ELSE i
<1>1. recent \in Seq(LinkCards) /\ n \in Nat /\ DOMAIN recent = 1 .. n /\ MaxRemembered \in Nat
      /\ n <= MaxRemembered
  BY DEF Remembered, Picker!ConstantsOK
<1>2. /\ at \in Nat /\ at >= 1 /\ at <= n + 1
      /\ at <= n => recent[at] = c
      /\ rest \in Seq(LinkCards) /\ Len(rest) = IF at <= n THEN n - 1 ELSE n
      /\ \A i \in 1 .. Len(rest) : rest[i] = recent[IF i < at THEN i ELSE i + 1]
  <2>1. CASE Picker!Contains(recent, c)
    <3>1. \E i \in DOMAIN recent : recent[i] = c
      BY <1>1, <2>1 DEF Picker!Contains
    <3>2. Picker!PlaceIn(recent, c) \in DOMAIN recent /\ recent[Picker!PlaceIn(recent, c)] = c
      BY <3>1 DEF Picker!PlaceIn
    <3>3. at = Picker!PlaceIn(recent, c) /\ rest = Picker!RemoveAt(recent, at)
      BY <2>1
    <3> HIDE DEF at, rest
    <3>4. at \in DOMAIN recent /\ recent[at] = c
      BY <3>2, <3>3
    <3>5. /\ rest \in Seq(LinkCards) /\ Len(rest) = n - 1
          /\ \A i \in 1 .. n - 1 : rest[i] = recent[IF i < at THEN i ELSE i + 1]
      BY <1>1, <3>3, <3>4, RemovedAt
    <3> HIDE DEF n
    <3>6. QED BY <1>1, <3>4, <3>5
  <2>2. CASE ~Picker!Contains(recent, c)
    <3>1. at = n + 1 /\ rest = recent
      BY <2>2
    <3> HIDE DEF at, rest, n
    <3>2. at \in Nat /\ at >= 1 /\ at <= n + 1 /\ ~(at <= n)
      BY <1>1, <3>1
    <3>3. rest \in Seq(LinkCards) /\ Len(rest) = n
      BY <1>1, <3>1 DEF n
    <3>4. \A i \in 1 .. n : rest[i] = recent[IF i < at THEN i ELSE i + 1]
      BY <1>1, <3>1
    <3>5. QED BY <3>2, <3>3, <3>4
  <2>3. QED BY <2>1, <2>2
<1>3. \A p \in 1 .. n : recent[p] = c <=> p = at
  <2>1. \A p \in 1 .. n : recent[p] = c => at <= n
    <3> HIDE DEF rest
    <3> SUFFICES ASSUME NEW p \in 1 .. n, recent[p] = c PROVE at <= n
      OBVIOUS
    <3>1. Picker!Contains(recent, c)
      BY <1>1 DEF Picker!Contains
    <3>2. Picker!PlaceIn(recent, c) \in 1 .. n
      BY <1>1 DEF Picker!PlaceIn
    <3>3. at = Picker!PlaceIn(recent, c)
      BY <3>1
    <3> HIDE DEF at, n
    <3>4. QED BY <1>1, <3>2, <3>3
  <2>2. \A i, j \in 1 .. n : i < j => pickedAt[recent[i]] > pickedAt[recent[j]]
    BY <1>1 DEF Remembered
  <2>3. \A i \in 1 .. n : pickedAt[recent[i]] \in Nat
    <3>1. pickedAt \in [LinkCards -> Nat]
      BY DEF Remembered
    <3>2. \A i \in 1 .. n : recent[i] \in LinkCards
      BY <1>1
    <3>3. QED BY <3>1, <3>2
  <2> HIDE DEF at
  <2>4. ASSUME NEW p \in 1 .. n, recent[p] = c PROVE p = at
    <3>1. at \in 1 .. n /\ recent[at] = c
      BY <1>1, <1>2, <2>1, <2>4
    <3>2. ~(p < at) /\ ~(at < p)
      BY <2>2, <2>3, <2>4, <3>1
    <3>3. QED BY <1>1, <3>1, <3>2
  <2>5. QED BY <1>2, <2>4
<1> HIDE DEF at, rest, n
<1>4. /\ kept \in Seq(LinkCards) /\ Len(kept) = Len(rest) + 1 /\ kept[1] = c
      /\ \A i \in 1 .. Len(rest) : kept[i + 1] = rest[i]
  BY <1>2
<1> HIDE DEF kept
<1>5. /\ m \in Nat /\ m <= Len(kept) /\ m <= MaxRemembered /\ m >= n
      /\ m = 0 => MaxRemembered = 0
      /\ m < Len(kept) => m = MaxRemembered
  BY <1>1, <1>2, <1>4 DEF Picker!Lesser
<1> HIDE DEF m
<1>6. new = SubSeq(kept, 1, m)
  BY DEF Picker!PushFront, kept, rest, m
<1>7. new \in Seq(LinkCards) /\ Len(new) = m /\ \A i \in 1 .. m : new[i] = kept[i]
  BY <1>4, <1>5, <1>6
<1>8. ASSUME NEW i \in 2 .. m
      PROVE  new[i] = recent[from(i)] /\ from(i) \in 1 .. n /\ from(i) # at
  <2>1. i \in 1 .. m /\ i - 1 \in 1 .. Len(rest) /\ (i - 1) + 1 = i
    BY <1>2, <1>4, <1>5
  <2>2. new[i] = rest[i - 1]
    BY <1>4, <1>7, <2>1
  <2>3. new[i] = recent[IF i - 1 < at THEN i - 1 ELSE i]
    BY <1>2, <2>1, <2>2
  <2>4. QED BY <1>1, <1>2, <2>1, <2>3
<1> DEFINE src == [i \in 2 .. m |-> from(i)]
<1>9. src \in [2 .. m -> 1 .. n] /\ \A i \in 2 .. m : src[i] = from(i)
  BY <1>8
<1>10. \A i \in 2 .. m : new[i] = recent[src[i]] /\ new[i] # c
  BY <1>3, <1>8, <1>9
<1>11. \A i, j \in 2 .. m : i < j => src[i] < src[j]
  BY <1>2, <1>5, <1>9
<1>12. ASSUME NEW p \in 1 .. n, recent[p] # c
       PROVE  \/ \E i \in 2 .. m : new[i] = recent[p]
              \/ m = MaxRemembered /\ \A i \in 2 .. m : src[i] < p
  <2>1. p # at
    BY <1>3, <1>12
  <2> DEFINE i == IF p < at THEN p + 1 ELSE p
  <2>2. i \in Nat /\ i >= 2 /\ i <= Len(kept) /\ from(i) = p
    BY <1>1, <1>2, <1>4, <2>1
  <2>3. CASE i <= m
    <3>1. i \in 2 .. m
      BY <1>5, <2>2, <2>3
    <3>2. new[i] = recent[p]
      BY <1>8, <2>2, <3>1
    <3>3. QED BY <3>1, <3>2
  <2>4. CASE ~(i <= m)
    <3>1. m = MaxRemembered
      BY <1>4, <1>2, <1>5, <2>2, <2>4
    <3>2. \A j \in 2 .. m : src[j] < p
      BY <1>1, <1>2, <1>5, <1>9, <2>1, <2>4
    <3>3. QED BY <3>1, <3>2
  <2>5. QED BY <2>3, <2>4
<1>13. QED
  <2> HIDE DEF src
  <2>1. Len(new) = m /\ DOMAIN recent = 1 .. n /\ Len(recent) = n
    BY <1>1, <1>7 DEF n
  <2>2. Len(new) > 0 => new[1] = c
    BY <1>4, <1>5, <1>7
  <2>3. PutBefore(new, c, src)
    BY <1>7, <1>10, <1>11, <1>12, <2>1 DEF PutBefore
  <2>4. QED BY <1>5, <1>7, <1>9, <2>1, <2>2, <2>3

\* A pick is remembered before all others.
LEMMA PickRemembered ==
    ASSUME Picker!ConstantsOK, Remembered, pickerMade \in Nat, pickerMade' = pickerMade + 1,
           NEW c \in LinkCards,
           recent' = Picker!PushFront(recent, c),
           pickedAt' = [pickedAt EXCEPT ![c] = pickerMade + 1]
    PROVE  Remembered'
<1> DEFINE new == recent'
<1>0. new = Picker!PushFront(recent, c)
  OBVIOUS
<1> HIDE DEF new
<1>1. /\ new \in Seq(LinkCards) /\ Len(new) <= MaxRemembered /\ Len(new) >= Len(recent)
      /\ Len(new) = 0 => MaxRemembered = 0
      /\ Len(new) > 0 => new[1] = c
  BY <1>0, Pushed
<1>2. PICK src \in [2 .. Len(new) -> DOMAIN recent] : PutBefore(new, c, src)
  BY <1>0, Pushed
<1>3. recent \in Seq(LinkCards) /\ DOMAIN recent = 1 .. Len(recent) /\ Len(recent) \in Nat
      /\ MaxRemembered \in Nat /\ Len(recent) <= MaxRemembered
      /\ pickedAt \in [LinkCards -> Nat] /\ \A d \in LinkCards : pickedAt[d] <= pickerMade
  BY DEF Remembered, Picker!ConstantsOK
<1>4. DOMAIN new = 1 .. Len(new) /\ Len(new) \in Nat
  BY <1>1
<1>5. /\ pickedAt' \in [LinkCards -> Nat] /\ pickedAt'[c] = pickerMade + 1
      /\ \A d \in LinkCards : d # c => pickedAt'[d] = pickedAt[d]
  BY <1>3
<1>6. \A d \in LinkCards : pickedAt'[d] <= pickerMade'
  BY <1>3, <1>5
<1>7. \A i \in DOMAIN new : (i = 1 /\ new[i] = c) \/ i \in 2 .. Len(new)
  BY <1>1, <1>4
<1>8. \A i \in 2 .. Len(new) : src[i] \in DOMAIN recent /\ new[i] \in LinkCards /\ new[i] # c
         /\ pickedAt'[new[i]] = pickedAt[recent[src[i]]]
         /\ pickedAt'[new[i]] \in Nat /\ pickedAt'[new[i]] <= pickerMade
  <2> SUFFICES ASSUME NEW i \in 2 .. Len(new)
               PROVE  src[i] \in DOMAIN recent /\ new[i] \in LinkCards /\ new[i] # c
                      /\ pickedAt'[new[i]] = pickedAt[recent[src[i]]]
                      /\ pickedAt'[new[i]] \in Nat /\ pickedAt'[new[i]] <= pickerMade
    OBVIOUS
  <2>1. src[i] \in DOMAIN recent /\ new[i] = recent[src[i]] /\ new[i] # c
    BY <1>2 DEF PutBefore
  <2>2. new[i] \in LinkCards
    BY <1>3, <2>1
  <2>3. pickedAt'[new[i]] = pickedAt[new[i]]
    BY <1>5, <2>1, <2>2
  <2>4. QED BY <1>3, <2>1, <2>2, <2>3
<1>9. \A i \in DOMAIN new : pickedAt'[new[i]] > 0
  <2>1. \A i \in DOMAIN recent : pickedAt[recent[i]] > 0
    BY DEF Remembered
  <2>2. QED BY <1>5, <1>7, <1>8, <2>1
<1>10. \A i, j \in DOMAIN new : i < j => pickedAt'[new[i]] > pickedAt'[new[j]]
  <2> SUFFICES ASSUME NEW i \in DOMAIN new, NEW j \in DOMAIN new, i < j
               PROVE  pickedAt'[new[i]] > pickedAt'[new[j]]
    OBVIOUS
  <2>1. j \in 2 .. Len(new)
    BY <1>4, <1>7
  <2>2. CASE i = 1 /\ new[i] = c
    BY <1>5, <1>8, <2>1, <2>2
  <2>3. CASE i \in 2 .. Len(new)
    <3>1. src[i] < src[j] /\ src[i] \in DOMAIN recent /\ src[j] \in DOMAIN recent
      BY <1>2, <2>1, <2>3 DEF PutBefore
    <3>2. pickedAt[recent[src[i]]] > pickedAt[recent[src[j]]]
      BY <3>1 DEF Remembered
    <3>3. QED BY <1>8, <2>1, <2>3, <3>2
  <2>4. QED BY <1>7, <2>2, <2>3
<1>11. ASSUME NEW d \in LinkCards, pickedAt'[d] > 0
       PROVE  \/ \E i \in DOMAIN new : new[i] = d
              \/ /\ Len(new) = MaxRemembered
                 /\ \A i \in DOMAIN new : pickedAt'[new[i]] > pickedAt'[d]
  <2>1. CASE d = c
    <3>1. CASE Len(new) = 0
      BY <1>1, <1>4, <3>1
    <3>2. CASE Len(new) > 0
      BY <1>1, <1>4, <2>1, <3>2
    <3>3. QED BY <1>4, <3>1, <3>2
  <2>2. CASE d # c
    <3>1. pickedAt'[d] = pickedAt[d] /\ pickedAt[d] > 0 /\ pickedAt[d] \in Nat
          /\ pickedAt[d] <= pickerMade
      BY <1>3, <1>5, <1>11, <2>2
    <3>2. ASSUME NEW p \in DOMAIN recent, recent[p] = d
          PROVE  \/ \E i \in 2 .. Len(new) : new[i] = d
                 \/ Len(new) = MaxRemembered /\ \A i \in 2 .. Len(new) : src[i] < p
      BY <1>2, <2>2, <3>2 DEF PutBefore
    <3>3. CASE \E i \in 2 .. Len(new) : new[i] = d
      BY <1>4, <3>3
    <3>4. CASE \E p \in DOMAIN recent : recent[p] = d /\ Len(new) = MaxRemembered
                                        /\ \A i \in 2 .. Len(new) : src[i] < p
      <4>1. PICK p \in DOMAIN recent : recent[p] = d /\ Len(new) = MaxRemembered
                                       /\ \A i \in 2 .. Len(new) : src[i] < p
        BY <3>4
      <4>2. \A i \in 2 .. Len(new) : pickedAt[recent[src[i]]] > pickedAt[d]
        BY <1>8, <4>1 DEF Remembered
      <4>3. QED BY <1>5, <1>7, <1>8, <3>1, <4>1, <4>2
    <3>5. CASE \A p \in DOMAIN recent : recent[p] # d
      <4>1. Len(recent) = MaxRemembered /\ \A i \in DOMAIN recent :
               pickedAt[recent[i]] > pickedAt[d]
        BY <3>1, <3>5 DEF Remembered
      <4>2. Len(new) = MaxRemembered
        <5>1. Len(new) \in Nat /\ Len(new) <= MaxRemembered /\ Len(new) >= MaxRemembered
          BY <1>1, <1>4, <4>1
        <5>2. QED BY <1>3, <5>1
      <4>3. QED BY <1>5, <1>7, <1>8, <3>1, <4>1, <4>2
    <3>6. QED BY <3>2, <3>3, <3>4, <3>5
  <2>3. QED BY <2>1, <2>2
<1>12. QED BY <1>0, <1>1, <1>5, <1>6, <1>9, <1>10, <1>11 DEF Remembered, new

\* Removing links does not make the server refuse.
LEMMA FewerLinks ==
    ASSUME NEW E, NEW F, F \subseteq E, NEW l, ~Picker!WouldRefuse(E, l)
    PROVE  ~Picker!WouldRefuse(F, l)
<1>1. ~Picker!Linked(F, l[1], l[2])
  BY DEF Picker!WouldRefuse, Picker!Linked
<1>2. ~Picker!Reaches(F, l[2], l[1])
  <2>1. PICK S \in SUBSET LinkCards : l[2] \in S /\ Picker!Closed(E, S) /\ l[1] \notin S
    BY DEF Picker!WouldRefuse, Picker!ClosesLoop, Picker!Reaches
  <2>2. Picker!Closed(F, S)
    BY <2>1 DEF Picker!Closed
  <2>3. QED BY <2>1, <2>2 DEF Picker!Reaches
<1>3. QED BY <1>1, <1>2 DEF Picker!WouldRefuse, Picker!ClosesLoop

\* A request that something may refuse from now on is marked.
Marked(o, E) == IF o \in E THEN [o EXCEPT !.excused = TRUE] ELSE o

LEMMA MarkedFields ==
    ASSUME PickerTyped, NEW E, NEW o \in pickerRequests, NEW q, q = Marked(o, E)
    PROVE  /\ q.id = o.id /\ q.kind = o.kind /\ q.link = o.link /\ q.value = o.value
           /\ q.edit = o.edit /\ q.answer = o.answer
           /\ (q.excused <=> o.excused \/ o \in E) /\ q.excused \in BOOLEAN
           /\ RequestShape(q)
<1>1. RequestShape(o)
  BY DEF PickerTyped
<1>2. o = [id |-> o.id, kind |-> o.kind, link |-> o.link, value |-> o.value,
           edit |-> o.edit, excused |-> o.excused, answer |-> o.answer] /\ o.excused \in BOOLEAN
  BY <1>1 DEF RequestShape
<1>3. CASE o \in E
  <2>1. q = [id |-> o.id, kind |-> o.kind, link |-> o.link, value |-> o.value,
             edit |-> o.edit, excused |-> TRUE, answer |-> o.answer]
    BY <1>2, <1>3 DEF Marked
  <2>2. QED BY <1>1, <1>3, <2>1 DEF RequestShape
<1>4. CASE o \notin E
  <2>1. q = o
    BY <1>4 DEF Marked
  <2>2. QED BY <1>1, <1>2, <1>4, <2>1
<1>5. QED BY <1>3, <1>4

\* What asking does to the requests.
Asks(kind, e, value, new) ==
    /\ new = [id |-> new.id, kind |-> new.kind, link |-> new.link, value |-> new.value,
              edit |-> new.edit, excused |-> new.excused, answer |-> new.answer]
    /\ new.id = pickerMade + 1 /\ new.kind = kind /\ new.link = e /\ new.value = value
    /\ new.edit = pickerEdits /\ new.answer = "waits" /\ new.excused \in BOOLEAN
    /\ ~new.excused => /\ DOMAIN server = DOMAIN pickerTab /\ Picker!Rivals(kind, e) = {}
                       /\ ~Picker!Redraws(kind, e)
    /\ pickerMade' = pickerMade + 1

LEMMA Asked ==
    ASSUME PickerTyped, NEW kind, NEW e, NEW value, Picker!Ask(kind, e, value)
    PROVE  \E new : /\ Asks(kind, e, value, new)
                    /\ \A q \in pickerRequests' :
                          q = new \/ \E o \in pickerRequests :
                             q = Marked(o, Picker!Rivals(kind, e))
<1> DEFINE R == Picker!Rivals(kind, e)
           new == [id |-> pickerMade', kind |-> kind, link |-> e, value |-> value,
                   edit |-> pickerEdits,
                   excused |-> \/ DOMAIN server # DOMAIN pickerTab
                               \/ R # {} \/ Picker!Redraws(kind, e),
                   answer |-> "waits"]
<1>1. pickerMade' = pickerMade + 1
      /\ pickerRequests' = (pickerRequests \ R) \cup Picker!Excused(R) \cup {new}
  BY DEF Picker!Ask
<1>2. (DOMAIN server # DOMAIN pickerTab \/ R # {} \/ Picker!Redraws(kind, e)) \in BOOLEAN
  OBVIOUS
<1>3. R \subseteq pickerRequests
  BY DEF Picker!Rivals
<1>4. Asks(kind, e, value, new)
  BY <1>1, <1>2 DEF Asks
<1> HIDE DEF new, R
<1>5. \A q \in pickerRequests' : q = new \/ \E o \in pickerRequests : q = Marked(o, R)
  BY <1>1, <1>3 DEF Picker!Excused, Marked
<1>6. QED BY <1>4, <1>5 DEF R

\* What asking leaves alone, and what the tab asks for.
AskedWell(kind, e, value) ==
    /\ Picker!Ask(kind, e, value)
    /\ kind \in RequestKinds /\ e \in Links /\ value \in Values
    /\ UNCHANGED <<server, pickerTab, heard, others, pickerEdits, focus>>
    /\ kind = "pick" => e[3] = pickerMade + 1 /\ ~Picker!WouldRefuse(DOMAIN pickerTab, e)
    /\ kind # "pick" => e \in DOMAIN pickerTab
    /\ IF kind = "unlink" THEN e \notin removing /\ removing' = removing \cup {e}
                          ELSE removing' = removing
    /\ IF kind = "reason"
       THEN box # Picker!NoBox /\ box.open /\ box' = [box EXCEPT !.open = FALSE]
                          ELSE box' = box

Core == PickerTyped /\ BoxHeld /\ LinksNumbered /\ GoneForGood /\ Standing /\ OneRemoval

LEMMA AskTyped ==
    ASSUME PickerTyped, NEW kind, NEW e, NEW value, AskedWell(kind, e, value)
    PROVE  PickerTyped'
<1>1. UNCHANGED <<server, pickerTab, heard, others, pickerEdits, focus>>
  BY DEF AskedWell
<1>2. PICK new : /\ Asks(kind, e, value, new)
                 /\ \A q \in pickerRequests' :
                       q = new \/ \E o \in pickerRequests : q = Marked(o, Picker!Rivals(kind, e))
  BY Asked DEF AskedWell
<1>3. pickerMade \in Nat /\ pickerEdits \in Nat /\ pickerMade' = pickerMade + 1
      /\ pickerEdits' = pickerEdits
  BY <1>1, <1>2 DEF PickerTyped, Asks
<1>4. RequestShape(new)'
  <2>1. kind \in RequestKinds /\ e \in Links /\ value \in Values
    BY DEF AskedWell
  <2>2. QED BY <1>2, <1>3, <2>1 DEF Asks, RequestShape
<1>5. ASSUME NEW q \in pickerRequests', q # new
      PROVE  /\ RequestShape(q)'
             /\ \E o \in pickerRequests : q = Marked(o, Picker!Rivals(kind, e)) /\ q.id = o.id
                   /\ q.id <= pickerMade
  <2>1. PICK o \in pickerRequests : q = Marked(o, Picker!Rivals(kind, e))
    BY <1>2, <1>5
  <2>2. RequestShape(q) /\ q.id = o.id
    BY <2>1, MarkedFields
  <2>3. q.id <= pickerMade /\ q.id \in Nat
    BY <2>2 DEF RequestShape
  <2>4. RequestShape(q)'
    BY <1>3, <2>2 DEF RequestShape
  <2>5. QED BY <2>1, <2>2, <2>3, <2>4
<1>6. new.id = pickerMade + 1
  BY <1>2 DEF Asks
<1>7. ASSUME NEW r \in pickerRequests', NEW q \in pickerRequests', r.id = q.id PROVE r = q
  <2>1. CASE r = new \/ q = new
    <3>1. \A x \in pickerRequests' : x.id = pickerMade + 1 => x = new
      <4> SUFFICES ASSUME NEW x \in pickerRequests', x.id = pickerMade + 1, x # new PROVE FALSE
        OBVIOUS
      <4>1. x.id <= pickerMade
        BY <1>5
      <4>2. QED BY <1>3, <4>1
    <3>2. QED BY <1>6, <1>7, <2>1, <3>1
  <2>2. CASE r # new /\ q # new
    <3>1. PICK o \in pickerRequests : r = Marked(o, Picker!Rivals(kind, e)) /\ r.id = o.id
      BY <1>5, <2>2
    <3>2. PICK p \in pickerRequests : q = Marked(p, Picker!Rivals(kind, e)) /\ q.id = p.id
      BY <1>5, <2>2
    <3>3. o = p
      BY <1>7, <3>1, <3>2 DEF PickerTyped
    <3>4. QED BY <3>1, <3>2, <3>3
  <2>3. QED BY <2>1, <2>2
<1>8. \A r \in pickerRequests' : RequestShape(r)' /\ \A q \in pickerRequests' : r.id = q.id
         => r = q
  BY <1>4, <1>5, <1>7
<1>9. QED BY <1>1, <1>3, <1>8 DEF PickerTyped

LEMMA AskBox ==
    ASSUME PickerTyped, BoxHeld, NEW kind, NEW e, NEW value, AskedWell(kind, e, value)
    PROVE  BoxHeld'
<1>1. pickerEdits' = pickerEdits /\ pickerTab' = pickerTab
  BY DEF AskedWell
<1>2. PICK new : /\ Asks(kind, e, value, new)
                 /\ \A q \in pickerRequests' :
                       q = new \/ \E o \in pickerRequests : q = Marked(o, Picker!Rivals(kind, e))
  BY Asked DEF AskedWell
<1>3. ASSUME NEW q \in pickerRequests', q # new
      PROVE  \E o \in pickerRequests : q = Marked(o, Picker!Rivals(kind, e)) /\ q.kind = o.kind
                /\ q.edit = o.edit
  BY <1>2, <1>3, MarkedFields
<1>4. new.kind = kind /\ new.edit = pickerEdits
  BY <1>2 DEF Asks
<1>5. pickerEdits \in Nat /\ \A r \in pickerRequests : r.edit \in Nat
  BY DEF PickerTyped, RequestShape
<1>6. kind = "reason" =>
         /\ \A r \in pickerRequests : r.kind = "reason" => r.edit < pickerEdits
         /\ box'.open = FALSE /\ box' = [link |-> box.link, draft |-> box.draft, open |-> FALSE]
  BY DEF BoxHeld, AskedWell
<1>7. /\ box' = [link |-> box'.link, draft |-> box'.draft, open |-> box'.open]
      /\ box' # Picker!NoBox => box'.link \in DOMAIN pickerTab' /\ box'.draft \in Values
  <2>1. CASE kind = "reason"
    <3>1. box # Picker!NoBox
      BY <2>1 DEF AskedWell
    <3>2. QED BY <1>1, <1>6, <2>1, <3>1 DEF BoxHeld
  <2>2. CASE kind # "reason"
    BY <1>1, <2>2 DEF BoxHeld, AskedWell
  <2>3. QED BY <2>1, <2>2
<1>8. ASSUME NEW r \in pickerRequests', r.kind = "reason", box' # Picker!NoBox, box'.open
      PROVE  r.edit < pickerEdits'
  <2>1. kind # "reason" /\ box' = box
    BY <1>6, <1>8 DEF AskedWell
  <2>2. r # new
    BY <1>4, <1>8, <2>1
  <2>3. QED BY <1>1, <1>3, <1>8, <2>1, <2>2 DEF BoxHeld
<1>9. ASSUME NEW r \in pickerRequests', NEW q \in pickerRequests', r.kind = "reason",
             q.kind = "reason",
             r.edit = q.edit
      PROVE  r = q
  <2>1. CASE r # new /\ q # new
    <3>1. PICK o \in pickerRequests :
             r = Marked(o, Picker!Rivals(kind, e)) /\ r.kind = o.kind /\ r.edit = o.edit
      BY <1>3, <2>1
    <3>2. PICK p \in pickerRequests :
             q = Marked(p, Picker!Rivals(kind, e)) /\ q.kind = p.kind /\ q.edit = p.edit
      BY <1>3, <2>1
    <3>3. o = p
      BY <1>9, <3>1, <3>2 DEF BoxHeld
    <3>4. QED BY <3>1, <3>2, <3>3
  <2>2. CASE r = new \/ q = new
    <3>1. kind = "reason"
      BY <1>4, <1>9, <2>2
    <3>2. \A x \in pickerRequests' : x.kind = "reason" /\ x # new => x.edit < pickerEdits
      BY <1>3, <1>6, <3>1
    <3>3. QED BY <1>4, <1>5, <1>9, <2>2, <3>2
  <2>3. QED BY <2>1, <2>2
<1>10. QED BY <1>7, <1>8, <1>9 DEF BoxHeld

LEMMA NamedLinks ==
    ASSUME PickerTyped, NEW l, Named(l)
    PROVE  l \in Links
<1>1. CASE l \in DOMAIN server \cup DOMAIN pickerTab
  BY <1>1 DEF PickerTyped
<1>2. CASE \E i \in DOMAIN heard : heard[i].link = l
  <2>1. \A i \in DOMAIN heard : heard[i] \in Events
    BY DEF PickerTyped
  <2>2. QED BY <1>2, <2>1 DEF Events
<1>3. CASE \E r \in pickerRequests : r.link = l
  BY <1>3 DEF PickerTyped, RequestShape
<1>4. QED BY <1>1, <1>2, <1>3 DEF Named

LEMMA AskNumbered ==
    ASSUME PickerTyped, LinksNumbered, NEW kind, NEW e, NEW value, AskedWell(kind, e, value)
    PROVE  LinksNumbered'
<1>1. UNCHANGED <<server, pickerTab, heard, others>>
  BY DEF AskedWell
<1>2. PICK new : /\ Asks(kind, e, value, new)
                 /\ \A q \in pickerRequests' :
                       q = new \/ \E o \in pickerRequests : q = Marked(o, Picker!Rivals(kind, e))
  BY Asked DEF AskedWell
<1>3. ASSUME NEW q \in pickerRequests', q # new
      PROVE  \E o \in pickerRequests : /\ q.id = o.id /\ q.kind = o.kind /\ q.link = o.link
                                       /\ q.answer = o.answer
  BY <1>2, <1>3, MarkedFields
<1>4. new.id = pickerMade + 1 /\ new.kind = kind /\ new.link = e /\ new.answer = "waits"
      /\ pickerMade' = pickerMade + 1
  BY <1>2 DEF Asks
<1>5. pickerMade \in Nat /\ \A r \in pickerRequests : r.id \in Nat /\ r.id <= pickerMade
  BY DEF PickerTyped, RequestShape
<1>6. ASSUME NEW l, Named(l)' PROVE Named(l)
  <2>1. CASE l \in DOMAIN server \cup DOMAIN pickerTab \/ \E i \in DOMAIN heard :
           heard[i].link = l
    BY <2>1 DEF Named
  <2>2. CASE \E r \in pickerRequests' : r.link = l /\ ~ToMake(r)
    <3>1. PICK r \in pickerRequests' : r.link = l /\ ~ToMake(r)
      BY <2>2
    <3>2. CASE r = new
      <4>1. e \in DOMAIN pickerTab /\ l = e
        BY <1>4, <3>1, <3>2 DEF ToMake, Waits, AskedWell
      <4>2. QED BY <4>1 DEF Named
    <3>3. CASE r # new
      BY <1>3, <3>1, <3>3 DEF Named, ToMake, Waits
    <3>4. QED BY <3>2, <3>3
  <2>3. QED BY <1>1, <1>6, <2>1, <2>2 DEF Named
<1>7. \A l : Named(l) => /\ -others <= l[3] /\ l[3] <= pickerMade
                         /\ \A r \in pickerRequests : ToMake(r) => l[3] # r.id
  BY DEF LinksNumbered
<1> HIDE DEF Named
<1>8. ASSUME NEW l, Named(l)'
      PROVE  /\ -others' <= l[3] /\ l[3] <= pickerMade'
             /\ \A r \in pickerRequests' : ToMake(r) => l[3] # r.id
  <2>1. /\ -others <= l[3] /\ l[3] <= pickerMade
        /\ \A r \in pickerRequests : ToMake(r) => l[3] # r.id
    BY <1>6, <1>7, <1>8
  <2>2. l[3] \in Int
    BY <1>6, <1>8, NamedLinks DEF Links
  <2>3. ASSUME NEW r \in pickerRequests', ToMake(r) PROVE l[3] # r.id
    <3>1. CASE r = new
      BY <1>4, <1>5, <2>1, <2>2, <3>1
    <3>2. CASE r # new
      BY <1>3, <2>1, <2>3, <3>2 DEF ToMake, Waits
    <3>3. QED BY <3>1, <3>2
  <2>4. QED BY <1>1, <1>4, <1>5, <2>1, <2>2, <2>3
<1>9. ASSUME NEW r \in pickerRequests', ToMake(r) PROVE r.link[3] = r.id
  <2>1. CASE r = new
    BY <1>4, <1>9, <2>1 DEF ToMake, AskedWell
  <2>2. CASE r # new
    BY <1>3, <1>9, <2>2 DEF ToMake, Waits, LinksNumbered
  <2>3. QED BY <2>1, <2>2
<1>10. QED BY <1>8, <1>9 DEF LinksNumbered

LEMMA AskGone ==
    ASSUME PickerTyped, GoneForGood, NEW kind, NEW e, NEW value, AskedWell(kind, e, value)
    PROVE  GoneForGood'
<1>1. UNCHANGED <<server, heard>>
  BY DEF AskedWell
<1>2. PICK new : /\ Asks(kind, e, value, new)
                 /\ \A q \in pickerRequests' :
                       q = new \/ \E o \in pickerRequests : q = Marked(o, Picker!Rivals(kind, e))
  BY Asked DEF AskedWell
<1>3. ASSUME NEW q \in pickerRequests', q # new
      PROVE  \E o \in pickerRequests : q.kind = o.kind /\ q.link = o.link /\ q.answer = o.answer
  BY <1>2, <1>3, MarkedFields
<1>4. new.answer = "waits"
  BY <1>2 DEF Asks
<1>5. ASSUME NEW r \in pickerRequests', r.kind = "unlink", r.answer \in {"done", "lost"}
      PROVE  r.link \notin DOMAIN server
  BY <1>3, <1>4, <1>5 DEF GoneForGood
<1>6. QED BY <1>1, <1>5 DEF GoneForGood

\* Of the requests to remove a link that nothing can refuse, none is under way when its
\* chip is clicked.
LEMMA NoneUnderWay ==
    ASSUME PickerTyped, GoneForGood, Standing, DOMAIN server = DOMAIN pickerTab,
           NEW e \in DOMAIN pickerTab, e \notin removing, NEW q \in pickerRequests,
           q.kind = "unlink", q.link = e
    PROVE  q.excused
<1> SUFFICES ASSUME ~q.excused PROVE FALSE
  OBVIOUS
<1>1. CASE q.answer = "waits"
  BY <1>1 DEF Standing, Waits, UnlinkStands
<1>2. CASE q.answer = "refused"
  BY <1>2 DEF Standing
<1>3. CASE q.answer \in {"done", "lost"}
  BY <1>3 DEF GoneForGood
<1>4. QED BY <1>1, <1>2, <1>3 DEF PickerTyped, RequestShape

LEMMA AskOneRemoval ==
    ASSUME PickerTyped, GoneForGood, Standing, OneRemoval, NEW kind, NEW e, NEW value,
           AskedWell(kind, e, value)
    PROVE  OneRemoval'
<1>1. PICK new : /\ Asks(kind, e, value, new)
                 /\ \A q \in pickerRequests' :
                       q = new \/ \E o \in pickerRequests : q = Marked(o, Picker!Rivals(kind, e))
  BY Asked DEF AskedWell
<1>2. ASSUME NEW q \in pickerRequests', q # new
      PROVE  \E o \in pickerRequests : /\ q = Marked(o, Picker!Rivals(kind, e)) /\ q.kind = o.kind
                                       /\ q.link = o.link /\ (o.excused => q.excused)
  BY <1>1, <1>2, MarkedFields
<1>3. new.kind = kind /\ new.link = e
      /\ (~new.excused => DOMAIN server = DOMAIN pickerTab /\ Picker!Rivals(kind, e) = {})
  BY <1>1 DEF Asks
<1>4. ASSUME NEW q \in pickerRequests', q # new, q.kind = "unlink", ~q.excused, q.link = e,
             kind = "unlink", ~new.excused
      PROVE  FALSE
  <2>1. PICK o \in pickerRequests : o.kind = "unlink" /\ o.link = e
    BY <1>2, <1>4
  <2>2. e \in DOMAIN pickerTab /\ e \notin removing
    BY <1>4 DEF AskedWell
  <2>3. o.excused
    BY <1>3, <1>4, <2>1, <2>2, NoneUnderWay
  <2>4. o \in Picker!Rivals("unlink", e)
    BY <2>1, <2>3 DEF Picker!Rivals
  <2>5. QED BY <1>3, <1>4, <2>4
<1>5. ASSUME NEW r \in pickerRequests', NEW q \in pickerRequests', r.kind = "unlink",
             q.kind = "unlink",
             ~r.excused, ~q.excused, r.link = q.link
      PROVE  r = q
  <2>1. CASE r # new /\ q # new
    <3>1. PICK o \in pickerRequests : /\ r = Marked(o, Picker!Rivals(kind, e)) /\ r.kind = o.kind
                                      /\ r.link = o.link /\ (o.excused => r.excused)
      BY <1>2, <2>1
    <3>2. PICK p \in pickerRequests : /\ q = Marked(p, Picker!Rivals(kind, e)) /\ q.kind = p.kind
                                      /\ q.link = p.link /\ (p.excused => q.excused)
      BY <1>2, <2>1
    <3>3. o = p
      BY <1>5, <3>1, <3>2 DEF OneRemoval
    <3>4. QED BY <3>1, <3>2, <3>3
  <2>2. CASE r = new \/ q = new
    BY <1>3, <1>4, <1>5, <2>2
  <2>3. QED BY <2>1, <2>2
<1>6. QED BY <1>5 DEF OneRemoval

LEMMA AskStanding ==
    ASSUME PickerTyped, GoneForGood, Standing, NEW kind, NEW e, NEW value,
           AskedWell(kind, e, value)
    PROVE  Standing'
<1> DEFINE R == Picker!Rivals(kind, e)
<1>1. PICK new : /\ Asks(kind, e, value, new)
                 /\ \A q \in pickerRequests' : q = new \/ \E o \in pickerRequests :
                       q = Marked(o, R)
  BY Asked DEF AskedWell
<1>2. UNCHANGED <<server, pickerTab, heard>>
  BY DEF AskedWell
<1>3. new.kind = kind /\ new.link = e /\ new.answer = "waits"
      /\ (~new.excused => DOMAIN server = DOMAIN pickerTab /\ R = {} /\ ~Picker!Redraws(kind, e))
  BY <1>1 DEF Asks
<1>4. kind \in RequestKinds
  BY DEF AskedWell
<1>5. ASSUME NEW q \in pickerRequests', q # new
      PROVE  \E o \in pickerRequests : /\ q = Marked(o, R) /\ q.kind = o.kind /\ q.link = o.link
                                       /\ q.answer = o.answer
                                       /\ (q.excused <=> o.excused \/ o \in R)
  BY <1>1, <1>5, MarkedFields
<1> HIDE DEF R
<1>6. ASSUME NEW r \in pickerRequests', r.answer = "refused" PROVE r.excused
  BY <1>3, <1>5, <1>6 DEF Standing
<1>7. ASSUME NEW r \in pickerRequests', ~r.excused, Waits(r), r.kind = "pick" PROVE LinkStands(r)'
  <2>1. CASE r = new
    <3>1. kind = "pick" /\ ~Picker!WouldRefuse(DOMAIN pickerTab, e) /\ R = {}
          /\ DOMAIN server = DOMAIN pickerTab
      BY <1>3, <1>7, <2>1 DEF AskedWell
    <3>2. \A o \in pickerRequests : o.kind = "pick" => o \in R
      BY <3>1 DEF R, Picker!Rivals
    <3>3. \A q \in pickerRequests' : q.kind = "pick" => q = r
      BY <1>5, <2>1, <3>1, <3>2
    <3>4. ~Picker!WouldRefuse(DOMAIN server, r.link)'
      BY <1>2, <1>3, <2>1, <3>1
    <3>5. QED BY <3>3, <3>4 DEF LinkStands
  <2>2. CASE r # new
    <3>1. PICK o \in pickerRequests : /\ r = Marked(o, R) /\ r.kind = o.kind /\ r.link = o.link
                                      /\ r.answer = o.answer
                                      /\ (r.excused <=> o.excused \/ o \in R)
      BY <1>5, <2>2
    <3>2. LinkStands(o)
      BY <1>7, <3>1 DEF Standing, Waits
    <3>3. kind # "pick"
      BY <1>7, <3>1 DEF R, Picker!Rivals
    <3>4. \A q \in pickerRequests' : q.kind = "pick" => q = r
      <4> SUFFICES ASSUME NEW q \in pickerRequests', q.kind = "pick" PROVE q = r
        OBVIOUS
      <4>1. PICK p \in pickerRequests : q = Marked(p, R) /\ q.kind = p.kind
        BY <1>3, <1>5, <3>3
      <4>2. p = o
        BY <3>2, <4>1 DEF LinkStands
      <4>3. QED BY <3>1, <4>1, <4>2
    <3>5. ~Picker!WouldRefuse(DOMAIN server, r.link)'
      BY <1>2, <3>1, <3>2 DEF LinkStands
    <3>6. QED BY <3>4, <3>5 DEF LinkStands
  <2>3. QED BY <2>1, <2>2
<1>8. ASSUME NEW r \in pickerRequests', ~r.excused, Waits(r), r.kind = "reason"
      PROVE ReasonStands(r)'
  <2>1. CASE r = new
    <3>1. kind = "reason" /\ e \in DOMAIN pickerTab /\ R = {} /\ DOMAIN server = DOMAIN pickerTab
      BY <1>3, <1>8, <2>1 DEF AskedWell
    <3>2. \A o \in pickerRequests : o.kind = "unlink" /\ o.link = e => o \in R
      BY <3>1 DEF R, Picker!Rivals
    <3>3. \A q \in pickerRequests' : q.kind = "unlink" => q.link # e
      BY <1>3, <1>5, <3>1, <3>2
    <3>4. QED BY <1>2, <1>3, <2>1, <3>1, <3>3 DEF ReasonStands
  <2>2. CASE r # new
    <3>1. PICK o \in pickerRequests : /\ r = Marked(o, R) /\ r.kind = o.kind /\ r.link = o.link
                                      /\ r.answer = o.answer
                                      /\ (r.excused <=> o.excused \/ o \in R)
      BY <1>5, <2>2
    <3>2. ReasonStands(o)
      BY <1>8, <3>1 DEF Standing, Waits
    <3>3. kind = "unlink" => r.link # e
      BY <1>8, <3>1 DEF R, Picker!Rivals
    <3>4. \A q \in pickerRequests' : q.kind = "unlink" => q.link # r.link
      <4> SUFFICES ASSUME NEW q \in pickerRequests', q.kind = "unlink" PROVE q.link # r.link
        OBVIOUS
      <4>1. CASE q = new
        BY <1>3, <3>3, <4>1
      <4>2. CASE q # new
        BY <1>5, <3>1, <3>2, <4>2 DEF ReasonStands
      <4>3. QED BY <4>1, <4>2
    <3>5. QED BY <1>2, <3>1, <3>2, <3>4 DEF ReasonStands
  <2>3. QED BY <2>1, <2>2
<1>9. ASSUME NEW r \in pickerRequests', ~r.excused, Waits(r), r.kind = "unlink"
      PROVE UnlinkStands(r)'
  <2>1. CASE r = new
    <3>1. /\ kind = "unlink" /\ e \in DOMAIN pickerTab /\ R = {}
          /\ DOMAIN server = DOMAIN pickerTab
          /\ ~Picker!Redraws("unlink", e) /\ e \notin removing /\ e \in removing'
      BY <1>3, <1>9, <2>1 DEF AskedWell
    <3>2. \A o \in pickerRequests : o.kind \in {"unlink", "reason"} /\ o.link = e => o \in R
      <4> SUFFICES ASSUME NEW o \in pickerRequests, o.kind \in {"unlink", "reason"}, o.link = e
                   PROVE  o \in R
        OBVIOUS
      <4>1. o.kind = "unlink" => o.excused
        BY <3>1, NoneUnderWay
      <4>2. QED BY <3>1, <4>1 DEF R, Picker!Rivals
    <3>3. \A q \in pickerRequests' : q.kind \in {"unlink", "reason"} /\ q.link = e => q = new
      BY <1>5, <3>1, <3>2
    <3>4. ~Picker!Redraws("unlink", r.link)'
      BY <1>2, <1>3, <2>1, <3>1 DEF Picker!Redraws
    <3>5. QED BY <1>2, <1>3, <2>1, <3>1, <3>3, <3>4 DEF UnlinkStands
  <2>2. CASE r # new
    <3>1. PICK o \in pickerRequests : /\ r = Marked(o, R) /\ r.kind = o.kind /\ r.link = o.link
                                      /\ r.answer = o.answer
                                      /\ (r.excused <=> o.excused \/ o \in R)
      BY <1>5, <2>2
    <3>2. UnlinkStands(o)
      BY <1>9, <3>1 DEF Standing, Waits
    <3>3. kind \in {"unlink", "reason"} => r.link # e
      <4>1. kind = "reason" => r.link # e
        BY <1>9, <3>1 DEF R, Picker!Rivals
      <4>2. kind = "unlink" => r.link # e
        BY <3>1, <3>2 DEF UnlinkStands, AskedWell
      <4>3. QED BY <4>1, <4>2
    <3>4. \A q \in pickerRequests' : q.kind \in {"unlink", "reason"} /\ q.link = r.link => q = r
      <4> SUFFICES ASSUME NEW q \in pickerRequests', q.kind \in {"unlink", "reason"},
                          q.link = r.link
                   PROVE  q = r
        OBVIOUS
      <4>1. q # new
        BY <1>3, <3>3
      <4>2. PICK p \in pickerRequests : q = Marked(p, R) /\ q.kind = p.kind /\ q.link = p.link
        BY <1>5, <4>1
      <4>3. p = o
        BY <3>1, <3>2, <4>2 DEF UnlinkStands
      <4>4. QED BY <3>1, <4>2, <4>3
    <3>5. ~Picker!Redraws("unlink", r.link)'
      BY <1>2, <3>1, <3>2 DEF Picker!Redraws, UnlinkStands
    <3>6. r.link \in removing'
      BY <3>1, <3>2 DEF UnlinkStands, AskedWell
    <3>7. QED BY <1>2, <3>1, <3>2, <3>4, <3>5, <3>6 DEF UnlinkStands
  <2>3. QED BY <2>1, <2>2
<1>10. QED BY <1>6, <1>7, <1>8, <1>9 DEF Standing

LEMMA AskKeeps ==
    ASSUME Core, NEW kind, NEW e, NEW value, AskedWell(kind, e, value)
    PROVE  Core'
BY AskTyped, AskBox, AskNumbered, AskGone, AskStanding, AskOneRemoval DEF Core

----------------------------------------------------------------------------
(* The server handles a request.                                           *)

\* What it does to the links, the events and the request.
Handles(r, done) ==
    /\ Waits(r)
    /\ UNCHANGED <<pickerTab, others, focus, box, removing, pickerEdits, pickerMade, recent,
                   pickedAt>>
    /\ done.id = r.id /\ done.kind = r.kind /\ done.link = r.link /\ done.edit = r.edit
    /\ done.excused = r.excused /\ ~Waits(done) /\ RequestShape(done)
    /\ pickerRequests' = (pickerRequests \ {r}) \cup {done}
    /\ IF Picker!Granted(r)
       THEN /\ done.answer \in {"done", "lost"}
            /\ DOMAIN server' = CASE r.kind = "pick" -> DOMAIN server \cup {r.link}
                                  [] r.kind = "unlink" -> DOMAIN server \ {r.link}
                                  [] OTHER -> DOMAIN server
            /\ Len(heard') = Len(heard) + 1 /\ heard' \in Seq(Events)
            /\ \A i \in DOMAIN heard' : \/ heard'[i].kind = r.kind /\ heard'[i].link = r.link
                                        \/ i \in DOMAIN heard /\ heard'[i] = heard[i]
       ELSE /\ done.answer = "refused"
            /\ UNCHANGED <<server, heard>>

LEMMA Handled ==
    ASSUME PickerTyped, NEW r \in pickerRequests, Picker!Handle(r)
    PROVE  \E done : Handles(r, done)
<1>1. PICK answer \in {"done", "lost", "refused"} :
         /\ pickerRequests' = (pickerRequests \ {r}) \cup {[r EXCEPT !.answer = answer]}
         /\ IF Picker!Granted(r)
            THEN /\ answer \in {"done", "lost"} /\ server' = Picker!Applied(r)
                 /\ heard' = Append(heard, [kind |-> r.kind, link |-> r.link, value |-> r.value])
            ELSE answer = "refused" /\ UNCHANGED <<server, heard>>
  BY DEF Picker!Handle, Picker!Answered
<1> DEFINE done == [r EXCEPT !.answer = answer]
<1>2. RequestShape(r)
  BY DEF PickerTyped
<1>3. done = [id |-> r.id, kind |-> r.kind, link |-> r.link, value |-> r.value,
              edit |-> r.edit, excused |-> r.excused, answer |-> answer]
  BY <1>2 DEF RequestShape
<1>4. /\ done.id = r.id /\ done.kind = r.kind /\ done.link = r.link /\ done.edit = r.edit
      /\ done.excused = r.excused /\ done.answer = answer /\ ~Waits(done) /\ RequestShape(done)
  BY <1>1, <1>2, <1>3 DEF RequestShape, Waits
<1>5. pickerRequests' = (pickerRequests \ {r}) \cup {done}
  BY <1>1
<1> HIDE DEF done
<1>6. CASE Picker!Granted(r)
  <2>1. server' = Picker!Applied(r)
        /\ heard' = Append(heard, [kind |-> r.kind, link |-> r.link, value |-> r.value])
    BY <1>1, <1>6
  <2>2. DOMAIN server' = CASE r.kind = "pick" -> DOMAIN server \cup {r.link}
                           [] r.kind = "unlink" -> DOMAIN server \ {r.link}
                           [] OTHER -> DOMAIN server
    <3>1. r.kind \notin {"pick", "unlink"} => r.link \in DOMAIN server
      BY <1>6 DEF Picker!Granted
    <3>2. QED BY <2>1, <3>1 DEF Picker!Applied, Picker!With, Picker!Without
  <2>3. heard \in Seq(Events) /\ [kind |-> r.kind, link |-> r.link, value |-> r.value] \in Events
    BY <1>2 DEF PickerTyped, RequestShape, Events
  <2>4. /\ Len(heard') = Len(heard) + 1 /\ heard' \in Seq(Events)
        /\ \A i \in DOMAIN heard' : \/ heard'[i].kind = r.kind /\ heard'[i].link = r.link
                                    \/ i \in DOMAIN heard /\ heard'[i] = heard[i]
    <3> DEFINE m == [kind |-> r.kind, link |-> r.link, value |-> r.value]
    <3>1. m.kind = r.kind /\ m.link = r.link
      OBVIOUS
    <3>2. m \in Events /\ heard' = Append(heard, m)
      BY <2>1, <2>3
    <3> HIDE DEF m
    <3>3. heard' \in Seq(Events) /\ Len(heard') = Len(heard) + 1
      BY <2>3, <3>2
    <3>4. \A i \in DOMAIN heard' : heard'[i] = m \/ (i \in DOMAIN heard /\ heard'[i] = heard[i])
      BY <2>3, <3>2
    <3>5. QED BY <3>1, <3>3, <3>4
  <2>5. Handles(r, done)
    BY <1>1, <1>4, <1>5, <1>6, <2>2, <2>4 DEF Handles, Picker!Handle, Picker!picker, Picker!chips,
       Waits
  <2>6. QED BY <2>5
<1>7. CASE ~Picker!Granted(r)
  <2>1. Handles(r, done)
    BY <1>1, <1>4, <1>5, <1>7 DEF Handles, Picker!Handle, Picker!picker, Picker!chips, Waits
  <2>2. QED BY <2>1
<1>8. QED BY <1>6, <1>7

\* The server handles only what it may.
LEMMA Refusals ==
    ASSUME PickerTyped, Standing, NEW r \in pickerRequests, Waits(r), ~r.excused
    PROVE  Picker!Granted(r)
BY DEF Standing, LinkStands, ReasonStands, UnlinkStands, Picker!Granted, PickerTyped,
   RequestShape, RequestKinds

LEMMA HandleTyped ==
    ASSUME PickerTyped, NEW r \in pickerRequests, NEW done, Handles(r, done)
    PROVE  PickerTyped'
<1>1. UNCHANGED <<pickerTab, others, focus, pickerEdits, pickerMade>>
      /\ pickerRequests' = (pickerRequests \ {r}) \cup {done}
      /\ RequestShape(done) /\ done.id = r.id
  BY DEF Handles
<1>2. DOMAIN server' \subseteq Links /\ heard' \in Seq(Events)
  <2>1. r.link \in Links /\ heard \in Seq(Events) /\ DOMAIN server \subseteq Links
    BY DEF PickerTyped, RequestShape
  <2>2. CASE Picker!Granted(r)
    <3>1. DOMAIN server' \subseteq DOMAIN server \cup {r.link} /\ heard' \in Seq(Events)
      BY <2>2 DEF Handles
    <3>2. QED BY <2>1, <3>1
  <2>3. CASE ~Picker!Granted(r)
    BY <2>1, <2>3 DEF Handles
  <2>4. QED BY <2>2, <2>3
<1>3. \A q \in pickerRequests' : RequestShape(q)' /\ \A p \in pickerRequests' : q.id = p.id
         => q = p
  <2>1. \A q \in pickerRequests' : RequestShape(q)
    BY <1>1 DEF PickerTyped
  <2>2. \A q \in pickerRequests' : RequestShape(q)'
    BY <1>1, <2>1 DEF RequestShape
  <2>3. \A q, p \in pickerRequests' : q.id = p.id => q = p
    BY <1>1 DEF PickerTyped
  <2>4. QED BY <2>2, <2>3
<1>4. QED BY <1>1, <1>2, <1>3 DEF PickerTyped

LEMMA HandleBox ==
    ASSUME PickerTyped, BoxHeld, NEW r \in pickerRequests, NEW done, Handles(r, done)
    PROVE  BoxHeld'
<1>1. UNCHANGED <<pickerTab, box, pickerEdits>>
      /\ pickerRequests' = (pickerRequests \ {r}) \cup {done}
      /\ done.kind = r.kind /\ done.edit = r.edit
  BY DEF Handles
<1>2. \A q \in pickerRequests' : q.kind = "reason" /\ box # Picker!NoBox /\ box.open
         => q.edit < pickerEdits
  BY <1>1 DEF BoxHeld
<1>3. \A q, p \in pickerRequests' : q.kind = "reason" /\ p.kind = "reason" /\ q.edit = p.edit
         => q = p
  BY <1>1 DEF BoxHeld
<1>4. QED BY <1>1, <1>2, <1>3 DEF BoxHeld

LEMMA HandleNumbered ==
    ASSUME PickerTyped, LinksNumbered, NEW r \in pickerRequests, NEW done, Handles(r, done)
    PROVE  LinksNumbered'
<1>1. UNCHANGED <<pickerTab, others, pickerMade>>
      /\ pickerRequests' = (pickerRequests \ {r}) \cup {done}
      /\ done.link = r.link /\ ~Waits(done)
  BY DEF Handles
<1>2. ASSUME NEW l, Named(l)' PROVE Named(l) \/ l = r.link
  <2>1. CASE l \in DOMAIN server'
    BY <2>1 DEF Handles, Named
  <2>2. CASE l \in DOMAIN pickerTab'
    BY <1>1, <2>2 DEF Named
  <2>3. CASE \E i \in DOMAIN heard' : heard'[i].link = l
    <3>1. PICK i \in DOMAIN heard' : heard'[i].link = l
      BY <2>3
    <3>2. heard'[i].link = r.link \/ (i \in DOMAIN heard /\ heard'[i] = heard[i])
      BY <3>1 DEF Handles
    <3>3. QED BY <3>1, <3>2 DEF Named
  <2>4. CASE \E q \in pickerRequests' : q.link = l /\ ~ToMake(q)
    BY <1>1, <2>4 DEF Named
  <2>5. QED BY <1>2, <2>1, <2>2, <2>3, <2>4 DEF Named
<1>3. \A q \in pickerRequests' : ToMake(q) => q \in pickerRequests /\ q # r
  BY <1>1 DEF ToMake
<1>4. /\ pickerMade \in Nat /\ others \in Nat /\ r.id \in Nat /\ r.id <= pickerMade
      /\ \A q \in pickerRequests : q.id = r.id => q = r
  BY DEF PickerTyped, RequestShape
<1>5. \A l : Named(l) => /\ -others <= l[3] /\ l[3] <= pickerMade
                         /\ \A q \in pickerRequests : ToMake(q) => l[3] # q.id
  BY DEF LinksNumbered
<1> HIDE DEF Named
<1>6. ASSUME NEW l, Named(l)'
      PROVE  /\ -others' <= l[3] /\ l[3] <= pickerMade'
             /\ \A q \in pickerRequests' : ToMake(q) => l[3] # q.id
  <2>1. CASE Named(l)
    BY <1>1, <1>3, <1>5, <2>1
  <2>2. CASE l = r.link /\ ~Named(l)
    <3>1. ToMake(r) /\ l[3] = r.id
      BY <2>2 DEF Named, LinksNumbered
    <3>2. QED BY <1>1, <1>3, <1>4, <3>1
  <2>3. QED BY <1>2, <1>6, <2>1, <2>2
<1>7. QED BY <1>3, <1>6 DEF LinksNumbered

LEMMA HandleGone ==
    ASSUME PickerTyped, LinksNumbered, GoneForGood, NEW r \in pickerRequests, NEW done,
           Handles(r, done)
    PROVE  GoneForGood'
<1>1. pickerRequests' = (pickerRequests \ {r}) \cup {done} /\ done.link = r.link
      /\ done.kind = r.kind
  BY DEF Handles
<1>2. CASE ~Picker!Granted(r)
  <2>1. UNCHANGED <<server, heard>> /\ done.answer = "refused"
    BY <1>2 DEF Handles
  <2>2. \A q \in pickerRequests' : q.kind = "unlink" /\ q.answer \in {"done", "lost"}
                             => q.link \notin DOMAIN server
    BY <1>1, <2>1 DEF GoneForGood
  <2>3. QED BY <2>1, <2>2 DEF GoneForGood
<1>3. CASE Picker!Granted(r)
  <2>1. ASSUME NEW l, Named(l), l \in DOMAIN server' PROVE l \in DOMAIN server
    <3>1. CASE r.kind = "pick"
      <4>1. Waits(r) /\ ToMake(r)
        BY <3>1 DEF Handles, ToMake
      <4>2. l[3] # r.id /\ r.link[3] = r.id
        BY <2>1, <4>1 DEF LinksNumbered
      <4>3. QED BY <1>3, <2>1, <3>1, <4>2 DEF Handles
    <3>2. CASE r.kind # "pick"
      BY <1>3, <2>1, <3>2 DEF Handles
    <3>3. QED BY <3>1, <3>2
  <2>2. r.kind = "unlink" => r.link \notin DOMAIN server'
    BY <1>3 DEF Handles
  <2>3. ASSUME NEW i \in DOMAIN heard', heard'[i].kind = "unlink"
        PROVE  heard'[i].link \notin DOMAIN server'
    <3>1. \/ \/ heard'[i].kind = r.kind /\ heard'[i].link = r.link
             \/ i \in DOMAIN heard /\ heard'[i] = heard[i]
      BY <1>3 DEF Handles
    <3>2. CASE i \in DOMAIN heard /\ heard'[i] = heard[i]
      BY <2>1, <2>3, <3>2 DEF GoneForGood, Named
    <3>3. QED BY <2>2, <2>3, <3>1, <3>2
  <2>4. ASSUME NEW q \in pickerRequests', q.kind = "unlink", q.answer \in {"done", "lost"}
        PROVE  q.link \notin DOMAIN server'
    <3>1. CASE q = done
      BY <1>1, <2>2, <2>4, <3>1
    <3>2. CASE q # done
      <4>1. q \in pickerRequests /\ q.link \notin DOMAIN server
        BY <1>1, <2>4, <3>2 DEF GoneForGood
      <4>2. Named(q.link)
        BY <2>4, <4>1 DEF Named, ToMake
      <4>3. QED BY <2>1, <4>1, <4>2
    <3>3. QED BY <3>1, <3>2
  <2>5. QED BY <2>3, <2>4 DEF GoneForGood
<1>4. QED BY <1>2, <1>3

LEMMA HandleStanding ==
    ASSUME PickerTyped, Standing, NEW r \in pickerRequests, NEW done, Handles(r, done)
    PROVE  Standing'
<1>1. /\ pickerRequests' = (pickerRequests \ {r}) \cup {done} /\ done.link = r.link
      /\ done.kind = r.kind
      /\ done.excused = r.excused /\ ~Waits(done) /\ UNCHANGED <<pickerTab, removing>> /\ Waits(r)
  BY DEF Handles
<1>2. ASSUME NEW q \in pickerRequests', q.answer = "refused" PROVE q.excused
  <2>1. CASE q = done
    <3>1. ~Picker!Granted(r)
      BY <1>2, <2>1 DEF Handles
    <3>2. r.excused
      BY <1>1, <3>1, Refusals
    <3>3. QED BY <1>1, <2>1, <3>2
  <2>2. CASE q # done
    BY <1>1, <1>2, <2>2 DEF Standing
  <2>3. QED BY <2>1, <2>2
<1>3. ASSUME NEW q \in pickerRequests', Waits(q) PROVE q \in pickerRequests /\ q # r
  BY <1>1, <1>3
<1>4. r.kind # "pick" => DOMAIN server' \subseteq DOMAIN server
  BY DEF Handles
<1>5. \A l \in DOMAIN server : l \in DOMAIN server' \/ (r.kind = "unlink" /\ l = r.link)
  BY DEF Handles
<1>6. ASSUME NEW q \in pickerRequests', ~q.excused, Waits(q), q.kind = "pick" PROVE LinkStands(q)'
  <2>1. LinkStands(q) /\ q \in pickerRequests /\ q # r
    BY <1>3, <1>6 DEF Standing
  <2>2. r.kind # "pick"
    BY <2>1 DEF LinkStands
  <2>3. ~Picker!WouldRefuse(DOMAIN server', q.link)
    BY <1>4, <2>1, <2>2, FewerLinks DEF LinkStands
  <2>4. \A p \in pickerRequests' : p.kind = "pick" => p = q
    BY <1>1, <2>1, <2>2 DEF LinkStands
  <2>5. ~Picker!WouldRefuse(DOMAIN server, q.link)'
    BY <2>3
  <2>6. QED BY <2>4, <2>5 DEF LinkStands
<1>7. ASSUME NEW q \in pickerRequests', ~q.excused, Waits(q), q.kind = "reason"
      PROVE ReasonStands(q)'
  <2>1. ReasonStands(q) /\ q \in pickerRequests /\ q # r
    BY <1>3, <1>7 DEF Standing
  <2>2. QED BY <1>1, <1>5, <2>1 DEF ReasonStands
<1>8. ASSUME NEW q \in pickerRequests', ~q.excused, Waits(q), q.kind = "unlink"
      PROVE UnlinkStands(q)'
  <2>1. UnlinkStands(q) /\ q \in pickerRequests /\ q # r
    BY <1>3, <1>8 DEF Standing
  <2>2. r.kind \in {"unlink", "reason"} => r.link # q.link
    BY <2>1 DEF UnlinkStands
  <2>3. ~Picker!Redraws("unlink", q.link)'
    <3>1. \A i \in DOMAIN heard' : \/ \/ heard'[i].kind = r.kind /\ heard'[i].link = r.link
                                      \/ i \in DOMAIN heard /\ heard'[i] = heard[i]
      BY DEF Handles
    <3>2. QED BY <2>1, <2>2, <3>1 DEF UnlinkStands, Picker!Redraws
  <2>4. \A p \in pickerRequests' : p.kind \in {"unlink", "reason"} /\ p.link = q.link => p = q
    BY <1>1, <2>1, <2>2 DEF UnlinkStands
  <2>5. QED BY <1>1, <1>5, <2>1, <2>2, <2>3, <2>4 DEF UnlinkStands
<1>9. QED BY <1>2, <1>6, <1>7, <1>8 DEF Standing

LEMMA HandleOneRemoval ==
    ASSUME PickerTyped, OneRemoval, NEW r \in pickerRequests, NEW done, Handles(r, done)
    PROVE  OneRemoval'
<1>1. /\ pickerRequests' = (pickerRequests \ {r}) \cup {done} /\ done.link = r.link
      /\ done.kind = r.kind
      /\ done.excused = r.excused
  BY DEF Handles
<1>2. QED BY <1>1 DEF OneRemoval

LEMMA ServedKeeps ==
    ASSUME Core, NEW r \in pickerRequests, Picker!Handle(r)
    PROVE  Core'
<1>1. PICK done : Handles(r, done)
  BY Handled DEF Core
<1>2. QED BY <1>1, HandleTyped, HandleBox, HandleNumbered, HandleGone, HandleStanding,
             HandleOneRemoval DEF Core

----------------------------------------------------------------------------
(* An answer or an event reaches the tab.                                  *)

\* What showing it does to the page.
Shows(m) ==
    /\ DOMAIN pickerTab' \subseteq DOMAIN pickerTab \cup {m.link}
    /\ pickerTab' \in [DOMAIN pickerTab' -> Values]
    /\ (box' = box /\ (box # Picker!NoBox => box.link \in DOMAIN pickerTab'))
       \/ box' = Picker!NoBox
    /\ \A l \in DOMAIN pickerTab : l # m.link \/ m.kind = "pick" =>
          l \in DOMAIN pickerTab' /\ (l \in removing => l \in removing')

LEMMA Shown ==
    ASSUME PickerTyped, BoxHeld, NEW m, m.kind \in RequestKinds, m.value \in Values,
           Picker!Show(Picker!Merged(m))
    PROVE  Shows(m)
<1> DEFINE changed ==
               {e \in DOMAIN pickerTab : e \notin DOMAIN Picker!Merged(m)
                \/ Picker!Merged(m)[e] # pickerTab[e]}
<1>1. /\ pickerTab' = Picker!Merged(m)
      /\ box' = IF box # Picker!NoBox /\ box.link \in changed THEN Picker!NoBox ELSE box
      /\ removing' = removing \ changed
  BY DEF Picker!Show
<1>2. pickerTab \in [DOMAIN pickerTab -> Values]
  BY DEF PickerTyped
<1>3. /\ DOMAIN Picker!Merged(m) \subseteq DOMAIN pickerTab \cup {m.link}
      /\ Picker!Merged(m) \in [DOMAIN Picker!Merged(m) -> Values]
      /\ \A l \in DOMAIN pickerTab : l # m.link \/ m.kind = "pick" =>
            l \in DOMAIN Picker!Merged(m) /\ Picker!Merged(m)[l] = pickerTab[l]
  <2>1. CASE m.kind = "pick"
    <3>1. CASE m.link \in DOMAIN pickerTab
      BY <1>2, <2>1, <3>1 DEF Picker!Merged
    <3>2. CASE m.link \notin DOMAIN pickerTab
      <4>1. Picker!Merged(m) = [x \in DOMAIN pickerTab \cup {m.link} |->
                        IF x = m.link THEN m.value ELSE pickerTab[x]]
        BY <2>1, <3>2 DEF Picker!Merged, Picker!With
      <4>2. QED BY <1>2, <3>2, <4>1
    <3>3. QED BY <3>1, <3>2
  <2>2. CASE m.kind = "unlink"
    <3>1. Picker!Merged(m) = [x \in DOMAIN pickerTab \ {m.link} |-> pickerTab[x]]
      BY <2>2 DEF Picker!Merged, Picker!Without
    <3>2. QED BY <1>2, <2>2, <3>1
  <2>3. CASE m.kind = "reason"
    <3>1. Picker!Merged(m) = [x \in DOMAIN pickerTab \cup {m.link} |->
                      IF x = m.link THEN m.value ELSE pickerTab[x]]
      BY <2>3 DEF Picker!Merged, Picker!With
    <3>2. QED BY <1>2, <2>3, <3>1
  <2>4. QED BY <2>1, <2>2, <2>3 DEF RequestKinds
<1>4. (box' = box /\ (box # Picker!NoBox => box.link \in DOMAIN pickerTab'))
      \/ box' = Picker!NoBox
  <2>1. box # Picker!NoBox => box.link \in DOMAIN pickerTab
    BY DEF BoxHeld
  <2>2. CASE box # Picker!NoBox /\ box.link \in changed
    BY <1>1, <2>2
  <2>3. CASE ~(box # Picker!NoBox /\ box.link \in changed)
    BY <1>1, <2>1, <2>3
  <2>4. QED BY <2>2, <2>3
<1>5. QED BY <1>1, <1>3, <1>4 DEF Shows

\* What showing keeps, when the link is one that someone has heard of.
LEMMA ShowKeeps ==
    ASSUME Core, NEW m, Named(m.link), Shows(m), pickerRequests' \subseteq pickerRequests,
           UNCHANGED <<server, others, focus, pickerEdits, pickerMade>>,
           heard' \in Seq(Events),
           \A i \in DOMAIN heard' : \E j \in DOMAIN heard : heard'[i] = heard[j],
           \A q \in pickerRequests' : UnlinkStands(q) /\ Waits(q)
              => m.kind = "pick" \/ m.link # q.link
    PROVE  Core'
<1>1. PickerTyped /\ BoxHeld /\ LinksNumbered /\ GoneForGood /\ Standing /\ OneRemoval
  BY DEF Core
<1>2. PickerTyped'
  <2>1. DOMAIN pickerTab' \subseteq Links
    BY <1>1, NamedLinks DEF Shows, PickerTyped
  <2>2. \A r \in pickerRequests' : RequestShape(r)' /\ \A q \in pickerRequests' : r.id = q.id
           => r = q
    <3>1. \A r \in pickerRequests' : RequestShape(r)
      BY <1>1 DEF PickerTyped
    <3>2. QED BY <1>1, <3>1 DEF PickerTyped, RequestShape
  <2>3. QED BY <1>1, <2>1, <2>2 DEF PickerTyped, Shows
<1>3. BoxHeld'
  <2>1. CASE box' = box /\ (box # Picker!NoBox => box.link \in DOMAIN pickerTab')
    BY <1>1, <2>1 DEF BoxHeld
  <2>2. CASE box' = Picker!NoBox
    BY <1>1, <2>2 DEF BoxHeld, Picker!NoBox
  <2>3. QED BY <2>1, <2>2 DEF Shows
<1>4. \A l : Named(l)' => Named(l)
  <2> SUFFICES ASSUME NEW l, Named(l)' PROVE Named(l)
    OBVIOUS
  <2>1. CASE l \in DOMAIN server' \cup DOMAIN pickerTab'
    BY <2>1 DEF Named, Shows
  <2>2. CASE \E i \in DOMAIN heard' : heard'[i].link = l
    BY <2>2 DEF Named
  <2>3. CASE \E q \in pickerRequests' : q.link = l /\ ~ToMake(q)
    BY <2>3 DEF Named
  <2>4. QED BY <2>1, <2>2, <2>3 DEF Named
<1>5. LinksNumbered'
  <2> HIDE DEF Named
  <2>1. QED BY <1>1, <1>4 DEF LinksNumbered
<1>6. GoneForGood'
  BY <1>1 DEF GoneForGood
<1>7. OneRemoval'
  BY <1>1 DEF OneRemoval
<1>8. Standing'
  <2>1. ASSUME NEW q \in pickerRequests', ~q.excused, Waits(q), q.kind = "pick"
        PROVE LinkStands(q)'
    BY <1>1, <2>1 DEF Standing, LinkStands
  <2>2. ASSUME NEW q \in pickerRequests', ~q.excused, Waits(q), q.kind = "reason"
        PROVE ReasonStands(q)'
    BY <1>1, <2>2 DEF Standing, ReasonStands
  <2>3. ASSUME NEW q \in pickerRequests', ~q.excused, Waits(q), q.kind = "unlink"
        PROVE UnlinkStands(q)'
    <3>1. UnlinkStands(q)
      BY <1>1, <2>3 DEF Standing
    <3>2. q.link \in DOMAIN pickerTab' /\ q.link \in removing'
      BY <2>3, <3>1 DEF UnlinkStands, Shows
    <3>3. ~Picker!Redraws("unlink", q.link)'
      BY <3>1 DEF UnlinkStands, Picker!Redraws
    <3>4. QED BY <3>1, <3>2, <3>3 DEF UnlinkStands
  <2>4. \A q \in pickerRequests' : q.answer = "refused" => q.excused
    BY <1>1 DEF Standing
  <2>5. QED BY <2>1, <2>2, <2>3, <2>4 DEF Standing
<1>9. QED BY <1>2, <1>3, <1>5, <1>6, <1>7, <1>8 DEF Core

LEMMA ReplyKeeps ==
    ASSUME Core, NEW r \in pickerRequests, Picker!Reply(r)
    PROVE  Core'
<1>1. PickerTyped /\ BoxHeld /\ LinksNumbered /\ GoneForGood /\ Standing /\ OneRemoval
  BY DEF Core
<1>2. /\ pickerRequests' = pickerRequests \ {r} /\ ~Waits(r)
      /\ UNCHANGED <<server, heard, others, focus, pickerEdits, pickerMade>>
  BY DEF Picker!Reply, Waits, Picker!world, Picker!picker
<1>3. heard' \in Seq(Events)
  BY <1>1, <1>2 DEF PickerTyped
<1>4. r.kind \in RequestKinds /\ r.value \in Values
  BY <1>1 DEF PickerTyped, RequestShape
<1>5. Named(r.link)
  BY <1>2 DEF Named, ToMake
<1>6. ASSUME NEW q \in pickerRequests', UnlinkStands(q), Waits(q)
      PROVE r.kind = "pick" \/ r.link # q.link
  BY <1>2, <1>4, <1>6 DEF UnlinkStands, RequestKinds
<1>7. CASE r.answer = "done"
  <2>1. Shows(r)
    BY <1>1, <1>4, <1>7, Shown DEF Picker!Reply
  <2>2. QED BY <1>2, <1>3, <1>5, <1>6, <2>1, ShowKeeps
<1>8. CASE r.answer # "done"
  <2> DEFINE gone == [kind |-> r.kind, link |-> r.link]
  <2>1. /\ UNCHANGED <<pickerTab, box>>
        /\ removing' = IF r.kind = "unlink" THEN removing \ {r.link} ELSE removing
    BY <1>8 DEF Picker!Reply
  <2>2. pickerTab \in [DOMAIN pickerTab -> Values]
        /\ (box # Picker!NoBox => box.link \in DOMAIN pickerTab)
    BY <1>1 DEF PickerTyped, BoxHeld
  <2>3. Shows(r)
    BY <2>1, <2>2 DEF Shows
  <2>4. QED BY <1>2, <1>3, <1>5, <1>6, <2>3, ShowKeeps
<1>9. QED BY <1>7, <1>8

LEMMA EventKeeps ==
    ASSUME Core, Picker!Hear
    PROVE  Core'
<1>1. PickerTyped /\ BoxHeld /\ LinksNumbered /\ GoneForGood /\ Standing /\ OneRemoval
  BY DEF Core
<1> DEFINE m == Head(heard)
<1>2. heard \in Seq(Events) /\ heard # << >> /\ heard' = Tail(heard)
  BY <1>1 DEF PickerTyped, Picker!Hear
<1>3. 1 \in DOMAIN heard /\ heard[1] = m /\ m \in Events
  BY <1>2
<1>4. heard' \in Seq(Events)
  BY <1>2
<1>5. ASSUME NEW i \in DOMAIN heard' PROVE \E j \in DOMAIN heard : heard'[i] = heard[j]
  <2>1. i + 1 \in DOMAIN heard /\ heard'[i] = heard[i + 1]
    BY <1>2
  <2>2. QED BY <2>1
<1>6. UNCHANGED <<server, others, focus, pickerEdits, pickerMade>>
      /\ pickerRequests' = pickerRequests /\ Picker!Show(Picker!Merged(m))
  BY DEF Picker!Hear, Picker!picker
<1> HIDE DEF m
<1>7. Named(m.link) /\ m.kind \in RequestKinds /\ m.value \in Values
  BY <1>3 DEF Named, Events
<1>8. Shows(m)
  BY <1>1, <1>6, <1>7, Shown
<1>9. ASSUME NEW q \in pickerRequests', UnlinkStands(q), Waits(q)
      PROVE m.kind = "pick" \/ m.link # q.link
  <2>1. m.kind = "unlink" => m.link \notin DOMAIN server
    BY <1>1, <1>3 DEF GoneForGood
  <2>2. m.kind = "reason" => m.link # q.link
    BY <1>3, <1>9 DEF UnlinkStands, Picker!Redraws
  <2>3. QED BY <1>7, <1>9, <2>1, <2>2 DEF UnlinkStands, RequestKinds
<1>10. QED BY <1>4, <1>5, <1>6, <1>7, <1>8, <1>9, ShowKeeps

----------------------------------------------------------------------------
(* Another client.                                                         *)

LEMMA OtherKeeps ==
    ASSUME Picker!ConstantsOK, 0 \in Values, Core, Picker!OtherChanges
    PROVE  Core'
<1>1. PickerTyped /\ BoxHeld /\ LinksNumbered /\ GoneForGood /\ Standing /\ OneRemoval
  BY DEF Core
<1>2. /\ others \in Nat /\ pickerMade \in Nat /\ others' = others + 1
      /\ UNCHANGED <<pickerTab, focus, box, removing, pickerEdits, pickerMade>>
      /\ pickerRequests' = Picker!Excused(pickerRequests) /\ heard \in Seq(Events)
  BY <1>1 DEF Picker!OtherChanges, PickerTyped, Picker!picker, Picker!chips
<1>3. ASSUME NEW q \in pickerRequests'
      PROVE  \E o \in pickerRequests : /\ q = Marked(o, pickerRequests) /\ q.id = o.id
                                       /\ q.kind = o.kind /\ q.link = o.link /\ q.edit = o.edit
                                       /\ q.answer = o.answer
                                       /\ q.excused /\ RequestShape(q)
  <2>1. PICK o \in pickerRequests : q = Marked(o, pickerRequests)
    BY <1>2 DEF Picker!Excused, Marked
  <2>2. QED BY <1>1, <2>1, MarkedFields
<1>4. PICK m : /\ m \in Events
               /\ heard' = Append(heard, m)
               /\ \/ m.kind = "unlink" /\ m.link \in DOMAIN server
                     /\ server' = Picker!Without(server, m.link)
                  \/ m.kind = "pick" /\ m.link[3] = -others'
                     /\ server' = Picker!With(server, m.link, 0)
  <2>1. CASE \E e \in DOMAIN server :
                /\ server' = Picker!Without(server, e)
                /\ heard' = Append(heard, [kind |-> "unlink", link |-> e, value |-> 0])
    <3>1. PICK e \in DOMAIN server :
                /\ server' = Picker!Without(server, e)
                /\ heard' = Append(heard, [kind |-> "unlink", link |-> e, value |-> 0])
      BY <2>1
    <3>2. [kind |-> "unlink", link |-> e, value |-> 0] \in Events
      BY <1>1, <3>1 DEF PickerTyped, Events, RequestKinds
    <3>3. QED BY <3>1, <3>2
  <2>2. CASE \E p \in Contested :
                /\ server' = Picker!With(server, Picker!Link(p, -others'), 0)
                /\ heard' = Append(heard,
                                   [kind |-> "pick", link |-> Picker!Link(p, -others'),
                                    value |-> 0])
    <3>1. PICK p \in Contested :
                /\ server' = Picker!With(server, Picker!Link(p, -others'), 0)
                /\ heard' = Append(heard,
                                   [kind |-> "pick", link |-> Picker!Link(p, -others'),
                                    value |-> 0])
      BY <2>2
    <3>2. Picker!Link(p, -others') \in Links /\ Picker!Link(p, -others')[3] = -others'
      BY <1>2, <3>1 DEF Picker!ConstantsOK, Picker!Pairs, Picker!Link, Links
    <3>3. [kind |-> "pick", link |-> Picker!Link(p, -others'), value |-> 0] \in Events
      BY <3>2 DEF Events, RequestKinds
    <3>4. QED BY <3>1, <3>2, <3>3
  <2>3. QED BY <2>1, <2>2 DEF Picker!OtherChanges
<1>5. /\ heard' \in Seq(Events)
      /\ \A i \in DOMAIN heard' : heard'[i] = m \/ (i \in DOMAIN heard /\ heard'[i] = heard[i])
  BY <1>2, <1>4
<1>6. DOMAIN server' = IF m.kind = "unlink" THEN DOMAIN server \ {m.link}
                                            ELSE DOMAIN server \cup {m.link}
  BY <1>4 DEF Picker!With, Picker!Without
<1>7. m.link \in Links /\ m.kind \in {"unlink", "pick"}
      /\ (m.kind = "unlink" => m.link \in DOMAIN server)
      /\ (m.kind = "pick" => m.link[3] = -others')
  BY <1>4 DEF Events
<1>8. PickerTyped'
  <2>1. DOMAIN server' \subseteq Links
    BY <1>1, <1>6, <1>7 DEF PickerTyped
  <2>2. ASSUME NEW r \in pickerRequests' PROVE RequestShape(r)'
    BY <1>2, <1>3 DEF RequestShape
  <2>3. ASSUME NEW r \in pickerRequests', NEW q \in pickerRequests', r.id = q.id PROVE r = q
    <3>1. PICK o \in pickerRequests : r = Marked(o, pickerRequests) /\ r.id = o.id
      BY <1>3
    <3>2. PICK p \in pickerRequests : q = Marked(p, pickerRequests) /\ q.id = p.id
      BY <1>3
    <3>3. o = p
      BY <1>1, <2>3, <3>1, <3>2 DEF PickerTyped
    <3>4. QED BY <3>1, <3>2, <3>3
  <2>4. QED BY <1>1, <1>2, <1>5, <2>1, <2>2, <2>3 DEF PickerTyped
<1>9. BoxHeld'
  <2>1. ASSUME NEW r \in pickerRequests', r.kind = "reason", box # Picker!NoBox, box.open
        PROVE r.edit < pickerEdits
    BY <1>1, <1>3, <2>1 DEF BoxHeld
  <2>2. ASSUME NEW r \in pickerRequests', NEW q \in pickerRequests', r.kind = "reason",
               q.kind = "reason",
               r.edit = q.edit
        PROVE  r = q
    <3>1. PICK o \in pickerRequests : r = Marked(o, pickerRequests) /\ r.kind = o.kind
          /\ r.edit = o.edit
      BY <1>3
    <3>2. PICK p \in pickerRequests : q = Marked(p, pickerRequests) /\ q.kind = p.kind
          /\ q.edit = p.edit
      BY <1>3
    <3>3. o = p
      BY <1>1, <2>2, <3>1, <3>2 DEF BoxHeld
    <3>4. QED BY <3>1, <3>2, <3>3
  <2>3. QED BY <1>1, <1>2, <2>1, <2>2 DEF BoxHeld
<1>10. ASSUME NEW l, Named(l)' PROVE Named(l) \/ (m.kind = "pick" /\ l = m.link)
  <2>1. CASE l \in DOMAIN server' \cup DOMAIN pickerTab'
    BY <1>2, <1>6, <1>7, <2>1 DEF Named
  <2>2. CASE \E i \in DOMAIN heard' : heard'[i].link = l
    BY <1>5, <1>7, <2>2 DEF Named
  <2>3. CASE \E q \in pickerRequests' : q.link = l /\ ~ToMake(q)
    BY <1>3, <2>3 DEF Named, ToMake, Waits
  <2>4. QED BY <1>10, <2>1, <2>2, <2>3 DEF Named
<1>11. \A l : Named(l) => /\ -others <= l[3] /\ l[3] <= pickerMade
                          /\ \A r \in pickerRequests : ToMake(r) => l[3] # r.id
  BY <1>1 DEF LinksNumbered
<1>12. \A r \in pickerRequests : r.id \in Nat
  BY <1>1 DEF PickerTyped, RequestShape
<1>13. LinksNumbered'
  <2>1. ASSUME NEW l, Named(l)'
        PROVE  /\ -others' <= l[3] /\ l[3] <= pickerMade'
               /\ \A r \in pickerRequests' : ToMake(r) => l[3] # r.id
    <3> HIDE DEF Named
    <3>1. CASE Named(l)
      <4>1. l[3] \in Int
        BY <1>1, <3>1, NamedLinks DEF Links
      <4>2. \A r \in pickerRequests' : ToMake(r) => l[3] # r.id
        BY <1>3, <1>11, <3>1 DEF ToMake, Waits
      <4>3. QED BY <1>2, <1>11, <3>1, <4>1, <4>2
    <3>2. CASE m.kind = "pick" /\ l = m.link
      BY <1>2, <1>3, <1>7, <1>12, <3>2
    <3>3. QED BY <1>10, <2>1, <3>1, <3>2
  <2>2. ASSUME NEW r \in pickerRequests', ToMake(r) PROVE r.link[3] = r.id
    BY <1>1, <1>3, <2>2 DEF LinksNumbered, ToMake, Waits
  <2>3. QED BY <2>1, <2>2 DEF LinksNumbered
<1>14. ASSUME NEW l, Named(l), l \notin DOMAIN server PROVE l \notin DOMAIN server'
  <2>1. m.kind = "pick" => l # m.link
    <3>1. -others <= l[3] /\ l[3] \in Int
      BY <1>1, <1>11, <1>14, NamedLinks DEF Links
    <3>2. QED BY <1>2, <1>7, <3>1
  <2>2. QED BY <1>6, <1>7, <1>14, <2>1
<1>15. GoneForGood'
  <2>1. ASSUME NEW i \in DOMAIN heard', heard'[i].kind = "unlink"
        PROVE  heard'[i].link \notin DOMAIN server'
    <3>1. CASE heard'[i] = m
      BY <1>6, <2>1, <3>1
    <3>2. CASE i \in DOMAIN heard /\ heard'[i] = heard[i]
      BY <1>1, <1>14, <2>1, <3>2 DEF GoneForGood, Named
    <3>3. QED BY <1>5, <3>1, <3>2
  <2>2. ASSUME NEW q \in pickerRequests', q.kind = "unlink", q.answer \in {"done", "lost"}
        PROVE  q.link \notin DOMAIN server'
    <3>1. PICK o \in pickerRequests : q.kind = o.kind /\ q.link = o.link /\ q.answer = o.answer
      BY <1>3
    <3>2. o.link \notin DOMAIN server /\ Named(o.link)
      BY <1>1, <2>2, <3>1 DEF GoneForGood, Named, ToMake
    <3>3. QED BY <1>14, <3>1, <3>2
  <2>3. QED BY <2>1, <2>2 DEF GoneForGood
<1>16. Standing' /\ OneRemoval'
  BY <1>3 DEF Standing, OneRemoval
<1>17. QED BY <1>8, <1>9, <1>13, <1>15, <1>16 DEF Core

----------------------------------------------------------------------------
(* The picker's keys and the box.                                          *)

LEMMA BoxKeeps ==
    ASSUME Core,
           UNCHANGED <<server, pickerTab, heard, removing, pickerRequests, pickerMade, others>>,
           focus' \in Picker!Sides \cup {Picker!None}, pickerEdits' \in Nat,
           pickerEdits <= pickerEdits',
           BoxHeld'
    PROVE  Core'
<1>1. PickerTyped /\ BoxHeld /\ LinksNumbered /\ GoneForGood /\ Standing /\ OneRemoval
  BY DEF Core
<1>2. PickerTyped'
  <2>1. ASSUME NEW r \in pickerRequests PROVE RequestShape(r)'
    <3>1. RequestShape(r) /\ pickerEdits \in Nat
      BY <1>1 DEF PickerTyped
    <3>2. QED BY <3>1 DEF RequestShape
  <2>2. QED BY <1>1, <2>1 DEF PickerTyped
<1>3. LinksNumbered'
  <2>1. \A l : Named(l)' <=> Named(l)
    BY DEF Named
  <2> HIDE DEF Named
  <2>2. QED BY <1>1, <2>1 DEF LinksNumbered
<1>4. GoneForGood' /\ OneRemoval'
  BY <1>1 DEF GoneForGood, OneRemoval
<1>5. Standing'
  <2>1. \A r : LinkStands(r)' <=> LinkStands(r)
    BY DEF LinkStands
  <2>2. \A r : ReasonStands(r)' <=> ReasonStands(r)
    BY DEF ReasonStands
  <2>3. \A r : UnlinkStands(r)' <=> UnlinkStands(r)
    BY DEF UnlinkStands, Picker!Redraws
  <2>4. QED BY <1>1, <2>1, <2>2, <2>3 DEF Standing
<1>6. QED BY <1>2, <1>3, <1>4, <1>5 DEF Core

LEMMA KeysKeep ==
    ASSUME Core,
           UNCHANGED <<server, pickerTab, heard, removing, pickerRequests, pickerMade, others,
                       pickerEdits, box>>,
           focus' \in Picker!Sides \cup {Picker!None}
    PROVE  Core'
<1>1. BoxHeld /\ pickerEdits \in Nat
  BY DEF Core, PickerTyped
<1>2. BoxHeld'
  BY <1>1 DEF BoxHeld
<1>3. QED BY <1>1, <1>2, BoxKeeps

LEMMA BoxStepKeeps ==
    ASSUME 0 \in Values, Core,
           \/ \E e \in Picker!Chips : Picker!EditReason(e)
           \/ \E r \in Reasons \cup {0} : Picker!TypeReason(r)
           \/ Picker!CancelReason \/ Picker!BoxGoes
    PROVE  Core'
<1>1. PickerTyped /\ BoxHeld /\ pickerEdits \in Nat
  BY DEF Core, PickerTyped
<1>2. UNCHANGED <<server, pickerTab, heard, removing, pickerRequests, pickerMade, others, focus>>
  BY DEF Picker!EditReason, Picker!TypeReason, Picker!CancelReason, Picker!BoxGoes, Picker!world,
     Picker!picker
<1>3. focus' \in Picker!Sides \cup {Picker!None} /\ pickerTab \in [DOMAIN pickerTab -> Values]
  BY <1>1, <1>2 DEF PickerTyped
<1>4. CASE \E e \in Picker!Chips : Picker!EditReason(e)
  <2>1. PICK e \in Picker!Chips : Picker!EditReason(e)
    BY <1>4
  <2>2. pickerEdits' = pickerEdits + 1
        /\ box' = [link |-> e, draft |-> pickerTab[e], open |-> TRUE]
        /\ e \in DOMAIN pickerTab
    BY <2>1 DEF Picker!EditReason, Picker!Chips
  <2>3. \A r \in pickerRequests : r.edit \in Nat /\ r.edit <= pickerEdits
    BY <1>1 DEF PickerTyped, RequestShape
  <2>4. pickerTab[e] \in Values
    BY <1>3, <2>2
  <2>5. BoxHeld'
    BY <1>1, <1>2, <2>2, <2>3, <2>4 DEF BoxHeld
  <2>6. QED BY <1>1, <1>2, <1>3, <2>2, <2>5, BoxKeeps
<1>5. CASE \E r \in Reasons \cup {0} : Picker!TypeReason(r)
  <2>1. PICK r \in Values : Picker!TypeReason(r)
    BY <1>5 DEF Values
  <2>2. box # Picker!NoBox /\ box.open /\ pickerEdits' = pickerEdits
        /\ box' = [link |-> box.link, draft |-> r, open |-> box.open]
    BY <1>1, <2>1 DEF Picker!TypeReason, BoxHeld
  <2>3. BoxHeld'
    BY <1>1, <1>2, <2>2 DEF BoxHeld
  <2>4. QED BY <1>1, <1>2, <1>3, <2>2, <2>3, BoxKeeps
<1>6. CASE Picker!CancelReason
  <2>1. box # Picker!NoBox /\ pickerEdits' = pickerEdits
        /\ box' = [link |-> box.link, draft |-> pickerTab[box.link], open |-> FALSE]
    BY <1>1, <1>6 DEF Picker!CancelReason, BoxHeld
  <2>2. box.link \in DOMAIN pickerTab /\ pickerTab[box.link] \in Values
    BY <1>1, <1>3, <2>1 DEF BoxHeld
  <2>3. BoxHeld'
    BY <1>1, <1>2, <2>1, <2>2 DEF BoxHeld
  <2>4. QED BY <1>1, <1>2, <1>3, <2>1, <2>3, BoxKeeps
<1>7. CASE Picker!BoxGoes
  <2>1. pickerEdits' = pickerEdits /\ box' = Picker!NoBox
    BY <1>7 DEF Picker!BoxGoes
  <2>2. BoxHeld'
    BY <1>1, <1>2, <2>1 DEF BoxHeld, Picker!NoBox
  <2>3. QED BY <1>1, <1>2, <1>3, <2>1, <2>2, BoxKeeps
<1>8. QED BY <1>4, <1>5, <1>6, <1>7
----------------------------------------------------------------------------
(* Each step.                                                              *)

LEMMA RememberedStays ==
    ASSUME Remembered, UNCHANGED <<recent, pickedAt>>, pickerMade \in Nat, pickerMade' \in Nat,
           pickerMade <= pickerMade'
    PROVE  Remembered'
<1>1. \A c \in LinkCards : pickedAt[c] \in Nat /\ pickedAt[c] <= pickerMade'
  BY DEF Remembered
<1>2. QED BY <1>1 DEF Remembered

LEMMA CommitKeeps ==
    ASSUME Picker!ConstantsOK, PickerInv, NEW c \in Picker!Candidates(focus), Picker!Commit(c)
    PROVE  PickerInv'
<1> DEFINE e == Picker!Link(Picker!LinkTo(c, focus), pickerMade + 1)
<1>1. /\ c \in LinkCards /\ OpenCard \in LinkCards /\ pickerMade \in Nat
      /\ ~Picker!Linked(DOMAIN pickerTab, OpenCard, c)
      /\ ~Picker!ClosesLoop(DOMAIN pickerTab, Picker!LinkTo(c, focus))
  BY DEF Picker!Candidates, Picker!Others, Picker!ConstantsOK, PickerInv, PickerTyped
<1>2. /\ e \in Links /\ e[3] = pickerMade + 1 /\ {e[1], e[2]} = {OpenCard, c}
      /\ e[1] = Picker!LinkTo(c, focus)[1] /\ e[2] = Picker!LinkTo(c, focus)[2]
  BY <1>1 DEF Picker!Link, Picker!LinkTo, Links
<1>3. Picker!Ask("pick", e, 0)
      /\ UNCHANGED <<server, pickerTab, heard, others, pickerEdits, focus, removing, box>>
  BY DEF Picker!Commit, Picker!world, Picker!chips
<1> HIDE DEF e
<1>4. ~Picker!WouldRefuse(DOMAIN pickerTab, e)
  BY <1>1, <1>2 DEF Picker!WouldRefuse, Picker!Linked, Picker!ClosesLoop
<1>5. AskedWell("pick", e, 0)
  BY <1>2, <1>3, <1>4 DEF AskedWell, RequestKinds, Values
<1>6. Core'
  BY <1>5, AskKeeps DEF PickerInv, Core
<1>7. pickerMade' = pickerMade + 1 /\ recent' = Picker!PushFront(recent, c)
      /\ pickedAt' = [pickedAt EXCEPT ![c] = pickerMade + 1]
  BY <1>3 DEF Picker!Commit, Picker!Ask
<1>8. Remembered'
  BY <1>1, <1>7, PickRemembered DEF PickerInv
<1>9. QED BY <1>6, <1>8 DEF PickerInv, Core

LEMMA PickerStepKeeps ==
    ASSUME Picker!ConstantsOK, PickerInv, Picker!PickerStep
    PROVE  PickerInv'
<1>1. Core /\ Remembered /\ pickerMade \in Nat
  BY DEF PickerInv, Core, PickerTyped
<1>2. ASSUME UNCHANGED <<Picker!world, pickerTab, recent, pickedAt, Picker!chips, pickerRequests,
             pickerMade>>,
             focus' \in Picker!Sides \cup {Picker!None}
      PROVE  PickerInv'
  <2>1. Core'
    BY <1>1, <1>2, KeysKeep DEF Picker!world, Picker!chips
  <2>2. Remembered'
    BY <1>1, <1>2, RememberedStays
  <2>3. QED BY <2>1, <2>2 DEF PickerInv, Core
<1>3. focus \in Picker!Sides \cup {Picker!None}
  BY DEF PickerInv, PickerTyped
<1>4. CASE \E side \in Picker!Sides : Picker!Focus(side)
  BY <1>2, <1>4 DEF Picker!Focus
<1>5. CASE Picker!Blur
  BY <1>2, <1>5 DEF Picker!Blur
<1>6. CASE \E text \in Narrowings : Picker!Type(text)
  BY <1>2, <1>3, <1>6 DEF Picker!Type
<1>7. CASE Picker!Escape
  BY <1>2, <1>3, <1>7 DEF Picker!Escape
<1>8. CASE \E down \in BOOLEAN : Picker!Arrow(down)
  BY <1>2, <1>3, <1>8 DEF Picker!Arrow
<1>9. ASSUME NEW i \in DOMAIN Picker!Offered(focus), Picker!Commit(Picker!Offered(focus)[i])
      PROVE PickerInv'
  BY <1>1, <1>9, OfferedWell, CommitKeeps
<1>10. CASE Picker!Enter
  <2>1. Len(Picker!Offered(focus)) = 1 => 1 \in DOMAIN Picker!Offered(focus)
    BY <1>1, RowsPlaced
  <2>2. QED BY <1>9, <1>10, <2>1 DEF Picker!Enter
<1>11. CASE Picker!ClickRow
  BY <1>9, <1>11 DEF Picker!ClickRow
<1>12. QED BY <1>4, <1>5, <1>6, <1>7, <1>8, <1>10, <1>11 DEF Picker!PickerStep

LEMMA ChipStepKeeps ==
    ASSUME Picker!ConstantsOK, PickerInv, Picker!ChipStep
    PROVE  PickerInv'
<1>1. Core /\ Remembered /\ pickerMade \in Nat /\ 0 \in Values /\ BoxHeld
      /\ DOMAIN pickerTab \subseteq Links
  BY DEF PickerInv, Core, PickerTyped, Values
<1>2. ASSUME NEW kind, NEW e, NEW value, AskedWell(kind, e, value), UNCHANGED <<recent, pickedAt>>
      PROVE  PickerInv'
  <2>1. Core'
    BY <1>1, <1>2, AskKeeps
  <2>2. pickerMade' = pickerMade + 1
    BY <1>2 DEF AskedWell, Picker!Ask
  <2>3. Remembered'
    BY <1>1, <1>2, <2>2, RememberedStays
  <2>4. QED BY <2>1, <2>3 DEF PickerInv, Core
<1>3. ASSUME \/ \E e \in Picker!Chips : Picker!EditReason(e)
             \/ \E r \in Reasons \cup {0} : Picker!TypeReason(r)
             \/ Picker!CancelReason \/ Picker!BoxGoes
      PROVE  PickerInv'
  <2>1. Core'
    BY <1>1, <1>3, BoxStepKeeps
  <2>2. UNCHANGED <<recent, pickedAt, pickerMade>>
    BY <1>3 DEF Picker!EditReason, Picker!TypeReason, Picker!CancelReason, Picker!BoxGoes,
       Picker!picker
  <2>3. Remembered'
    BY <1>1, <2>2, RememberedStays
  <2>4. QED BY <2>1, <2>3 DEF PickerInv, Core
<1>4. ASSUME NEW e \in Picker!Chips, Picker!Unlink(e) PROVE PickerInv'
  <2>1. e \in DOMAIN pickerTab /\ e \in Links
    BY <1>1 DEF Picker!Chips
  <2>2. AskedWell("unlink", e, 0) /\ UNCHANGED <<recent, pickedAt>>
    BY <1>1, <1>4, <2>1 DEF Picker!Unlink, AskedWell, RequestKinds, Picker!world, Picker!picker
  <2>3. QED BY <1>2, <2>2
<1>5. CASE Picker!SaveReason
  <2>1. /\ box # Picker!NoBox /\ box.open /\ box' = [box EXCEPT !.open = FALSE]
        /\ UNCHANGED <<Picker!world, pickerTab, Picker!picker, removing, pickerEdits>>
    BY <1>5 DEF Picker!SaveReason
  <2>2. box.link \in DOMAIN pickerTab /\ box.link \in Links /\ box.draft \in Values
    BY <1>1, <2>1 DEF BoxHeld
  <2>3. CASE Picker!Ask("reason", box.link, box.draft)
    <3>1. AskedWell("reason", box.link, box.draft)
      BY <2>1, <2>2, <2>3 DEF AskedWell, RequestKinds, Picker!world, Picker!picker
    <3>2. QED BY <1>2, <2>1, <3>1 DEF Picker!picker
  <2>4. CASE UNCHANGED <<pickerRequests, pickerMade>>
    <3>1. box' = [link |-> box.link, draft |-> box.draft, open |-> FALSE]
      BY <1>1, <2>1 DEF BoxHeld
    <3>2. BoxHeld'
      BY <1>1, <2>1, <2>2, <2>4, <3>1 DEF BoxHeld
    <3>3. pickerEdits \in Nat /\ focus \in Picker!Sides \cup {Picker!None}
      BY DEF PickerInv, PickerTyped
    <3>4. Core'
      BY <1>1, <2>1, <2>4, <3>2, <3>3, BoxKeeps DEF Picker!world, Picker!picker
    <3>5. Remembered'
      BY <1>1, <2>1, <2>4, RememberedStays DEF Picker!picker
    <3>6. QED BY <3>4, <3>5 DEF PickerInv, Core
  <2>5. QED BY <1>5, <2>3, <2>4 DEF Picker!SaveReason
<1>6. QED BY <1>3, <1>4, <1>5 DEF Picker!ChipStep

LEMMA PickerKeeps ==
    ASSUME Picker!ConstantsOK, PickerInv, [Picker!Next]_(Picker!pickerVars)
    PROVE  PickerInv'
<1>1. Core /\ Remembered /\ pickerMade \in Nat /\ 0 \in Values
  BY DEF PickerInv, Core, PickerTyped, Values
<1>2. ASSUME Core', UNCHANGED <<recent, pickedAt, pickerMade>> PROVE PickerInv'
  <2>1. Remembered'
    BY <1>1, <1>2, RememberedStays
  <2>2. QED BY <1>2, <2>1 DEF PickerInv, Core
<1>3. CASE Picker!PickerStep BY <1>3, PickerStepKeeps
<1>4. CASE Picker!ChipStep BY <1>4, ChipStepKeeps
<1>5. ASSUME NEW r \in pickerRequests, Picker!Handle(r) PROVE PickerInv'
  <2>1. Core'
    BY <1>1, <1>5, ServedKeeps
  <2>2. QED BY <1>2, <1>5, <2>1 DEF Picker!Handle, Picker!picker
<1>6. ASSUME NEW r \in pickerRequests, Picker!Reply(r) PROVE PickerInv'
  <2>1. Core'
    BY <1>1, <1>6, ReplyKeeps
  <2>2. QED BY <1>2, <1>6, <2>1 DEF Picker!Reply, Picker!picker
<1>7. CASE Picker!Hear
  <2>1. Core'
    BY <1>1, <1>7, EventKeeps
  <2>2. QED BY <1>2, <1>7, <2>1 DEF Picker!Hear, Picker!picker
<1>8. CASE Picker!OtherChanges
  <2>1. Core'
    BY <1>1, <1>8, OtherKeeps
  <2>2. QED BY <1>2, <1>8, <2>1 DEF Picker!OtherChanges, Picker!picker
<1>9. CASE UNCHANGED Picker!pickerVars
  <2>1. UNCHANGED <<server, pickerTab, heard, removing, pickerRequests, pickerMade, others,
                    pickerEdits, box, focus, recent,
                    pickedAt>>
    BY <1>9 DEF Picker!pickerVars
  <2>2. focus \in Picker!Sides \cup {Picker!None}
    BY <1>1 DEF Core, PickerTyped
  <2>3. Core'
    BY <1>1, <2>1, <2>2, KeysKeep
  <2>4. QED BY <1>2, <2>1, <2>3
<1>10. QED BY <1>3, <1>4, <1>5, <1>6, <1>7, <1>8, <1>9 DEF Picker!Next

LEMMA InitPicker == ASSUME Picker!ConstantsOK, Picker!Init PROVE PickerInv
<1>1. PICK E \in GivenLinks : server = [e \in {Picker!Link(p, 0) : p \in E} |-> 0]
  BY DEF Picker!Init
<1>2. DOMAIN server \subseteq Links /\ \A l \in DOMAIN server : l[3] = 0 /\ server[l] = 0
  BY <1>1 DEF Picker!ConstantsOK, Picker!Pairs, Picker!Link, Links
<1>3. pickerTab = server /\ pickerTab \in [DOMAIN pickerTab -> Values]
  BY <1>1, <1>2 DEF Picker!Init, Values
<1>4. PickerTyped
  <2>1. heard = << >> /\ heard \in Seq(Events) /\ pickerRequests = {} /\ focus = Picker!None
    BY DEF Picker!Init
  <2>2. pickerMade \in Nat /\ others \in Nat /\ pickerEdits \in Nat
    BY DEF Picker!Init
  <2>3. QED BY <1>2, <1>3, <2>1, <2>2 DEF PickerTyped
<1>5. LinksNumbered
  <2>1. heard = << >> /\ pickerRequests = {} /\ pickerMade = 0 /\ others = 0
    BY DEF Picker!Init
  <2>2. \A l : Named(l) => l \in DOMAIN server
    BY <1>3, <2>1 DEF Named
  <2> HIDE DEF Named
  <2>3. QED BY <1>2, <2>1, <2>2 DEF LinksNumbered
<1>6. BoxHeld /\ GoneForGood /\ Standing /\ OneRemoval
  BY DEF Picker!Init, BoxHeld, GoneForGood, Standing, OneRemoval, Picker!NoBox
<1>7. Remembered
  BY DEF Picker!Init, Remembered, Picker!ConstantsOK
<1>8. QED BY <1>4, <1>5, <1>6, <1>7 DEF PickerInv

LEMMA Needed == ASSUME PickerInv PROVE Picker!RequestsAreNeeded
BY DEF PickerInv, Picker!RequestsAreNeeded, Standing, OneRemoval, BoxHeld

----------------------------------------------------------------------------
(* The picker among the machines of the tab.                               *)

PickerPart == part = "picker" => PickerInv

LEMMA PickerStays ==
    ASSUME PickerPart, [FrontendNext]_FrontendVars
    PROVE  PickerPart'
<1> SUFFICES ASSUME part' = "picker" PROVE PickerInv'
  BY DEF PickerPart
<1>1. part = "picker" /\ [Picker!Next]_(Picker!pickerVars)
  BY DEF FrontendNext, FrontendVars, pickerVars, Picker!pickerVars, EditorRuns, OrderRuns,
         PickerRuns, DrawerRuns, SearchRuns, TagEditorRuns
<1>2. QED BY <1>1, PickerAssumption, PickerKeeps DEF PickerPart

\* The picker offers no card the server would refuse and sends nothing twice, but for what
\* another client or a crossing request did, and leads with the last picks, for any cards,
\* links, texts and limits (components/link_editor.rs, recent.rs).
THEOREM PickerCorrect == FrontendSpec => []PickerOffersWell
<1>1. FrontendInit => PickerPart
  BY PickerAssumption, InitPicker DEF FrontendInit, PickerStarts, PickerPart
<1>2. PickerPart => PickerOffersWell
  BY PickerAssumption, Needed, PicksDoLead DEF PickerOffersWell, PickerPart, PickerInv
<1>3. QED BY <1>1, <1>2, PickerStays, PTL DEF FrontendSpec

----------------------------------------------------------------------------
(* The history drawer: the inductive invariant of its rows.                *)

AllFields == {"name", "position", "rest", "tags", "spelling", "column", "reason"}
Snaps == {Drawer!Gone} \cup {Drawer!Snap(set) : set \in SUBSET AllFields}
RowActions == {"create", "baseline", "update", "restore", "move", "delete"}
HistoryRows == [id : Nat, at : Nat, entity : DOMAIN Kind, action : RowActions,
                before : Snaps, after : Snaps]

\* What an entity's row may say of it.
StateOf(e, s) == s \in Snaps /\ (~s.gone => s.set \subseteq Drawer!Fields(e))

\* A row written by time n; an update that changes nothing is not a link's.
IsRow(r, n) ==
    /\ r \in HistoryRows /\ 1 <= r.id /\ r.id <= r.at /\ r.at <= n
    /\ StateOf(r.entity, r.before) /\ StateOf(r.entity, r.after)
    /\ r.action = "update" =>
          /\ ~r.before.gone /\ ~r.after.gone
          /\ Kind[r.entity] = "card_link" => Drawer!Changed(r) # {}

\* Two states of one row: a merge changes neither whose it is nor where it is shown.
SameRow(x, y) ==
    /\ x.id = y.id /\ x.entity = y.entity /\ x.action = y.action /\ x.before = y.before
    /\ x.after.gone <=> y.after.gone
    /\ ~x.after.gone => ("column" \in x.after.set <=> "column" \in y.after.set)

Among(x, rows) == \E i \in DOMAIN rows : rows[i] = x

\* The table at time n: a time and a number has one row, a later row of an entity has a
\* greater number, and the last one has the entity as it is.
TableKept(table, now, n) ==
    /\ IsFiniteSet(table) /\ n \in Nat
    /\ now \in [DOMAIN Kind -> Snaps] /\ \A e \in DOMAIN Kind : StateOf(e, now[e])
    /\ \A x \in table : IsRow(x, n)
    /\ \A x, y \in table : x.id = y.id \/ x.at = y.at => x = y
    /\ \A x, y \in table : x.entity = y.entity /\ x.id < y.id => x.at < y.at
    /\ \A x \in table : (\A y \in table : y.entity = x.entity => y.at <= x.at)
          => x.after = now[x.entity]

\* The events that have not been heard: those sent and those that are to be.
Coming(sent, due) == Drawer!Range(sent) \cup Drawer!Range(due)

\* Each tells of a row of the table, as it is or was.
ComingKept(coming, table, n) ==
    /\ \A c \in coming :
          /\ IsRow(c, n)
          /\ \E x \in table : SameRow(x, c) /\ c.at <= x.at /\ (x.at = c.at => x = c)
    /\ \A c, d \in coming : c.entity = d.entity /\ c.at < d.at => c.id <= d.id

\* Events of one entity stand as their rows were written.
InTurn(queue) ==
    \A i, j \in DOMAIN queue :
        i < j /\ queue[i].entity = queue[j].entity => queue[i].at < queue[j].at

\* No event of an entity has been sent, or heard, before an earlier one.
Uncrossed(sent, due, table) ==
    /\ InTurn(sent) /\ InTurn(due)
    /\ \A i \in DOMAIN sent, j \in DOMAIN due :
          sent[i].entity = due[j].entity => sent[i].at < due[j].at
    /\ \A x \in table, c \in Coming(sent, due) :
          x.entity = c.entity /\ c.at < x.at => x \in Coming(sent, due)

\* Rows that are in the table, or were there in another state.
Known(rows, table, n) ==
    /\ rows \in Seq(HistoryRows)
    /\ \A i \in DOMAIN rows : IsRow(rows[i], n) /\ \E x \in table : SameRow(x, rows[i])

\* The rows of scope s, but for what the events on their way will tell: each is there once,
\* none is left out, and those of one entity stand with the newest first.
Held(rows, s, table, coming) ==
    /\ \A i, j \in DOMAIN rows : rows[i].id = rows[j].id => i = j
    /\ \A x \in table : Drawer!Matches(x, s) => Among(x, rows) \/ x \in coming
    /\ \A i \in DOMAIN rows : \E x \in table :
          SameRow(x, rows[i]) /\ Drawer!Matches(x, s) /\ (x = rows[i] \/ x \in coming)
    /\ \A i, j \in DOMAIN rows : i < j /\ rows[i].entity = rows[j].entity
          => rows[j].id < rows[i].id
    /\ \A i \in DOMAIN rows, x \in table :
          x.entity = rows[i].entity /\ x.id < rows[i].id /\ Drawer!Matches(x, s)
          => \E j \in DOMAIN rows : rows[j].id = x.id

\* An answer has every row of its scope up to its newest.
UpTo(rows, s, table) ==
    \A x \in table, i \in DOMAIN rows :
        Drawer!Matches(x, s) /\ x.at <= rows[i].at => Among(x, rows)

LoadKept(l, table, coming, n, asked, crossing) ==
    /\ l = [id |-> l.id, scope |-> l.scope, read |-> l.read, rows |-> l.rows,
            missed |-> l.missed]
    /\ l.id \in Nat /\ l.id <= asked /\ l.scope \in Scopes
    /\ l.read \in BOOLEAN /\ l.missed \in BOOLEAN /\ Known(l.rows, table, n)
    /\ l.read /\ ~l.missed
          => ~crossing /\ Held(l.rows, l.scope, table, coming) /\ UpTo(l.rows, l.scope, table)

\* The load asked for last has been answered, and well.
Settled == scope # Drawer!Closed /\ ~drawerExcuse /\ \A l \in loads : l.id # drawerMade.load

\* The time of the last row.
Now == drawerMade.row + 1

\* What has not been heard.
Unheard == Coming(news, drawerUnsent)

\* The answers on their way, and the drawer if its last load went well, are what the server
\* had when it read, but for what the events that have not been heard will tell; those of one
\* entity come as its rows were written, unless some were sent the other way round.
DrawerInv ==
    /\ drawerMade \in [Drawer!Counted -> Nat]
    /\ news \in Seq(HistoryRows) /\ drawerUnsent \in Seq(HistoryRows)
    /\ drawerCrossed \in BOOLEAN
    /\ TableKept(log, current, Now) /\ ComingKept(Unheard, log, Now)
    /\ ~drawerCrossed => Uncrossed(news, drawerUnsent, log)
    /\ \A l \in loads : LoadKept(l, log, Unheard, Now, drawerMade.load, drawerCrossed)
    /\ \A l, m \in loads : l.id = m.id => l = m
    /\ scope \in Scopes \cup {Drawer!Closed} /\ drawerExcuse \in BOOLEAN
    /\ Known(entries, log, Now)
    /\ Settled => ~drawerCrossed /\ Held(entries, scope, log, Unheard)

----------------------------------------------------------------------------
(* Rows and their summaries.                                               *)

LEMMA DrawerCounts ==
    \A S : Drawer!Cardinality(S) = Cardinality(S)
BY Zenon DEF Drawer!Cardinality, Cardinality, Drawer!IsFiniteSet, IsFiniteSet

\* Two states of a row are shown in the same scopes.
LEMMA SameShown ==
    ASSUME NEW n, NEW m, NEW x, NEW y, IsRow(x, n), IsRow(y, m), SameRow(x, y), NEW s
    PROVE  Drawer!Matches(x, s) <=> Drawer!Matches(y, s)
<1>1. /\ x.entity = y.entity /\ x.before = y.before
      /\ x.after.gone <=> y.after.gone
      /\ ~x.after.gone => ("column" \in x.after.set <=> "column" \in y.after.set)
  BY DEF SameRow
<1>2. ASSUME NEW k
      PROVE  /\ ~x.after.gone /\ Drawer!ColumnOf(x.entity, x.after) = k
                => ~y.after.gone /\ Drawer!ColumnOf(y.entity, y.after) = k
             /\ ~y.after.gone /\ Drawer!ColumnOf(y.entity, y.after) = k
                => ~x.after.gone /\ Drawer!ColumnOf(x.entity, x.after) = k
  BY <1>1 DEF Drawer!ColumnOf
<1>3. \A k : Drawer!InColumn(x, k) <=> Drawer!InColumn(y, k)
  BY <1>1, <1>2 DEF Drawer!InColumn
<1>4. QED BY <1>1, <1>3 DEF Drawer!Matches

LEMMA SameRows ==
    ASSUME NEW x, NEW y, SameRow(x, y)
    PROVE  SameRow(y, x) /\ \A z : SameRow(y, z) => SameRow(x, z)
BY DEF SameRow

\* What changed are fields of the entity.
LEMMA ChangedFieldsKnown ==
    ASSUME NEW n, NEW r, IsRow(r, n)
    PROVE  Drawer!Changed(r) \subseteq Drawer!Fields(r.entity)
BY DEF IsRow, StateOf, Drawer!Changed

\* A summary names the kind of the change, and the tags beside it.
LEMMA SummaryTells ==
    ASSUME Drawer!ConstantsOK, NEW n, NEW r, IsRow(r, n), r.action = "update"
    PROVE  /\ Drawer!Changed(r) \subseteq Drawer!Untold(r.entity)
                 <=> Drawer!DeriveSummary(r).verb = "Updated"
           /\ "tags" \in Drawer!Changed(r) <=> "tags" \in Drawer!DeriveSummary(r).named
<1> DEFINE changed == Drawer!Changed(r)
           s == Drawer!DeriveSummary(r)
<1>1. r.entity \in DOMAIN Kind
      /\ Kind[r.entity] \in {"board", "column", "card", "card_link"}
  BY DEF IsRow, HistoryRows, Drawer!ConstantsOK, Drawer!Entities
<1>2. changed \subseteq Drawer!Fields(r.entity)
  BY ChangedFieldsKnown
<1>3. CASE Kind[r.entity] = "card_link"
  <2>1. changed \subseteq {"reason"} /\ changed # {}
    BY <1>2, <1>3 DEF Drawer!Fields, IsRow
  <2>2. s = Drawer!LinkUpdate(r)
    BY <1>3 DEF Drawer!DeriveSummary, Drawer!LinkSummary, Drawer!UpdateSummary
  <2>3. s.verb # "Updated" /\ "tags" \notin s.named
    BY <2>2 DEF Drawer!LinkUpdate, Drawer!Summary, Drawer!Which
  <2>4. QED BY <1>3, <2>1, <2>3 DEF Drawer!Untold
<1>4. CASE Kind[r.entity] = "card"
  <2>1. changed \subseteq {"name", "rest", "tags", "spelling", "column", "position"}
    BY <1>2, <1>4 DEF Drawer!Fields
  <2>2. s = Drawer!CardUpdate(r)
    BY <1>4 DEF Drawer!DeriveSummary, Drawer!LinkSummary, Drawer!UpdateSummary
  <2> DEFINE tags == IF "tags" \in changed THEN {"tags"} ELSE {}
  <2>3. s = IF "column" \in changed THEN [verb |-> "Moved", named |-> {"number"} \cup tags]
            ELSE IF "name" \in changed
            THEN [verb |-> "Renamed", named |-> {"was", "number"} \cup tags]
            ELSE IF "rest" \in changed
            THEN [verb |-> "Edited", named |-> {"number", "body"} \cup tags]
            ELSE IF "tags" \in changed
            THEN [verb |-> IF "tags" \in r.after.set THEN "Tagged" ELSE "Untagged",
                  named |-> {"number", "tags"}]
            ELSE [verb |-> "Updated", named |-> {"number"}]
    BY <2>2, Zenon DEF Drawer!CardUpdate, Drawer!Summary, Drawer!Which
  <2> DEFINE untold == {"spelling", "position"}
  <2>10. Drawer!Untold(r.entity) = untold
    BY <1>4 DEF Drawer!Untold
  <2> SUFFICES /\ changed \subseteq untold <=> s.verb = "Updated"
               /\ "tags" \in changed <=> "tags" \in s.named
    BY <2>10
  <2> HIDE DEF changed, s
  <2>4. CASE "column" \in changed
    <3>1. s = [verb |-> "Moved", named |-> {"number"} \cup tags]
      BY <2>3, <2>4
    <3>2. QED BY <2>4, <3>1
  <2>5. CASE "column" \notin changed /\ "name" \in changed
    <3>1. s = [verb |-> "Renamed", named |-> {"was", "number"} \cup tags]
      BY <2>3, <2>5
    <3>2. QED BY <2>5, <3>1
  <2>6. CASE "column" \notin changed /\ "name" \notin changed /\ "rest" \in changed
    <3>1. s = [verb |-> "Edited", named |-> {"number", "body"} \cup tags]
      BY <2>3, <2>6
    <3>2. QED BY <2>6, <3>1
  <2>7. CASE /\ "column" \notin changed /\ "name" \notin changed /\ "rest" \notin changed
             /\ "tags" \in changed
    <3>1. s = [verb |-> IF "tags" \in r.after.set THEN "Tagged" ELSE "Untagged",
               named |-> {"number", "tags"}]
      BY <2>3, <2>7
    <3>2. QED BY <2>7, <3>1
  <2>8. CASE /\ "column" \notin changed /\ "name" \notin changed /\ "rest" \notin changed
             /\ "tags" \notin changed
    <3>1. s = [verb |-> "Updated", named |-> {"number"}]
      BY <2>3, <2>8
    <3>2. changed \subseteq untold
      BY <2>1, <2>8
    <3>3. QED BY <2>8, <3>1, <3>2
  <2>9. QED BY <2>1, <2>4, <2>5, <2>6, <2>7, <2>8
<1>5. CASE Kind[r.entity] = "column"
  <2>1. changed \subseteq {"name", "position"}
    BY <1>2, <1>5 DEF Drawer!Fields
  <2>2. s = Drawer!ColumnUpdate(r)
    BY <1>5 DEF Drawer!DeriveSummary, Drawer!LinkSummary, Drawer!UpdateSummary
  <2>3. /\ "tags" \notin s.named
        /\ s.verb # "Updated" <=> "name" \in changed \/ "position" \in changed
    BY <2>2 DEF Drawer!ColumnUpdate, Drawer!Summary
  <2>4. QED BY <1>5, <2>1, <2>3 DEF Drawer!Untold
<1>6. CASE Kind[r.entity] = "board"
  <2>1. changed \subseteq {"name"}
    BY <1>2, <1>6 DEF Drawer!Fields
  <2>2. s = Drawer!BoardUpdate(r)
    BY <1>6 DEF Drawer!DeriveSummary, Drawer!LinkSummary, Drawer!UpdateSummary
  <2>3. "tags" \notin s.named /\ (s.verb # "Updated" <=> "name" \in changed)
    BY <2>2 DEF Drawer!BoardUpdate, Drawer!Summary
  <2>4. QED BY <1>6, <2>1, <2>3 DEF Drawer!Untold
<1>7. QED BY <1>1, <1>3, <1>4, <1>5, <1>6

----------------------------------------------------------------------------
(* A row is written, or an edit merged into one.                           *)

Grown(table, wider, n, r) ==
    /\ IsRow(r, n + 1) /\ r.at = n + 1
    /\ \/ r.id = n + 1 /\ wider = table \cup {r}
       \/ \E last \in table :
             /\ wider = (table \ {last}) \cup {r} /\ SameRow(last, r)
             /\ \A x \in table : x.entity = last.entity => x.at <= last.at

LEMMA RowLater ==
    ASSUME NEW n \in Nat, NEW r, IsRow(r, n)
    PROVE  IsRow(r, n + 1) /\ r.at \in Nat /\ r.id \in Nat
BY DEF IsRow, HistoryRows

\* What the row that is written is to the others.
LEMMA GrownRows ==
    ASSUME NEW table, NEW wider, NEW now, NEW n, NEW r,
           TableKept(table, now, n), Grown(table, wider, n, r)
    PROVE  /\ r \in wider /\ r \in HistoryRows
           /\ \A x \in wider : x # r => x \in table /\ x.id # r.id
           /\ \A x \in table : x \in wider \/ SameRow(x, r)
           /\ \A x \in table : x.at < r.at /\ (x.entity = r.entity => x.id <= r.id)
           /\ \A x \in table : x.id = r.id => SameRow(x, r)
<1>1. n \in Nat /\ \A x \in table : IsRow(x, n)
  BY DEF TableKept
<1>2. \A x \in table : x.at \in Nat /\ x.id \in Nat /\ x.id <= x.at /\ x.at <= n
  BY <1>1 DEF IsRow, HistoryRows
<1>3. r \in HistoryRows /\ r.at = n + 1 /\ r.id \in Nat
  BY DEF Grown, IsRow, HistoryRows
<1>4. CASE r.id = n + 1 /\ wider = table \cup {r}
  <2>1. \A x \in table : x.id < r.id
    BY <1>1, <1>2, <1>4
  <2>2. \A x \in table : x.id # r.id /\ x.id <= r.id
    BY <1>2, <1>3, <2>1
  <2>3. \A x \in table : x.at < r.at
    BY <1>1, <1>2, <1>3
  <2>4. QED BY <1>3, <1>4, <2>2, <2>3
<1>5. CASE \E last \in table :
             /\ wider = (table \ {last}) \cup {r} /\ SameRow(last, r)
             /\ \A x \in table : x.entity = last.entity => x.at <= last.at
  <2>1. PICK last \in table :
             /\ wider = (table \ {last}) \cup {r} /\ SameRow(last, r)
             /\ \A x \in table : x.entity = last.entity => x.at <= last.at
    BY <1>5
  <2>2. last.id = r.id /\ last.entity = r.entity
    BY <2>1 DEF SameRow
  <2>3. ASSUME NEW x \in table PROVE x.id = r.id => x = last
    BY <2>2, <2>3 DEF TableKept
  <2>4. ASSUME NEW x \in table, x.entity = r.entity PROVE x.id <= r.id
    <3>1. x.at <= last.at
      BY <2>1, <2>2, <2>4
    <3>2. last.id < x.id => last.at < x.at
      BY <2>2, <2>4 DEF TableKept
    <3>3. QED BY <1>2, <2>2, <3>1, <3>2
  <2>5. \A x \in table : x.at < r.at
    BY <1>1, <1>2, <1>3
  <2>6. \A x \in wider : x # r => x \in table /\ x # last
    BY <2>1
  <2>7. r \in wider /\ \A x \in table : x \in wider \/ x = last
    BY <2>1
  <2>8. QED BY <1>3, <2>1, <2>3, <2>4, <2>5, <2>6, <2>7
<1>6. QED BY <1>4, <1>5 DEF Grown

LEMMA TableGrows ==
    ASSUME NEW table, NEW wider, NEW now, NEW n, NEW r,
           TableKept(table, now, n), Grown(table, wider, n, r)
    PROVE  TableKept(wider, [now EXCEPT ![r.entity] = r.after], n + 1)
<1> DEFINE next == [now EXCEPT ![r.entity] = r.after]
<1>1. /\ r \in wider /\ r \in HistoryRows
      /\ \A x \in wider : x # r => x \in table /\ x.id # r.id
      /\ \A x \in table : x \in wider \/ SameRow(x, r)
      /\ \A x \in table : x.at < r.at /\ (x.entity = r.entity => x.id <= r.id)
  BY GrownRows
<1>2. n \in Nat /\ IsRow(r, n + 1) /\ r.at \in Nat /\ r.id \in Nat
  BY DEF TableKept, Grown, IsRow, HistoryRows
<1>3. IsFiniteSet(wider)
  <2>1. IsFiniteSet(table)
    BY DEF TableKept
  <2>2. IsFiniteSet(table \cup {r})
    BY <2>1, FS_AddElement
  <2>3. wider \subseteq table \cup {r}
    BY <1>1
  <2>4. QED BY <2>2, <2>3, FS_Subset
<1>4. next \in [DOMAIN Kind -> Snaps] /\ \A e \in DOMAIN Kind : StateOf(e, next[e])
  <2>1. r.entity \in DOMAIN Kind /\ r.after \in Snaps /\ StateOf(r.entity, r.after)
    BY <1>2 DEF IsRow, HistoryRows
  <2>2. QED BY <2>1 DEF TableKept
<1>5. \A x \in wider : IsRow(x, n + 1)
  BY <1>1, <1>2, RowLater DEF TableKept
<1>6. \A x \in table : x.at \in Nat /\ x.id \in Nat
  BY <1>2, RowLater DEF TableKept
<1>7. \A x, y \in wider : x.id = y.id \/ x.at = y.at => x = y
  <2>1. \A x \in wider : x # r => x.id # r.id /\ x.at # r.at
    BY <1>1, <1>2, <1>6
  <2>2. QED BY <1>1, <2>1 DEF TableKept
<1>8. \A x, y \in wider : x.entity = y.entity /\ x.id < y.id => x.at < y.at
  <2>1. ASSUME NEW x \in wider, NEW y \in wider, x.entity = y.entity, x.id < y.id
        PROVE  x.at < y.at
    <3>1. CASE x = r
      <4>1. y \in table
        BY <1>1, <1>2, <2>1, <3>1
      <4>2. QED BY <1>1, <1>2, <1>6, <2>1, <3>1, <4>1
    <3>2. CASE x # r /\ y = r
      BY <1>1, <3>2
    <3>3. CASE x # r /\ y # r
      BY <1>1, <2>1, <3>3 DEF TableKept
    <3>4. QED BY <3>1, <3>2, <3>3
  <2>2. QED BY <2>1
<1>9. ASSUME NEW x \in wider, \A y \in wider : y.entity = x.entity => y.at <= x.at
      PROVE  x.after = next[x.entity]
  <2>1. CASE x = r
    <3>1. r.entity \in DOMAIN Kind
      BY <1>1 DEF HistoryRows
    <3>2. QED BY <2>1, <3>1 DEF TableKept
  <2>2. CASE x # r
    <3>1. x \in table /\ x.at < r.at
      BY <1>1, <2>2
    <3>2. x.entity # r.entity
      BY <1>1, <1>2, <1>6, <1>9, <3>1
    <3>3. \A y \in table : y.entity = x.entity => y \in wider
      BY <1>1, <3>2 DEF SameRow
    <3>4. x.after = now[x.entity]
      BY <1>9, <3>1, <3>3 DEF TableKept
    <3>5. x.entity \in DOMAIN Kind
      BY <3>1 DEF TableKept, IsRow, HistoryRows
    <3>6. QED BY <3>2, <3>4, <3>5 DEF TableKept
  <2>3. QED BY <2>1, <2>2
<1> HIDE DEF next
<1>10. n + 1 \in Nat
  BY <1>2
<1>11. QED BY <1>3, <1>4, <1>5, <1>7, <1>8, <1>9, <1>10 DEF TableKept, next

\* What stands in a queue that has grown or lost its first.
LEMMA Queued ==
    ASSUME NEW queue \in Seq(HistoryRows), NEW r \in HistoryRows
    PROVE  /\ Append(queue, r) \in Seq(HistoryRows)
           /\ Drawer!Range(Append(queue, r)) = Drawer!Range(queue) \cup {r}
           /\ \A i \in DOMAIN Append(queue, r) :
                 \/ i \in DOMAIN queue /\ Append(queue, r)[i] = queue[i]
                 \/ i = Len(queue) + 1 /\ Append(queue, r)[i] = r
<1> DEFINE next == Append(queue, r)
<1>1. /\ next \in Seq(HistoryRows)
      /\ Len(next) = Len(queue) + 1
      /\ \A i \in 1 .. Len(queue) : next[i] = queue[i]
      /\ next[Len(queue) + 1] = r
  BY AppendProperties
<1> HIDE DEF next
<1>2. DOMAIN queue = 1 .. Len(queue) /\ Len(queue) \in Nat /\ DOMAIN next = 1 .. Len(queue) + 1
  BY <1>1
<1>3. Len(queue) + 1 \in DOMAIN next /\ DOMAIN queue \subseteq DOMAIN next
  BY <1>2
<1>4. \A i \in DOMAIN next : \/ i \in DOMAIN queue /\ next[i] = queue[i]
                             \/ i = Len(queue) + 1 /\ next[i] = r
  BY <1>1, <1>2
<1>5. Drawer!Range(next) = Drawer!Range(queue) \cup {r}
  <2>1. \A i \in DOMAIN queue : i \in DOMAIN next /\ next[i] = queue[i]
    BY <1>1, <1>2
  <2>2. QED BY <1>1, <1>3, <1>4, <2>1 DEF Drawer!Range
<1>6. QED BY <1>1, <1>4, <1>5 DEF next

\* The events of a queue are among those that have not been heard.
LEMMA IsComing ==
    ASSUME NEW sent, NEW due
    PROVE  /\ \A i \in DOMAIN sent : sent[i] \in Coming(sent, due)
           /\ \A i \in DOMAIN due : due[i] \in Coming(sent, due)
           /\ \A c \in Coming(sent, due) : \/ \E i \in DOMAIN sent : sent[i] = c
                                           \/ \E i \in DOMAIN due : due[i] = c
BY DEF Coming, Drawer!Range

LEMMA ComingGrows ==
    ASSUME NEW table, NEW wider, NEW now, NEW n, NEW r, NEW coming,
           TableKept(table, now, n), ComingKept(coming, table, n), Grown(table, wider, n, r)
    PROVE  ComingKept(coming \cup {r}, wider, n + 1)
<1>1. /\ r \in wider /\ r \in HistoryRows
      /\ \A x \in table : x \in wider \/ SameRow(x, r)
      /\ \A x \in table : x.at < r.at /\ (x.entity = r.entity => x.id <= r.id)
  BY GrownRows
<1>2. n \in Nat /\ IsRow(r, n + 1) /\ r.at = n + 1 /\ r.id \in Nat
  BY DEF TableKept, Grown, IsRow, HistoryRows
<1>3. \A c \in coming : IsRow(c, n) /\ c.at \in Nat /\ c.at <= n
  BY DEF ComingKept, IsRow, HistoryRows
<1>4. \A c \in coming \cup {r} : IsRow(c, n + 1)
  BY <1>2, <1>3, RowLater
<1>5. ASSUME NEW c \in coming \cup {r}
      PROVE  \E x \in wider : SameRow(x, c) /\ c.at <= x.at /\ (x.at = c.at => x = c)
  <2>1. CASE c = r
    <3>1. SameRow(r, r) /\ r.at <= r.at
      BY <1>2 DEF SameRow
    <3>2. QED BY <1>1, <2>1, <3>1
  <2>2. CASE c \in coming
    <3>1. PICK x \in table : SameRow(x, c) /\ c.at <= x.at /\ (x.at = c.at => x = c)
      BY <2>2 DEF ComingKept
    <3>2. CASE x \in wider
      BY <3>1, <3>2
    <3>3. CASE SameRow(x, r)
      <4>1. SameRow(r, c)
        BY <3>1, <3>3, SameRows
      <4>2. c.at <= r.at /\ r.at # c.at
        BY <1>2, <1>3, <2>2
      <4>3. QED BY <1>1, <4>1, <4>2
    <3>4. QED BY <1>1, <3>2, <3>3
  <2>3. QED BY <2>1, <2>2
<1>6. ASSUME NEW c \in coming \cup {r}, NEW d \in coming \cup {r},
             c.entity = d.entity, c.at < d.at
      PROVE  c.id <= d.id
  <2>1. c # r
    BY <1>2, <1>3, <1>6
  <2>2. CASE d = r
    <3>1. PICK x \in table : SameRow(x, c)
      BY <2>1 DEF ComingKept
    <3>2. x.id = c.id /\ x.entity = c.entity
      BY <3>1 DEF SameRow
    <3>3. QED BY <1>1, <1>6, <2>2, <3>2
  <2>3. CASE d # r
    BY <1>6, <2>1, <2>3 DEF ComingKept
  <2>4. QED BY <2>2, <2>3
<1>7. QED BY <1>4, <1>5, <1>6 DEF ComingKept

LEMMA UncrossedGrows ==
    ASSUME NEW table, NEW wider, NEW now, NEW n, NEW r, NEW sent, NEW due \in Seq(HistoryRows),
           TableKept(table, now, n), ComingKept(Coming(sent, due), table, n),
           Uncrossed(sent, due, table), Grown(table, wider, n, r)
    PROVE  Uncrossed(sent, Append(due, r), wider)
<1> DEFINE next == Append(due, r)
           coming == Coming(sent, due)
<1>1. /\ r \in wider /\ r \in HistoryRows
      /\ \A x \in wider : x # r => x \in table
  BY GrownRows
<1>2. n \in Nat /\ r.at = n + 1
  BY DEF TableKept, Grown
<1>3. /\ \A i \in DOMAIN next : \/ i \in DOMAIN due /\ next[i] = due[i]
                                \/ i = Len(due) + 1 /\ next[i] = r
      /\ Coming(sent, next) = coming \cup {r}
  <2>1. Drawer!Range(next) = Drawer!Range(due) \cup {r}
    BY <1>1, Queued
  <2>2. Coming(sent, next) = coming \cup {r}
    BY <2>1 DEF Coming
  <2>3. QED BY <1>1, <2>2, Queued
<1>4. DOMAIN due = 1 .. Len(due) /\ Len(due) \in Nat
  OBVIOUS
<1>5. \A c \in coming : c.at \in Nat /\ c.at < r.at
  BY <1>2 DEF ComingKept, IsRow, HistoryRows
<1>6. /\ \A i \in DOMAIN sent : sent[i].at < r.at
      /\ \A i \in DOMAIN due : due[i].at < r.at
  BY <1>5, IsComing
<1> HIDE DEF next, coming
<1>7. ASSUME NEW i \in DOMAIN next, NEW j \in DOMAIN next, i < j, next[i].entity = next[j].entity
      PROVE  next[i].at < next[j].at
  <2>1. i \in DOMAIN due /\ next[i] = due[i]
    BY <1>3, <1>4, <1>7
  <2>2. CASE j \in DOMAIN due /\ next[j] = due[j]
    BY <1>7, <2>1, <2>2 DEF Uncrossed, InTurn
  <2>3. CASE next[j] = r
    BY <1>6, <2>1, <2>3
  <2>4. QED BY <1>3, <2>2, <2>3
<1>8. \A i \in DOMAIN sent, j \in DOMAIN next :
         sent[i].entity = next[j].entity => sent[i].at < next[j].at
  BY <1>3, <1>6 DEF Uncrossed
<1>9. ASSUME NEW x \in wider, NEW c \in Coming(sent, next), x.entity = c.entity, c.at < x.at
      PROVE  x \in Coming(sent, next)
  <2>1. CASE x = r
    BY <1>3, <2>1
  <2>2. CASE x # r
    <3>1. x \in table
      BY <1>1, <2>2
    <3>2. x.at \in Nat /\ x.at <= n
      BY <3>1 DEF TableKept, IsRow, HistoryRows
    <3>3. c # r
      BY <1>2, <1>9, <3>2
    <3>4. c \in coming
      BY <1>3, <3>3
    <3>5. x \in coming
      BY <1>9, <3>1, <3>4 DEF Uncrossed, coming
    <3>6. QED BY <1>3, <3>5
  <2>3. QED BY <2>1, <2>2
<1>10. InTurn(sent)
  BY DEF Uncrossed
<1>11. QED BY <1>7, <1>8, <1>9, <1>10 DEF Uncrossed, InTurn, next

LEMMA KnownGrows ==
    ASSUME NEW table, NEW wider, NEW now, NEW n, NEW r, NEW rows,
           TableKept(table, now, n), Known(rows, table, n), Grown(table, wider, n, r)
    PROVE  Known(rows, wider, n + 1)
<1>1. r \in wider /\ (\A x \in table : x \in wider \/ SameRow(x, r)) /\ n \in Nat
  BY GrownRows DEF TableKept
<1>2. ASSUME NEW i \in DOMAIN rows
      PROVE  IsRow(rows[i], n + 1) /\ \E x \in wider : SameRow(x, rows[i])
  <2>1. IsRow(rows[i], n) /\ \E x \in table : SameRow(x, rows[i])
    BY DEF Known
  <2>2. PICK x \in table : SameRow(x, rows[i])
    BY <2>1
  <2>3. SameRow(x, r) => SameRow(r, rows[i])
    BY <2>2, SameRows
  <2>4. QED BY <1>1, <2>1, <2>2, <2>3, RowLater
<1>3. QED BY <1>2 DEF Known

LEMMA HeldGrows ==
    ASSUME NEW table, NEW wider, NEW now, NEW n, NEW r, NEW rows, NEW coming, NEW s,
           TableKept(table, now, n), Known(rows, table, n),
           Held(rows, s, table, coming), Grown(table, wider, n, r)
    PROVE  Held(rows, s, wider, coming \cup {r})
<1> DEFINE next == coming \cup {r}
<1>1. /\ r \in wider /\ r \in HistoryRows
      /\ \A x \in wider : x # r => x \in table /\ x.id # r.id
      /\ \A x \in table : x \in wider \/ SameRow(x, r)
      /\ \A x \in table : x.at < r.at /\ (x.entity = r.entity => x.id <= r.id)
  BY GrownRows
<1>2. r \in next /\ coming \subseteq next
  OBVIOUS
<1>3. IsRow(r, n + 1) /\ r.id \in Nat /\ \A x \in table : IsRow(x, n) /\ x.id \in Nat
  BY DEF Grown, TableKept, IsRow, HistoryRows
<1> HIDE DEF next
<1>4. \A i, j \in DOMAIN rows : rows[i].id = rows[j].id => i = j
  BY DEF Held
<1>5. \A x \in wider : Drawer!Matches(x, s) => Among(x, rows) \/ x \in next
  BY <1>1, <1>2 DEF Held
<1>6. ASSUME NEW i \in DOMAIN rows
      PROVE  \E x \in wider : SameRow(x, rows[i]) /\ Drawer!Matches(x, s)
                              /\ (x = rows[i] \/ x \in next)
  <2>1. PICK x \in table : SameRow(x, rows[i]) /\ Drawer!Matches(x, s)
                           /\ (x = rows[i] \/ x \in coming)
    BY DEF Held
  <2>2. CASE x \in wider
    BY <1>2, <2>1, <2>2
  <2>3. CASE SameRow(x, r)
    <3>1. SameRow(r, rows[i])
      BY <2>1, <2>3, SameRows
    <3>2. Drawer!Matches(r, s)
      BY <1>3, <2>1, <2>3, SameShown
    <3>3. QED BY <1>1, <1>2, <3>1, <3>2
  <2>4. QED BY <1>1, <2>2, <2>3
<1>7. \A i, j \in DOMAIN rows : i < j /\ rows[i].entity = rows[j].entity => rows[j].id < rows[i].id
  BY DEF Held
<1>8. ASSUME NEW i \in DOMAIN rows, NEW x \in wider,
             x.entity = rows[i].entity, x.id < rows[i].id, Drawer!Matches(x, s)
      PROVE  \E j \in DOMAIN rows : rows[j].id = x.id
  <2>1. CASE x = r
    <3>1. PICK y \in table : SameRow(y, rows[i])
      BY DEF Held
    <3>2. y.id = rows[i].id /\ y.entity = rows[i].entity
      BY <3>1 DEF SameRow
    <3>3. y.id <= r.id
      BY <1>1, <1>8, <2>1, <3>2
    <3>4. QED BY <1>3, <1>8, <2>1, <3>2, <3>3
  <2>2. CASE x # r
    BY <1>1, <1>8, <2>2 DEF Held
  <2>3. QED BY <2>1, <2>2
<1>9. QED BY <1>4, <1>5, <1>6, <1>7, <1>8 DEF Held, next

LEMMA UpToGrows ==
    ASSUME NEW table, NEW wider, NEW now, NEW n, NEW r, NEW rows, NEW s,
           TableKept(table, now, n), Known(rows, table, n), UpTo(rows, s, table),
           Grown(table, wider, n, r)
    PROVE  UpTo(rows, s, wider)
<1>1. \A x \in wider : x # r => x \in table
  BY GrownRows
<1>2. r.at = n + 1 /\ n \in Nat
  BY DEF Grown, TableKept
<1>3. \A i \in DOMAIN rows : rows[i].at \in Nat /\ rows[i].at <= n
  BY DEF Known, IsRow, HistoryRows
<1>4. \A i \in DOMAIN rows : ~(r.at <= rows[i].at)
  BY <1>2, <1>3
<1>5. QED BY <1>1, <1>4 DEF UpTo

----------------------------------------------------------------------------
(* An event is heard.                                                      *)

\* What is left when the first event has been heard.
LEMMA Queue ==
    ASSUME NEW queue \in Seq(HistoryRows), queue # << >>
    PROVE  /\ Head(queue) \in HistoryRows /\ Tail(queue) \in Seq(HistoryRows)
           /\ 1 \in DOMAIN queue /\ queue[1] = Head(queue)
           /\ \A i \in DOMAIN Tail(queue) :
                 1 < i + 1 /\ i + 1 \in DOMAIN queue /\ Tail(queue)[i] = queue[i + 1]
           /\ Drawer!Range(queue) = Drawer!Range(Tail(queue)) \cup {Head(queue)}
<1> DEFINE rest == Tail(queue)
<1>1. /\ Head(queue) \in HistoryRows /\ rest \in Seq(HistoryRows)
      /\ Len(rest) = Len(queue) - 1
      /\ \A i \in 1 .. Len(rest) : rest[i] = queue[i + 1]
  BY HeadTailProperties, Zenon
<1>2. /\ DOMAIN queue = 1 .. Len(queue) /\ Len(queue) \in Nat /\ Len(queue) # 0
      /\ DOMAIN rest = 1 .. Len(rest) /\ Len(rest) \in Nat
  BY <1>1
<1>3. 1 \in DOMAIN queue /\ queue[1] = Head(queue)
  BY <1>2
<1> HIDE DEF rest
<1>4. \A i \in DOMAIN rest : 1 < i + 1 /\ i + 1 \in DOMAIN queue /\ rest[i] = queue[i + 1]
  BY <1>1, <1>2
<1>5. ASSUME NEW i \in DOMAIN queue, i # 1
      PROVE  i - 1 \in DOMAIN rest /\ rest[i - 1] = queue[i]
  BY <1>1, <1>2, <1>5
<1>6. \A i \in DOMAIN queue : i = 1 \/ \E j \in DOMAIN rest : rest[j] = queue[i]
  BY <1>5
<1>7. Drawer!Range(queue) = Drawer!Range(rest) \cup {Head(queue)}
  BY <1>3, <1>4, <1>6 DEF Drawer!Range
<1>8. QED BY <1>1, <1>3, <1>4, <1>7 DEF rest

LEMMA ComingShrinks ==
    ASSUME NEW coming, NEW rest \in SUBSET coming, NEW table, NEW n, ComingKept(coming, table, n)
    PROVE  ComingKept(rest, table, n)
BY DEF ComingKept

\* The first event stands before the others of its entity.
LEMMA FirstIsFirst ==
    ASSUME NEW table, NEW sent \in Seq(HistoryRows), NEW due, sent # << >>,
           Uncrossed(sent, due, table)
    PROVE  /\ Coming(sent, due) = Coming(Tail(sent), due) \cup {Head(sent)}
           /\ \A c \in Coming(Tail(sent), due) :
                 c.entity = Head(sent).entity => Head(sent).at < c.at
<1> DEFINE r == Head(sent)
           rest == Tail(sent)
<1>1. /\ 1 \in DOMAIN sent /\ sent[1] = r
      /\ \A i \in DOMAIN rest : 1 < i + 1 /\ i + 1 \in DOMAIN sent /\ rest[i] = sent[i + 1]
      /\ Drawer!Range(sent) = Drawer!Range(rest) \cup {r}
  BY Queue
<1> HIDE DEF r, rest
<1>2. ASSUME NEW c \in Coming(rest, due), c.entity = r.entity PROVE r.at < c.at
  <2>1. CASE \E i \in DOMAIN rest : rest[i] = c
    <3>1. PICK i \in DOMAIN rest : rest[i] = c
      BY <2>1
    <3>2. 1 < i + 1 /\ i + 1 \in DOMAIN sent /\ sent[i + 1] = c
      BY <1>1, <3>1
    <3>3. QED BY <1>1, <1>2, <3>2 DEF Uncrossed, InTurn
  <2>2. CASE \E i \in DOMAIN due : due[i] = c
    BY <1>1, <1>2, <2>2 DEF Uncrossed
  <2>3. QED BY <2>1, <2>2, IsComing
<1>3. Coming(sent, due) = Coming(rest, due) \cup {r}
  BY <1>1 DEF Coming
<1>4. QED BY <1>2, <1>3 DEF r, rest

LEMMA UncrossedHeard ==
    ASSUME NEW table, NEW now, NEW n, NEW sent \in Seq(HistoryRows), NEW due, sent # << >>,
           TableKept(table, now, n), ComingKept(Coming(sent, due), table, n),
           Uncrossed(sent, due, table)
    PROVE  Uncrossed(Tail(sent), due, table)
<1> DEFINE r == Head(sent)
           rest == Tail(sent)
<1>1. /\ rest \in Seq(HistoryRows)
      /\ \A i \in DOMAIN rest : i + 1 \in DOMAIN sent /\ rest[i] = sent[i + 1]
  BY Queue
<1>2. /\ Coming(sent, due) = Coming(rest, due) \cup {r}
      /\ \A c \in Coming(rest, due) : c.entity = r.entity => r.at < c.at
  BY FirstIsFirst
<1> HIDE DEF r, rest
<1>3. ASSUME NEW i \in DOMAIN rest, NEW j \in DOMAIN rest, i < j, rest[i].entity = rest[j].entity
      PROVE  rest[i].at < rest[j].at
  <2>1. i \in Int /\ j \in Int
    BY <1>1
  <2>2. i + 1 < j + 1
    BY <1>3, <2>1
  <2>3. QED BY <1>1, <1>3, <2>2 DEF Uncrossed, InTurn
<1>4. \A i \in DOMAIN rest, j \in DOMAIN due :
         rest[i].entity = due[j].entity => rest[i].at < due[j].at
  BY <1>1 DEF Uncrossed
<1>5. ASSUME NEW x \in table, NEW c \in Coming(rest, due), x.entity = c.entity, c.at < x.at
      PROVE  x \in Coming(rest, due)
  <2>1. x \in Coming(sent, due)
    BY <1>2, <1>5 DEF Uncrossed
  <2>2. ASSUME x = r PROVE FALSE
    <3>1. x.at < c.at
      BY <1>2, <1>5, <2>2
    <3>2. x.at \in Nat /\ c.at \in Nat
      BY <1>2, <1>5 DEF TableKept, ComingKept, IsRow, HistoryRows
    <3>3. QED BY <1>5, <3>1, <3>2
  <2>3. QED BY <1>2, <2>1, <2>2
<1>6. InTurn(due)
  BY DEF Uncrossed
<1>7. QED BY <1>3, <1>4, <1>5, <1>6 DEF Uncrossed, InTurn, rest

\* A row the drawer has is replaced where it is, any other comes first.
Took(rows, r, new) ==
    \/ \E i \in DOMAIN rows :
          /\ rows[i].id = r.id /\ DOMAIN new = DOMAIN rows
          /\ \A j \in DOMAIN rows : new[j] = IF j = i THEN r ELSE rows[j]
    \/ /\ \A i \in DOMAIN rows : rows[i].id # r.id
       /\ 1 \in DOMAIN new /\ new[1] = r
       /\ \A j \in DOMAIN new :
             j = 1 \/ (1 < j /\ j - 1 \in DOMAIN rows /\ new[j] = rows[j - 1])
       /\ \A j \in DOMAIN rows : j + 1 \in DOMAIN new /\ new[j + 1] = rows[j]

LEMMA RowTaken ==
    ASSUME NEW rows \in Seq(HistoryRows), NEW r \in HistoryRows
    PROVE  /\ Drawer!Take(rows, r) \in Seq(HistoryRows)
           /\ Took(rows, r, Drawer!Take(rows, r))
<1> DEFINE I == {i \in 1 .. Len(rows) : rows[i].id = r.id}
           i0 == Drawer!SelectInSeq(rows, LAMBDA x : x.id = r.id)
           new == Drawer!Take(rows, r)
<1>1. i0 = IF I # {} THEN Drawer!Min(I) ELSE 0
  BY DEF Drawer!SelectInSeq
<1>2. new = IF i0 # 0 THEN [rows EXCEPT ![i0] = r] ELSE <<r>> \o rows
  BY DEF Drawer!Take, Drawer!ReplaceAt
<1>3. DOMAIN rows = 1 .. Len(rows) /\ Len(rows) \in Nat
  OBVIOUS
<1>4. CASE I # {}
  <2>1. I \in SUBSET Nat
    BY <1>3
  <2>2. \E x \in I : \A y \in I : x <= y
    BY <1>4, <2>1, HasLeast
  <2>3. i0 \in I
    BY <1>1, <1>4, <2>2 DEF Drawer!Min
  <2> HIDE DEF i0, new
  <2>4. i0 \in 1 .. Len(rows) /\ i0 # 0 /\ rows[i0].id = r.id
    BY <1>3, <2>3
  <2>5. new = [rows EXCEPT ![i0] = r]
    BY <1>2, <2>4
  <2>6. /\ new \in Seq(HistoryRows) /\ Len(new) = Len(rows)
        /\ \A j \in 1 .. Len(rows) : new[j] = IF j = i0 THEN r ELSE rows[j]
    BY <2>4, <2>5, ExceptSeq
  <2>7. DOMAIN new = DOMAIN rows
    BY <1>3, <2>6
  <2>8. QED BY <1>3, <2>4, <2>6, <2>7 DEF new, Took
<1>5. CASE I = {}
  <2>1. \A i \in DOMAIN rows : rows[i].id # r.id
    BY <1>3, <1>5
  <2>2. new = <<r>> \o rows
    BY <1>1, <1>2, <1>5
  <2> HIDE DEF i0, new, I
  <2>3. <<r>> \in Seq(HistoryRows) /\ Len(<<r>>) = 1 /\ <<r>>[1] = r
    OBVIOUS
  <2>4. /\ new \in Seq(HistoryRows) /\ Len(new) = 1 + Len(rows)
        /\ \A i \in 1 .. 1 + Len(rows) : new[i] = IF i <= 1 THEN <<r>>[i] ELSE rows[i - 1]
    BY <2>2, <2>3, ConcatProperties
  <2>5. DOMAIN new = 1 .. 1 + Len(rows)
    BY <2>4
  <2>6. 1 \in DOMAIN new /\ new[1] = r
    BY <1>3, <2>3, <2>4, <2>5
  <2>7. ASSUME NEW j \in DOMAIN new
        PROVE  j = 1 \/ (1 < j /\ j - 1 \in DOMAIN rows /\ new[j] = rows[j - 1])
    BY <1>3, <2>4, <2>5
  <2>8. ASSUME NEW j \in DOMAIN rows PROVE j + 1 \in DOMAIN new /\ new[j + 1] = rows[j]
    <3>1. j + 1 \in 1 .. 1 + Len(rows) /\ ~(j + 1 <= 1) /\ (j + 1) - 1 = j
      BY <1>3
    <3>2. QED BY <2>4, <2>5, <3>1
  <2>9. QED BY <2>1, <2>4, <2>6, <2>7, <2>8 DEF new, Took
<1>6. QED BY <1>4, <1>5

\* The first version is none, or a version no other stands before.
LEMMA FirstVersion ==
    ASSUME NEW rows \in Seq(HistoryRows)
    PROVE  \/ /\ Drawer!NewestVersion(rows) = 0
              /\ \A i \in DOMAIN rows : ~Drawer!IsVersion(rows[i])
           \/ /\ Drawer!NewestVersion(rows) \in DOMAIN rows /\ Drawer!NewestVersion(rows) # 0
              /\ Drawer!IsVersion(rows[Drawer!NewestVersion(rows)])
              /\ \A i \in DOMAIN rows : Drawer!IsVersion(rows[i])
                    => Drawer!NewestVersion(rows) <= i
<1> DEFINE I == {i \in 1 .. Len(rows) : Drawer!IsVersion(rows[i])}
           v == Drawer!NewestVersion(rows)
<1>1. v = IF I # {} THEN Drawer!Min(I) ELSE 0
  BY DEF Drawer!NewestVersion, Drawer!SelectInSeq
<1>2. DOMAIN rows = 1 .. Len(rows) /\ Len(rows) \in Nat
  OBVIOUS
<1> HIDE DEF v
<1>3. CASE I # {}
  <2>1. I \in SUBSET Nat
    BY <1>2
  <2>2. \E x \in I : \A y \in I : x <= y
    BY <1>3, <2>1, HasLeast
  <2>3. v \in I /\ \A y \in I : v <= y
    BY <1>1, <1>3, <2>2 DEF Drawer!Min
  <2>4. v \in DOMAIN rows /\ v # 0 /\ Drawer!IsVersion(rows[v])
    BY <1>2, <2>3
  <2>5. QED BY <1>2, <2>3, <2>4 DEF v
<1>4. CASE I = {}
  BY <1>1, <1>2, <1>4 DEF v
<1>5. QED BY <1>3, <1>4

\* Row x of the table is what event r tells of; the events behind r tell the rest.
ToldOf(x, r, rest, table) ==
    /\ SameRow(x, r) /\ (x = r \/ x \in rest)
    /\ \A y \in table : y.id = r.id => y = x

\* Event r is the next of its entity that is heard.
NextHeard(r, coming, rest, table, n) ==
    /\ IsRow(r, n) /\ coming = rest \cup {r}
    /\ \A x \in rest : x.entity = r.entity => r.id <= x.id
    /\ \E x \in table : ToldOf(x, r, rest, table)

\* The first event on its way tells a row as it is, or the row will be told of again.
LEMMA FirstEvent ==
    ASSUME NEW table, NEW now, NEW n, NEW sent \in Seq(HistoryRows), NEW due, sent # << >>,
           TableKept(table, now, n), ComingKept(Coming(sent, due), table, n),
           Uncrossed(sent, due, table)
    PROVE  NextHeard(Head(sent), Coming(sent, due), Coming(Tail(sent), due), table, n)
<1> DEFINE r == Head(sent)
           rest == Coming(Tail(sent), due)
           coming == Coming(sent, due)
<1>1. coming = rest \cup {r} /\ \A c \in rest : c.entity = r.entity => r.at < c.at
  BY FirstIsFirst
<1>2. ComingKept(coming, table, n)
  OBVIOUS
<1>3. \A y \in table, c \in coming : y.entity = c.entity /\ c.at < y.at => y \in coming
  BY DEF Uncrossed
<1> HIDE DEF rest, r, coming
<1>4. IsRow(r, n)
  BY <1>1, <1>2 DEF ComingKept
<1>5. \A x \in rest : x.entity = r.entity => r.id <= x.id
  BY <1>1, <1>2 DEF ComingKept
<1>6. PICK x \in table : SameRow(x, r) /\ r.at <= x.at /\ (x.at = r.at => x = r)
  BY <1>1, <1>2 DEF ComingKept
<1>7. x = r \/ x \in rest
  <2>1. r.at \in Nat /\ x.at \in Nat
    BY <1>4 DEF IsRow, HistoryRows, TableKept
  <2>2. CASE x.at = r.at
    BY <1>6, <2>2
  <2>3. CASE r.at < x.at
    <3>1. x.entity = r.entity
      BY <1>6 DEF SameRow
    <3>2. QED BY <1>1, <1>3, <2>3, <3>1
  <2>4. QED BY <1>6, <2>1, <2>2, <2>3
<1>8. \A y \in table : y.id = r.id => y = x
  <2>1. x.id = r.id
    BY <1>6 DEF SameRow
  <2>2. QED BY <2>1 DEF TableKept
<1>9. ToldOf(x, r, rest, table)
  BY <1>6, <1>7, <1>8 DEF ToldOf
<1>10. QED BY <1>1, <1>4, <1>5, <1>9 DEF NextHeard, rest, r, coming

LEMMA KnownTakes ==
    ASSUME NEW table, NEW n, NEW coming, NEW r \in coming, NEW rows,
           ComingKept(coming, table, n), Known(rows, table, n)
    PROVE  Known(Drawer!Take(rows, r), table, n)
<1> DEFINE new == Drawer!Take(rows, r)
<1>1. r \in HistoryRows /\ IsRow(r, n) /\ \E x \in table : SameRow(x, r)
  BY DEF ComingKept, IsRow
<1>2. rows \in Seq(HistoryRows)
  BY DEF Known
<1>3. new \in Seq(HistoryRows) /\ Took(rows, r, new)
  BY <1>1, <1>2, RowTaken
<1> HIDE DEF new
<1>4. \A j \in DOMAIN new : new[j] = r \/ \E i \in DOMAIN rows : new[j] = rows[i]
  BY <1>3 DEF Took
<1>5. QED BY <1>1, <1>3, <1>4 DEF Known, new

LEMMA HeldHears ==
    ASSUME NEW table, NEW now, NEW n, NEW coming, NEW rest, NEW r, NEW rows, NEW s,
           TableKept(table, now, n), NextHeard(r, coming, rest, table, n),
           Known(rows, table, n), Held(rows, s, table, coming), Drawer!Matches(r, s)
    PROVE  Held(Drawer!Take(rows, r), s, table, rest)
<1> DEFINE new == Drawer!Take(rows, r)
<1>1. /\ IsRow(r, n) /\ r \in HistoryRows
      /\ \A x : x \in coming <=> x = r \/ x \in rest
      /\ \A x : x \in rest /\ x.entity = r.entity => r.id <= x.id
  BY DEF NextHeard, IsRow
<1>2. PICK y \in table : ToldOf(y, r, rest, table)
  BY DEF NextHeard
<1>3. rows \in Seq(HistoryRows)
  BY DEF Known
<1>4. new \in Seq(HistoryRows) /\ Took(rows, r, new)
  BY <1>1, <1>3, RowTaken
<1>5. /\ SameRow(y, r) /\ (y = r \/ y \in rest) /\ \A x \in table : x.id = r.id => x = y
      /\ y.id = r.id /\ y.entity = r.entity /\ Drawer!Matches(y, s)
  <2>1. /\ SameRow(y, r) /\ (y = r \/ y \in rest) /\ \A x \in table : x.id = r.id => x = y
    BY <1>2 DEF ToldOf
  <2>2. IsRow(y, n)
    BY DEF TableKept
  <2>3. QED BY <1>1, <2>1, <2>2, SameShown DEF SameRow
<1> HIDE DEF new
<1>6. /\ r.id \in Nat /\ \A i \in DOMAIN rows : rows[i].id \in Nat
      /\ \A x \in table : x.id \in Nat
  BY <1>1, <1>3 DEF HistoryRows, Known, IsRow, TableKept
<1>7. CASE \E i \in DOMAIN rows :
              /\ rows[i].id = r.id /\ DOMAIN new = DOMAIN rows
              /\ \A j \in DOMAIN rows : new[j] = IF j = i THEN r ELSE rows[j]
  <2>1. PICK k \in DOMAIN rows :
              /\ rows[k].id = r.id /\ DOMAIN new = DOMAIN rows
              /\ \A j \in DOMAIN rows : new[j] = IF j = k THEN r ELSE rows[j]
    BY <1>7
  <2>2. PICK z \in table : SameRow(z, rows[k])
    BY DEF Held
  <2>3. z = y /\ rows[k].entity = r.entity
    BY <1>5, <2>1, <2>2 DEF SameRow
  <2>4. \A j \in DOMAIN rows : new[j].id = rows[j].id /\ new[j].entity = rows[j].entity
    BY <2>1, <2>3
  <2>5. \A j \in DOMAIN rows : rows[j].id = r.id => j = k
    BY <2>1 DEF Held
  <2>6. new[k] = r /\ Among(r, new)
    BY <2>1 DEF Among
  <2>7. \A i, j \in DOMAIN new : new[i].id = new[j].id => i = j
    BY <2>1, <2>4 DEF Held
  <2>8. ASSUME NEW x \in table, Drawer!Matches(x, s) PROVE Among(x, new) \/ x \in rest
    <3>1. CASE x = y
      BY <1>5, <2>6, <3>1
    <3>2. CASE x # y
      <4>1. x.id # r.id
        BY <1>5, <3>2
      <4>2. Among(x, rows) \/ x \in rest
        BY <1>1, <2>8, <4>1 DEF Held
      <4>3. ASSUME NEW j \in DOMAIN rows, rows[j] = x PROVE Among(x, new)
        <5>1. new[j] = x /\ j \in DOMAIN new
          BY <2>1, <4>1, <4>3
        <5>2. QED BY <5>1 DEF Among
      <4>4. Among(x, rows) => Among(x, new)
        BY <4>3 DEF Among
      <4>5. QED BY <4>2, <4>4
    <3>3. QED BY <3>1, <3>2
  <2>9. ASSUME NEW i \in DOMAIN new
        PROVE  \E x \in table : SameRow(x, new[i]) /\ Drawer!Matches(x, s)
                                /\ (x = new[i] \/ x \in rest)
    <3>1. CASE i = k
      BY <1>5, <2>6, <3>1
    <3>2. CASE i # k
      <4>1. new[i] = rows[i] /\ i \in DOMAIN rows /\ rows[i].id # r.id
        BY <2>1, <2>5, <3>2
      <4>2. PICK x \in table : SameRow(x, rows[i]) /\ Drawer!Matches(x, s)
                               /\ (x = rows[i] \/ x \in coming)
        BY <4>1 DEF Held
      <4>3. x # r
        BY <4>1, <4>2 DEF SameRow
      <4>4. QED BY <1>1, <4>1, <4>2, <4>3
    <3>3. QED BY <3>1, <3>2
  <2>10. \A i, j \in DOMAIN new : i < j /\ new[i].entity = new[j].entity => new[j].id < new[i].id
    BY <2>1, <2>4 DEF Held
  <2>11. \A i \in DOMAIN new, x \in table :
            x.entity = new[i].entity /\ x.id < new[i].id /\ Drawer!Matches(x, s)
            => \E j \in DOMAIN new : new[j].id = x.id
    BY <2>1, <2>4 DEF Held
  <2>12. QED BY <2>7, <2>8, <2>9, <2>10, <2>11 DEF Held, new
<1>8. CASE /\ \A i \in DOMAIN rows : rows[i].id # r.id
           /\ 1 \in DOMAIN new /\ new[1] = r
           /\ \A j \in DOMAIN new :
                 j = 1 \/ (1 < j /\ j - 1 \in DOMAIN rows /\ new[j] = rows[j - 1])
           /\ \A j \in DOMAIN rows : j + 1 \in DOMAIN new /\ new[j + 1] = rows[j]
  <2>1. Among(r, new) /\ \A x : Among(x, rows) => Among(x, new)
    BY <1>8 DEF Among
  <2>2. \A i \in DOMAIN rows : i \in Int
    BY <1>3
  <2>3. \A j \in DOMAIN new : j = 1 \/ (1 < j /\ j \in Int)
    BY <1>4, <1>8
  <2>4. ASSUME NEW i \in DOMAIN new, NEW j \in DOMAIN new, new[i].id = new[j].id PROVE i = j
    <3>1. CASE i = 1 \/ j = 1
      BY <1>8, <2>4, <3>1
    <3>2. CASE i # 1 /\ j # 1
      <4>1. i - 1 = j - 1
        BY <1>8, <2>4, <3>2 DEF Held
      <4>2. QED BY <2>3, <4>1
    <3>3. QED BY <3>1, <3>2
  <2>5. \A x \in table : Drawer!Matches(x, s) => Among(x, new) \/ x \in rest
    BY <1>1, <2>1 DEF Held
  <2>6. ASSUME NEW i \in DOMAIN new
        PROVE  \E x \in table : SameRow(x, new[i]) /\ Drawer!Matches(x, s)
                                /\ (x = new[i] \/ x \in rest)
    <3>1. CASE i = 1
      BY <1>5, <1>8, <3>1
    <3>2. CASE i # 1
      <4>1. i - 1 \in DOMAIN rows /\ new[i] = rows[i - 1] /\ new[i].id # r.id
        BY <1>8, <3>2
      <4>2. PICK x \in table : SameRow(x, new[i]) /\ Drawer!Matches(x, s)
                               /\ (x = new[i] \/ x \in coming)
        BY <4>1 DEF Held
      <4>3. x # r
        BY <4>1, <4>2 DEF SameRow
      <4>4. QED BY <1>1, <4>2, <4>3
    <3>3. QED BY <3>1, <3>2
  <2>7. ASSUME NEW k \in DOMAIN rows, rows[k].entity = r.entity PROVE rows[k].id < r.id
    <3>1. ~(r.id < rows[k].id)
      <4>1. ASSUME r.id < rows[k].id PROVE FALSE
        <5>1. y.entity = rows[k].entity /\ y.id < rows[k].id
          BY <1>5, <2>7, <4>1
        <5>2. \E j \in DOMAIN rows : rows[j].id = y.id
          BY <1>5, <5>1 DEF Held
        <5>3. QED BY <1>5, <1>8, <5>2
      <4>2. QED BY <4>1
    <3>2. QED BY <1>6, <1>8, <3>1
  <2>8. ASSUME NEW i \in DOMAIN new, NEW j \in DOMAIN new, i < j, new[i].entity = new[j].entity
        PROVE  new[j].id < new[i].id
    <3>1. j # 1 /\ j - 1 \in DOMAIN rows /\ new[j] = rows[j - 1]
      BY <1>8, <2>3, <2>8
    <3>2. CASE i = 1
      BY <1>8, <2>7, <2>8, <3>1, <3>2
    <3>3. CASE i # 1
      <4>1. i - 1 \in DOMAIN rows /\ new[i] = rows[i - 1]
        BY <1>8, <3>3
      <4>2. i - 1 < j - 1
        BY <2>3, <2>8
      <4>3. QED BY <2>8, <3>1, <4>1, <4>2 DEF Held
    <3>4. QED BY <3>2, <3>3
  <2>9. ASSUME NEW i \in DOMAIN new, NEW x \in table,
               x.entity = new[i].entity, x.id < new[i].id, Drawer!Matches(x, s)
        PROVE  \E j \in DOMAIN new : new[j].id = x.id
    <3>1. CASE i = 1
      <4>1. x.entity = r.entity /\ x.id < r.id
        BY <1>8, <2>9, <3>1
      <4>2. x \notin rest /\ x # r
        BY <1>1, <1>6, <4>1
      <4>3. Among(x, rows)
        BY <1>1, <2>9, <4>2 DEF Held
      <4>4. QED BY <2>1, <4>3 DEF Among
    <3>2. CASE i # 1
      <4>1. i - 1 \in DOMAIN rows /\ new[i] = rows[i - 1]
        BY <1>8, <3>2
      <4>2. \E j \in DOMAIN rows : rows[j].id = x.id
        BY <2>9, <4>1 DEF Held
      <4>3. QED BY <1>8, <4>2
    <3>3. QED BY <3>1, <3>2
  <2>10. QED BY <2>4, <2>5, <2>6, <2>8, <2>9 DEF Held, new
<1>9. QED BY <1>4, <1>7, <1>8 DEF Took

\* An event of another scope.
LEMMA HeldPasses ==
    ASSUME NEW table, NEW n, NEW coming, NEW rest, NEW r, NEW rows, NEW s,
           NextHeard(r, coming, rest, table, n),
           Held(rows, s, table, coming), ~Drawer!Matches(r, s)
    PROVE  Held(rows, s, table, rest)
<1>1. \A x : Drawer!Matches(x, s) /\ x \in coming => x \in rest
  BY DEF NextHeard
<1> HIDE DEF Among
<1>2. QED BY <1>1 DEF Held

\* An event that an answer on its way does not miss: it has the row already.
LEMMA HeldMissesNot ==
    ASSUME NEW table, NEW n, NEW coming, NEW rest, NEW r, NEW rows, NEW s,
           NextHeard(r, coming, rest, table, n),
           Known(rows, table, n), Held(rows, s, table, coming), UpTo(rows, s, table),
           ~(Drawer!Matches(r, s) /\ \A i \in DOMAIN rows : rows[i].at < r.at)
    PROVE  Held(rows, s, table, rest)
<1>1. CASE ~Drawer!Matches(r, s)
  BY <1>1, HeldPasses
<1>2. CASE Drawer!Matches(r, s)
  <2>1. PICK k \in DOMAIN rows : ~(rows[k].at < r.at)
    BY <1>2
  <2>2. \A x : x \in coming <=> x = r \/ x \in rest
    BY DEF NextHeard
  <2>3. IsRow(r, n) /\ IsRow(rows[k], n)
    BY DEF NextHeard, Known
  <2>5. r.at <= rows[k].at
    BY <2>1, <2>3 DEF IsRow, HistoryRows
  \* The row as it is told: either it is the row as it is stored, and the answer has it, or it
  \* is not in the table any more.
  <2>6. r \in table => Among(r, rows)
    BY <1>2, <2>5 DEF UpTo
  <2>7. \A x \in table : Drawer!Matches(x, s) => Among(x, rows) \/ x \in rest
    BY <2>2, <2>6 DEF Held
  <2>8. ASSUME NEW i \in DOMAIN rows
        PROVE  \E x \in table : SameRow(x, rows[i]) /\ Drawer!Matches(x, s)
                                /\ (x = rows[i] \/ x \in rest)
    <3>1. PICK x \in table : SameRow(x, rows[i]) /\ Drawer!Matches(x, s)
                             /\ (x = rows[i] \/ x \in coming)
      BY DEF Held
    <3>2. CASE x # r
      BY <2>2, <3>1, <3>2
    <3>3. CASE x = r
      <4>1. PICK j \in DOMAIN rows : rows[j] = r
        BY <2>6, <3>3 DEF Among
      <4>2. rows[j].id = rows[i].id
        BY <3>1, <3>3, <4>1 DEF SameRow
      <4>3. rows[i] = r
        BY <4>1, <4>2 DEF Held
      <4>4. QED BY <3>1, <3>3, <4>3
    <3>4. QED BY <3>2, <3>3
  <2>9. QED BY <2>7, <2>8 DEF Held
<1>3. QED BY <1>1, <1>2

----------------------------------------------------------------------------
(* The rows of a scope, as the server lists them.                          *)

\* Each row has a place of its own, behind those that are newer.
LEMMA NewestFirst ==
    ASSUME NEW S \in SUBSET HistoryRows, IsFiniteSet(S), \A x, y \in S : x.at = y.at => x = y
    PROVE  /\ Cardinality(S) \in Nat
           /\ \A i \in 1 .. Cardinality(S) :
                 \E x \in S : Cardinality(Drawer!Newer(S, x)) = i - 1
           /\ \A x \in S : Cardinality(Drawer!Newer(S, x)) + 1 \in 1 .. Cardinality(S)
           /\ \A x, y \in S : x.at > y.at
                 => Cardinality(Drawer!Newer(S, x)) < Cardinality(Drawer!Newer(S, y))
<1> DEFINE Ahead(x) == Drawer!Newer(S, x)
           n == Cardinality(S)
<1>1. n \in Nat /\ \A x \in S : x.at \in Nat
  BY FS_CardinalityType DEF HistoryRows
<1>2. ASSUME NEW x \in S PROVE IsFiniteSet(Ahead(x)) /\ Cardinality(Ahead(x)) \in Nat
  <2>1. Ahead(x) \subseteq S
    BY DEF Drawer!Newer
  <2>2. QED BY <2>1, FS_Subset, FS_CardinalityType
<1>3. ASSUME NEW x \in S PROVE Cardinality(Ahead(x)) + 1 \in 1 .. n
  <2>1. Ahead(x) \subseteq S \ {x}
    BY <1>1 DEF Drawer!Newer
  <2>2. IsFiniteSet(S \ {x}) /\ Cardinality(S \ {x}) = n - 1
    BY FS_RemoveElement
  <2>3. Cardinality(Ahead(x)) <= n - 1
    BY <2>1, <2>2, FS_Subset
  <2>4. QED BY <1>1, <1>2, <2>3
<1>4. ASSUME NEW x \in S, NEW y \in S, x.at > y.at
      PROVE  Cardinality(Ahead(x)) < Cardinality(Ahead(y))
  <2>1. Ahead(x) \subseteq Ahead(y) \ {x} /\ x \in Ahead(y)
    BY <1>1, <1>4 DEF Drawer!Newer
  <2>2. IsFiniteSet(Ahead(y) \ {x}) /\ Cardinality(Ahead(y) \ {x}) = Cardinality(Ahead(y)) - 1
    BY <1>2, <2>1, FS_RemoveElement
  <2>3. Cardinality(Ahead(x)) <= Cardinality(Ahead(y)) - 1
    BY <2>1, <2>2, FS_Subset
  <2>4. QED BY <1>2, <2>3
<1> DEFINE f == [x \in S |-> Cardinality(Ahead(x)) + 1]
<1> HIDE DEF Ahead
<1>5. f \in Injection(S, 1 .. n)
  <2>1. f \in [S -> 1 .. n]
    BY <1>3
  <2>2. \A x, y \in S : f[x] = f[y] => x = y
    <3> SUFFICES ASSUME NEW x \in S, NEW y \in S, x # y
                 PROVE Cardinality(Ahead(x)) + 1 # Cardinality(Ahead(y)) + 1
      OBVIOUS
    <3>1. x.at > y.at \/ y.at > x.at
      BY <1>1
    <3>2. QED BY <1>2, <1>4, <3>1
  <2> HIDE DEF f
  <2>3. QED BY <2>1, <2>2 DEF Injection, IsInjective
<1>6. IsFiniteSet(1 .. n) /\ Cardinality(1 .. n) = n
  BY <1>1, FS_Interval
<1>7. f \in Surjection(S, 1 .. n)
  <2> HIDE DEF f
  <2>1. QED BY <1>1, <1>5, <1>6, FS_Injection
<1>8. ASSUME NEW i \in 1 .. n PROVE \E x \in S : Cardinality(Ahead(x)) = i - 1
  <2>1. \E x \in S : f[x] = i
    <3> HIDE DEF f
    <3>1. QED BY <1>7, Zenon DEF Surjection
  <2>2. PICK x \in S : Cardinality(Ahead(x)) + 1 = i
    BY <2>1
  <2>3. Cardinality(Ahead(x)) = i - 1
    BY <1>2, <2>2
  <2>4. QED BY <2>3
<1>9. QED BY <1>1, <1>3, <1>4, <1>8 DEF Ahead

LEMMA ListedWell ==
    ASSUME NEW n, TableKept(log, current, n), NEW s
    PROVE  /\ Drawer!Listed(s) \in Seq(HistoryRows)
           /\ \A x : Among(x, Drawer!Listed(s)) <=> x \in log /\ Drawer!Matches(x, s)
           /\ \A i, j \in DOMAIN Drawer!Listed(s) :
                 i < j => Drawer!Listed(s)[j].at < Drawer!Listed(s)[i].at
<1> DEFINE S == {x \in log : Drawer!Matches(x, s)}
           list == Drawer!Listed(s)
           k == Cardinality(S)
<1>1. S \in SUBSET HistoryRows /\ IsFiniteSet(S) /\ \A x, y \in S : x.at = y.at => x = y
  <2>1. IsFiniteSet(log) /\ S \subseteq log
    BY DEF TableKept
  <2>2. IsFiniteSet(S)
    BY <2>1, FS_Subset
  <2>3. \A x \in log : x \in HistoryRows
    BY DEF TableKept, IsRow
  <2>4. \A x, y \in log : x.at = y.at => x = y
    BY DEF TableKept
  <2>5. QED BY <2>2, <2>3, <2>4
<1>2. list = [i \in 1 .. k |-> CHOOSE x \in S : Drawer!Cardinality(Drawer!Newer(S, x)) = i - 1]
  BY DrawerCounts DEF Drawer!Listed
<1> HIDE DEF S, list, k
<1>3. /\ k \in Nat
      /\ \A i \in 1 .. k : \E x \in S : Cardinality(Drawer!Newer(S, x)) = i - 1
      /\ \A x \in S : Cardinality(Drawer!Newer(S, x)) + 1 \in 1 .. k
      /\ \A x, y \in S : x.at > y.at
            => Cardinality(Drawer!Newer(S, x)) < Cardinality(Drawer!Newer(S, y))
  BY <1>1, NewestFirst DEF k
<1>4. ASSUME NEW i \in 1 .. k
      PROVE  list[i] \in S /\ Cardinality(Drawer!Newer(S, list[i])) = i - 1
  <2>1. list[i] = CHOOSE x \in S : Drawer!Cardinality(Drawer!Newer(S, x)) = i - 1
    BY <1>2
  <2>2. \E x \in S : Drawer!Cardinality(Drawer!Newer(S, x)) = i - 1
    BY <1>3, DrawerCounts
  <2>3. list[i] \in S /\ Drawer!Cardinality(Drawer!Newer(S, list[i])) = i - 1
    BY <2>1, <2>2
  <2>4. QED BY <2>3, DrawerCounts
<1>5. list \in Seq(S) /\ list \in Seq(HistoryRows) /\ DOMAIN list = 1 .. k
  BY <1>1, <1>2, <1>3, <1>4
<1>6. \A x \in S : x.at \in Nat
  BY <1>1 DEF HistoryRows
<1>7. ASSUME NEW i \in DOMAIN list, NEW j \in DOMAIN list, i < j
      PROVE  list[j].at < list[i].at
  <2>1. /\ list[i] \in S /\ Cardinality(Drawer!Newer(S, list[i])) = i - 1
        /\ list[j] \in S /\ Cardinality(Drawer!Newer(S, list[j])) = j - 1
    BY <1>4, <1>5
  <2>2. i \in Int /\ j \in Int
    BY <1>3, <1>5
  <2>3. CASE list[j].at > list[i].at
    <3>1. Cardinality(Drawer!Newer(S, list[j])) < Cardinality(Drawer!Newer(S, list[i]))
      BY <1>3, <2>1, <2>3
    <3>2. j - 1 < i - 1
      BY <2>1, <3>1
    <3>3. QED BY <1>7, <2>2, <3>2
  <2>4. CASE list[j].at = list[i].at
    <3>1. list[j] = list[i]
      BY <1>1, <2>1, <2>4
    <3>2. j - 1 = i - 1
      BY <2>1, <3>1
    <3>3. QED BY <1>7, <2>2, <3>2
  <2>5. QED BY <1>6, <2>1, <2>3, <2>4
<1>8. ASSUME NEW x \in S PROVE Among(x, list)
  <2> DEFINE i == Cardinality(Drawer!Newer(S, x)) + 1
  <2>1. i \in 1 .. k
    BY <1>3
  <2>2. Cardinality(Drawer!Newer(S, x)) = i - 1
    <3>1. Cardinality(Drawer!Newer(S, x)) \in Nat
      <4>1. Drawer!Newer(S, x) \subseteq S
        BY DEF Drawer!Newer
      <4>2. QED BY <1>1, <4>1, FS_Subset, FS_CardinalityType
    <3>2. QED BY <3>1
  <2> HIDE DEF i
  <2>3. list[i] \in S /\ Cardinality(Drawer!Newer(S, list[i])) = i - 1
    BY <1>4, <2>1
  <2>4. list[i] = x
    <3>1. ASSUME NEW a \in S, NEW b \in S, a.at > b.at
          PROVE  Cardinality(Drawer!Newer(S, a)) # Cardinality(Drawer!Newer(S, b))
      <4>1. Cardinality(Drawer!Newer(S, a)) < Cardinality(Drawer!Newer(S, b))
        BY <1>3, <3>1
      <4>2. ~ (Cardinality(Drawer!Newer(S, a)) < Cardinality(Drawer!Newer(S, a)))
        <5>1. Cardinality(Drawer!Newer(S, a)) \in Nat
          <6>1. Drawer!Newer(S, a) \subseteq S
            BY DEF Drawer!Newer
          <6>2. QED BY <1>1, <6>1, FS_Subset, FS_CardinalityType
        <5>2. QED BY <5>1
      <4>3. QED BY <4>1, <4>2
    <3>2. ~(list[i].at > x.at) /\ ~(x.at > list[i].at)
      BY <2>2, <2>3, <3>1
    <3>3. QED BY <1>1, <1>6, <2>3, <3>2
  <2>5. QED BY <1>5, <2>1, <2>4 DEF Among
<1>9. \A x : Among(x, list) => x \in S
  BY <1>4, <1>5 DEF Among
<1>10. QED BY <1>5, <1>7, <1>8, <1>9 DEF S, list

\* What the server lists is all there is.
LEMMA ListedHeld ==
    ASSUME NEW n, TableKept(log, current, n), NEW s, NEW coming
    PROVE  /\ Known(Drawer!Listed(s), log, n) /\ Held(Drawer!Listed(s), s, log, coming)
           /\ UpTo(Drawer!Listed(s), s, log)
<1> DEFINE rows == Drawer!Listed(s)
<1>1. /\ rows \in Seq(HistoryRows)
      /\ \A x : Among(x, rows) <=> x \in log /\ Drawer!Matches(x, s)
      /\ \A i, j \in DOMAIN rows : i < j => rows[j].at < rows[i].at
  BY ListedWell
<1> HIDE DEF rows
<1>2. \A i \in DOMAIN rows : Among(rows[i], rows)
  BY DEF Among
<1>3. \A i \in DOMAIN rows : rows[i] \in log /\ Drawer!Matches(rows[i], s) /\ IsRow(rows[i], n)
  BY <1>1, <1>2 DEF TableKept
<1>4. \A x : SameRow(x, x)
  BY DEF SameRow
<1>5. \A i \in DOMAIN rows : i \in Int /\ rows[i].at \in Nat /\ rows[i].id \in Nat
  BY <1>1, <1>3 DEF IsRow, HistoryRows
<1>6. Known(rows, log, n)
  BY <1>1, <1>3, <1>4 DEF Known
<1>7. ASSUME NEW i \in DOMAIN rows, NEW j \in DOMAIN rows, rows[i].id = rows[j].id PROVE i = j
  <2>1. rows[i] = rows[j]
    BY <1>3, <1>7 DEF TableKept
  <2>2. ~(i < j) /\ ~(j < i)
    BY <1>1, <1>5, <2>1
  <2>3. QED BY <1>5, <2>2
<1>8. ASSUME NEW i \in DOMAIN rows, NEW j \in DOMAIN rows, i < j, rows[i].entity = rows[j].entity
      PROVE  rows[j].id < rows[i].id
  <2>1. rows[j].at < rows[i].at
    BY <1>1, <1>8
  <2>2. rows[i].id < rows[j].id => rows[i].at < rows[j].at
    BY <1>3, <1>8 DEF TableKept
  <2>3. rows[i].id # rows[j].id
    BY <1>5, <1>7, <1>8
  <2>4. QED BY <1>5, <2>1, <2>2, <2>3
<1>9. \A i \in DOMAIN rows, x \in log :
         x.entity = rows[i].entity /\ x.id < rows[i].id /\ Drawer!Matches(x, s)
         => \E j \in DOMAIN rows : rows[j].id = x.id
  BY <1>1 DEF Among
<1>10. Held(rows, s, log, coming)
  <2>1. \A x \in log : Drawer!Matches(x, s) => Among(x, rows)
    BY <1>1
  <2>2. \A i \in DOMAIN rows : \E x \in log :
           SameRow(x, rows[i]) /\ Drawer!Matches(x, s) /\ (x = rows[i] \/ x \in coming)
    BY <1>3, <1>4
  <2>3. QED BY <1>7, <1>8, <1>9, <2>1, <2>2 DEF Held
<1>11. UpTo(rows, s, log)
  BY <1>1 DEF UpTo
<1>12. QED BY <1>6, <1>10, <1>11 DEF rows

----------------------------------------------------------------------------
(* What the invariant says of the drawer.                                  *)

\* Rows that are all different are as many as there are.
LEMMA AllDifferent ==
    ASSUME NEW rows \in Seq(HistoryRows), \A i, j \in DOMAIN rows : rows[i] = rows[j] => i = j
    PROVE  Cardinality(Drawer!Range(rows)) = Len(rows)
<1>1. DOMAIN rows = 1 .. Len(rows) /\ Len(rows) \in Nat
  OBVIOUS
<1>2. rows = [i \in DOMAIN rows |-> rows[i]]
  OBVIOUS
<1>3. rows \in [DOMAIN rows -> Drawer!Range(rows)]
  BY <1>2 DEF Drawer!Range
<1>4. rows \in Bijection(DOMAIN rows, Drawer!Range(rows))
  <2>1. \A x \in Drawer!Range(rows) : \E i \in DOMAIN rows : rows[i] = x
    BY DEF Drawer!Range
  <2>2. QED BY <1>3, <2>1, Zenon DEF Bijection, Injection, IsInjective, Surjection
<1>5. ExistsBijection(DOMAIN rows, Drawer!Range(rows))
  BY <1>4 DEF ExistsBijection
<1>6. IsFiniteSet(DOMAIN rows) /\ Cardinality(DOMAIN rows) = Len(rows)
  BY <1>1, FS_Interval
<1>7. QED BY <1>5, <1>6, FS_Bijection

\* Rows that hold a scope when every event has been heard.
LEMMA HeldAll ==
    ASSUME NEW rows \in Seq(HistoryRows), NEW s, NEW table, Held(rows, s, table, {})
    PROVE  /\ Drawer!Range(rows) = {x \in table : Drawer!Matches(x, s)}
           /\ Cardinality(Drawer!Range(rows)) = Len(rows)
<1>1. \A x : x \in Drawer!Range(rows) <=> Among(x, rows)
  BY DEF Among, Drawer!Range
<1>2. \A x \in table : Drawer!Matches(x, s) => x \in Drawer!Range(rows)
  BY <1>1 DEF Held
<1>3. ASSUME NEW i \in DOMAIN rows PROVE rows[i] \in table /\ Drawer!Matches(rows[i], s)
  BY DEF Held
<1>4. \A x \in Drawer!Range(rows) : x \in table /\ Drawer!Matches(x, s)
  BY <1>3 DEF Drawer!Range
<1>5. \A i, j \in DOMAIN rows : rows[i] = rows[j] => i = j
  BY DEF Held
<1>6. Cardinality(Drawer!Range(rows)) = Len(rows)
  BY <1>5, AllDifferent
<1>7. QED BY <1>2, <1>4, <1>6

\* The newest version of a card is the same in both.
LEMMA SameNewest ==
    ASSUME NEW a \in Seq(HistoryRows), NEW b \in Seq(HistoryRows), NEW s, NEW table,
           Held(a, s, table, {}), Held(b, s, table, {}),
           Drawer!Range(a) = Drawer!Range(b), Kind[s] = "card", Drawer!NewestVersion(a) # 0
    PROVE  a[Drawer!NewestVersion(a)] = b[Drawer!NewestVersion(b)]
<1> DEFINE v == Drawer!NewestVersion(a)
           w == Drawer!NewestVersion(b)
<1>1. /\ v \in DOMAIN a /\ Drawer!IsVersion(a[v])
      /\ \A i \in DOMAIN a : Drawer!IsVersion(a[i]) => v <= i
  BY FirstVersion
<1>2. \/ w = 0 /\ \A i \in DOMAIN b : ~Drawer!IsVersion(b[i])
      \/ /\ w \in DOMAIN b /\ Drawer!IsVersion(b[w])
         /\ \A i \in DOMAIN b : Drawer!IsVersion(b[i]) => w <= i
  BY FirstVersion
<1> HIDE DEF v, w
<1>3. PICK k \in DOMAIN b : b[k] = a[v]
  BY <1>1 DEF Drawer!Range
<1>4. w \in DOMAIN b /\ Drawer!IsVersion(b[w]) /\ w <= k
  BY <1>1, <1>2, <1>3
<1>5. PICK m \in DOMAIN a : a[m] = b[w]
  BY <1>4 DEF Drawer!Range
<1>6. v <= m
  BY <1>1, <1>4, <1>5
<1>7. a[v].entity = b[w].entity
  <2>1. \A x \in Drawer!Range(a) : Drawer!Matches(x, s)
    BY HeldAll
  <2>2. Drawer!Matches(a[v], s) /\ Drawer!Matches(b[w], s)
    BY <1>1, <1>5, <2>1 DEF Drawer!Range
  <2>3. \A x : Drawer!IsVersion(x) /\ Drawer!Matches(x, s) => x.entity = s
    BY DEF Drawer!IsVersion, Drawer!Matches
  <2>4. QED BY <1>1, <1>4, <2>2, <2>3
<1>8. v \in Int /\ m \in Int /\ w \in Int /\ k \in Int /\ a[v].id \in Nat /\ b[w].id \in Nat
  <2>1. (\A i \in DOMAIN a : i \in Int) /\ (\A i \in DOMAIN b : i \in Int)
    OBVIOUS
  <2>2. a[v] \in HistoryRows /\ b[w] \in HistoryRows
    BY <1>1, <1>4
  <2>3. QED BY <1>1, <1>4, <2>1, <2>2 DEF HistoryRows
<1>9. CASE w = k
  BY <1>3, <1>9 DEF v, w
<1>10. CASE w < k
  <2>1. a[v].id < b[w].id
    BY <1>3, <1>4, <1>7, <1>10 DEF Held
  <2>2. v # m
    BY <1>5, <1>8, <2>1
  <2>3. v < m
    BY <1>6, <1>8, <2>2
  <2>4. b[w].id < a[v].id
    BY <1>1, <1>5, <1>7, <2>3 DEF Held
  <2>5. QED BY <1>8, <2>1, <2>4
<1>11. QED BY <1>4, <1>8, <1>9, <1>10

LEMMA DrawerShows == ASSUME Drawer!ConstantsOK, DrawerInv PROVE Drawer!DrawerShowsHistory
<1> SUFFICES ASSUME scope # Drawer!Closed, drawerUnsent = << >>, news = << >>, loads = {},
                    ~drawerExcuse
             PROVE  /\ Drawer!Range(entries) = Drawer!Range(Drawer!Listed(scope))
                    /\ Len(entries) = Len(Drawer!Listed(scope))
                    /\ Kind[scope] = "card" /\ Drawer!NewestVersion(entries) # 0
                       => entries[Drawer!NewestVersion(entries)]
                          = Drawer!Listed(scope)[Drawer!NewestVersion(Drawer!Listed(scope))]
  BY DEF Drawer!DrawerShowsHistory
<1> DEFINE list == Drawer!Listed(scope)
<1>1. entries \in Seq(HistoryRows) /\ Held(entries, scope, log, {})
  <2>1. Unheard = {}
    BY DEF Unheard, Coming, Drawer!Range
  <2>2. QED BY <2>1 DEF DrawerInv, Settled, Known
<1>2. list \in Seq(HistoryRows) /\ Held(list, scope, log, {})
  BY ListedHeld DEF DrawerInv, Known
<1> HIDE DEF list
<1>3. /\ Drawer!Range(entries) = {x \in log : Drawer!Matches(x, scope)}
      /\ Cardinality(Drawer!Range(entries)) = Len(entries)
      /\ Drawer!Range(list) = {x \in log : Drawer!Matches(x, scope)}
      /\ Cardinality(Drawer!Range(list)) = Len(list)
  BY <1>1, <1>2, HeldAll
<1>4. Drawer!Range(entries) = Drawer!Range(list) /\ Len(entries) = Len(list)
  BY <1>3
<1>5. Kind[scope] = "card" /\ Drawer!NewestVersion(entries) # 0
         => entries[Drawer!NewestVersion(entries)] = list[Drawer!NewestVersion(list)]
  BY <1>1, <1>2, <1>4, SameNewest
<1>6. QED BY <1>4, <1>5 DEF list

LEMMA DrawerTells == ASSUME Drawer!ConstantsOK, DrawerInv PROVE Drawer!ChangesShown
<1>1. \A r \in Drawer!Range(entries) : IsRow(r, Now)
  BY DEF DrawerInv, Known, Drawer!Range
<1>2. QED BY <1>1, SummaryTells DEF Drawer!ChangesShown

----------------------------------------------------------------------------
(* The steps.                                                              *)

LEMMA FieldsKnown ==
    ASSUME Drawer!ConstantsOK, NEW e \in DOMAIN Kind, NEW set \in SUBSET Drawer!Fields(e)
    PROVE  StateOf(e, Drawer!Snap(set)) /\ Drawer!Snap(set) \in Snaps
           /\ Drawer!Snap(set).set = set /\ ~Drawer!Snap(set).gone
<1>1. set \in SUBSET AllFields
  BY DEF Drawer!ConstantsOK, Drawer!Entities, Drawer!Fields, AllFields
<1>2. Drawer!Snap(set) \in Snaps /\ Drawer!Snap(set).set = set /\ ~Drawer!Snap(set).gone
  BY <1>1 DEF Snaps, Drawer!Snap
<1>3. QED BY <1>2 DEF StateOf

\* What an entity is now.
LEMMA CurrentKnown ==
    ASSUME DrawerInv, NEW e \in DOMAIN Kind
    PROVE  StateOf(e, current[e]) /\ current[e] \in Snaps
BY DEF DrawerInv, TableKept

\* The log and the events to be sent have grown by row r.
WroteRow(r) ==
    /\ Grown(log, log', Now, r)
    /\ drawerUnsent' = Append(drawerUnsent, r)
    /\ current' = [current EXCEPT ![r.entity] = r.after]
    /\ drawerMade' = [drawerMade EXCEPT !["row"] = @ + 1]

LEMMA WriteGrows ==
    ASSUME DrawerInv, NEW e \in DOMAIN Kind, NEW action \in RowActions, NEW after,
           StateOf(e, after), Drawer!Write(e, action, after),
           action = "update" =>
               /\ ~current[e].gone /\ ~after.gone
               /\ Kind[e] = "card_link" => \E f : f \in current[e].set <=> f \notin after.set
    PROVE  \E r : WroteRow(r)
<1> DEFINE at == drawerMade.row + 2
           r == [id |-> at, at |-> at, entity |-> e, action |-> action,
                 before |-> current[e], after |-> after]
<1>1. drawerMade.row \in Nat /\ Now = drawerMade.row + 1
  BY DEF DrawerInv, Drawer!Counted, Now
<1>2. at \in Nat /\ 1 <= at /\ at = Now + 1
  BY <1>1
<1>3. after \in Snaps /\ current[e] \in Snaps /\ StateOf(e, current[e])
  BY CurrentKnown DEF StateOf
<1>4. /\ log' = log \cup {r} /\ drawerUnsent' = Append(drawerUnsent, r)
      /\ current' = [current EXCEPT ![e] = after]
      /\ drawerMade' = [drawerMade EXCEPT !["row"] = @ + 1]
  BY DEF Drawer!Write, Drawer!Count
<1> HIDE DEF at
<1>5. IsRow(r, Now + 1)
  <2>1. r \in HistoryRows
    BY <1>2, <1>3 DEF HistoryRows
  <2>2. action = "update" /\ Kind[e] = "card_link" => Drawer!Changed(r) # {}
    BY DEF Drawer!Changed
  <2>3. QED BY <1>2, <1>3, <2>1, <2>2 DEF IsRow
<1>6. Grown(log, log', Now, r)
  BY <1>2, <1>4, <1>5 DEF Grown
<1>7. WroteRow(r)
  BY <1>4, <1>6 DEF WroteRow
<1>8. QED BY <1>7

LEMMA ChangeGrows ==
    ASSUME Drawer!ConstantsOK, DrawerInv, NEW e \in DOMAIN Kind, Drawer!Change(e)
    PROVE  \E r : WroteRow(r)
<1>0. PICK flips \in FieldEdits :
         /\ flips \subseteq Drawer!Fields(e) /\ ~current[e].gone
         /\ Kind[e] = "card_link" => flips # {}
         /\ \E action \in Drawer!Actions(e, flips) :
               Drawer!Write(e, action,
                   Drawer!Snap((current[e].set \ flips) \cup (flips \ current[e].set)))
  BY DEF Drawer!Change
<1>1. PICK action \in Drawer!Actions(e, flips) :
         /\ flips \subseteq Drawer!Fields(e) /\ ~current[e].gone
         /\ Kind[e] = "card_link" => flips # {}
         /\ Drawer!Write(e, action,
                Drawer!Snap((current[e].set \ flips) \cup (flips \ current[e].set)))
  BY <1>0
<1> DEFINE set == (current[e].set \ flips) \cup (flips \ current[e].set)
<1>2. set \in SUBSET Drawer!Fields(e)
  BY <1>1, CurrentKnown DEF StateOf
<1>3. /\ StateOf(e, Drawer!Snap(set)) /\ Drawer!Snap(set).set = set /\ ~Drawer!Snap(set).gone
  BY <1>2, FieldsKnown
<1>4. action \in RowActions
  BY DEF RowActions, Drawer!Actions
<1>5. \A f \in flips : f \in current[e].set <=> f \notin set
  OBVIOUS
<1>6. Kind[e] = "card_link" => \E f : f \in current[e].set <=> f \notin Drawer!Snap(set).set
  BY <1>1, <1>3, <1>5
<1> HIDE DEF set
<1>7. Drawer!Write(e, action, Drawer!Snap(set))
  BY <1>1 DEF set
<1>8. QED BY <1>1, <1>3, <1>4, <1>6, <1>7, WriteGrows

LEMMA DeleteGrows ==
    ASSUME DrawerInv, NEW e \in DOMAIN Kind, Drawer!Delete(e) PROVE \E r : WroteRow(r)
<1>1. StateOf(e, Drawer!Gone)
  BY DEF StateOf, Snaps, Drawer!Gone
<1>2. "delete" \in RowActions /\ "delete" # "update"
  BY DEF RowActions
<1>3. Drawer!Write(e, "delete", Drawer!Gone)
  BY DEF Drawer!Delete
<1>4. QED BY <1>1, <1>2, <1>3, WriteGrows

LEMMA MergeGrows ==
    ASSUME Drawer!ConstantsOK, DrawerInv, NEW e \in DOMAIN Kind, Drawer!Merge(e)
    PROVE  \E r : WroteRow(r)
<1> DEFINE set == current[e].set
           new == IF "rest" \in set THEN set \ {"rest"} ELSE set \cup {"rest"}
           after == Drawer!Snap(new)
           R(last) == [last EXCEPT !.after = after, !.at = drawerMade.row + 2]
<1>1. /\ Kind[e] = "card" /\ ~current[e].gone
      /\ drawerMade' = [drawerMade EXCEPT !["row"] = @ + 1]
  BY DEF Drawer!Merge, Drawer!Count
<1>2. PICK last \in log :
         /\ last.entity = e /\ \A x \in log : x.entity = e => x.at <= last.at
         /\ last.action = "update"
         /\ log' = (log \ {last}) \cup {R(last)}
         /\ drawerUnsent' = Append(drawerUnsent, R(last))
         /\ current' = [current EXCEPT ![e] = after]
  BY DEF Drawer!Merge
<1> DEFINE r == R(last)
<1>3. drawerMade.row \in Nat /\ Now = drawerMade.row + 1
  BY DEF DrawerInv, Drawer!Counted, Now
<1>4. IsRow(last, Now) /\ last.after = current[e]
  BY <1>2 DEF DrawerInv, TableKept
<1>5. new \in SUBSET Drawer!Fields(e)
  BY <1>1, CurrentKnown DEF StateOf, Drawer!Fields
<1>6. StateOf(e, after) /\ after \in Snaps /\ after.set = new /\ ~after.gone
  BY <1>5, FieldsKnown
<1>7. "column" \in after.set <=> "column" \in last.after.set
  BY <1>4, <1>6
<1>8. last \in HistoryRows
  BY <1>4 DEF IsRow
<1> HIDE DEF after, new, set
<1>9. /\ r \in HistoryRows /\ r.id = last.id /\ r.entity = last.entity /\ r.action = last.action
      /\ r.before = last.before /\ r.after = after /\ r.at = Now + 1
  <2>1. /\ drawerMade.row + 2 \in Nat /\ drawerMade.row + 2 = Now + 1
    BY <1>3
  <2>2. r = [last EXCEPT !.after = after, !.at = drawerMade.row + 2]
    OBVIOUS
  <2> HIDE DEF R, r
  <2>3. r = [id |-> last.id, at |-> drawerMade.row + 2, entity |-> last.entity,
             action |-> last.action, before |-> last.before, after |-> after]
    BY <1>8, <2>2 DEF HistoryRows
  <2>4. /\ last.id \in Nat /\ last.entity \in DOMAIN Kind /\ last.action \in RowActions
        /\ last.before \in Snaps
    BY <1>8 DEF HistoryRows
  <2>5. QED BY <1>6, <2>1, <2>3, <2>4 DEF HistoryRows
<1> HIDE DEF r, R
<1>10. IsRow(r, Now + 1)
  <2>1. /\ 1 <= last.id /\ last.id <= last.at /\ last.at <= Now
        /\ last.id \in Nat /\ last.at \in Nat
        /\ StateOf(e, last.before) /\ ~last.before.gone
    BY <1>2, <1>4, <1>8 DEF IsRow, HistoryRows
  <2>2. 1 <= r.id /\ r.id <= r.at /\ r.at <= Now + 1
    BY <1>3, <1>9, <2>1
  <2>3. QED BY <1>1, <1>2, <1>6, <1>9, <2>1, <2>2 DEF IsRow
<1>11. SameRow(last, r)
  BY <1>1, <1>4, <1>6, <1>7, <1>9 DEF SameRow
<1>12. log' = (log \ {last}) \cup {r} /\ drawerUnsent' = Append(drawerUnsent, r)
       /\ current' = [current EXCEPT ![r.entity] = r.after]
  BY <1>2, <1>9 DEF r
<1>13. Grown(log, log', Now, r)
  BY <1>2, <1>9, <1>10, <1>11, <1>12 DEF Grown
<1>14. WroteRow(r)
  BY <1>1, <1>12, <1>13 DEF WroteRow
<1>15. QED BY <1>14

LEMMA RestoreVersionGrows ==
    ASSUME Drawer!ConstantsOK, DrawerInv, NEW r \in Drawer!Range(entries), Drawer!RestoreVersion(r)
    PROVE  \E x : WroteRow(x)
<1>1. r.entity \in DOMAIN Kind
  BY DEF DrawerInv, Known, IsRow, HistoryRows, Drawer!Range
<1>2. Kind[r.entity] = "card" /\ ~current[r.entity].gone
  BY DEF Drawer!RestoreVersion, Drawer!IsVersion
<1>3. PICK row \in log :
         Drawer!Write(r.entity, "restore",
             Drawer!Snap(Drawer!Content(row.after) \cup Drawer!Layout(current[r.entity])))
  BY DEF Drawer!RestoreVersion
<1> DEFINE set == Drawer!Content(row.after) \cup Drawer!Layout(current[r.entity])
<1>4. set \in SUBSET Drawer!Fields(r.entity)
  BY <1>2 DEF Drawer!Content, Drawer!Layout, Drawer!Fields
<1>5. StateOf(r.entity, Drawer!Snap(set))
  BY <1>1, <1>4, FieldsKnown
<1>6. "restore" \in RowActions /\ "restore" # "update"
  BY DEF RowActions
<1> HIDE DEF set
<1>7. Drawer!Write(r.entity, "restore", Drawer!Snap(set))
  BY <1>3 DEF set
<1>8. QED BY <1>1, <1>5, <1>6, <1>7, WriteGrows

LEMMA RestoreDeletedGrows ==
    ASSUME DrawerInv, NEW r \in Drawer!Range(entries), Drawer!RestoreDeleted(r)
    PROVE  \E x : WroteRow(x)
<1>1. r.entity \in DOMAIN Kind /\ StateOf(r.entity, r.before)
  BY DEF DrawerInv, Known, IsRow, HistoryRows, Drawer!Range
<1>2. "restore" \in RowActions /\ "restore" # "update"
  BY DEF RowActions
<1>3. Drawer!Write(r.entity, "restore", r.before)
  BY DEF Drawer!RestoreDeleted
<1>4. QED BY <1>1, <1>2, <1>3, WriteGrows

\* A row more keeps the invariant: the rows held are what they were, and the event is to be sent.
LEMMA GrownKeeps ==
    ASSUME DrawerInv, NEW r, WroteRow(r),
           UNCHANGED <<news, drawerCrossed, scope, entries, loads, drawerExcuse>>
    PROVE  DrawerInv'
<1>1. /\ Grown(log, log', Now, r) /\ drawerUnsent' = Append(drawerUnsent, r)
      /\ current' = [current EXCEPT ![r.entity] = r.after]
      /\ drawerMade' = [drawerMade EXCEPT !["row"] = @ + 1]
  BY DEF WroteRow
<1>2. /\ TableKept(log, current, Now) /\ ComingKept(Unheard, log, Now)
      /\ news \in Seq(HistoryRows) /\ drawerUnsent \in Seq(HistoryRows)
      /\ drawerMade \in [Drawer!Counted -> Nat]
  BY DEF DrawerInv
<1>3. /\ drawerMade' \in [Drawer!Counted -> Nat] /\ drawerMade'.load = drawerMade.load
      /\ Now' = Now + 1
  BY <1>1, <1>2 DEF Now, Drawer!Counted
<1>4. r \in HistoryRows
  BY <1>1 DEF Grown, IsRow
<1>5. drawerUnsent' \in Seq(HistoryRows) /\ Unheard' = Unheard \cup {r}
  <2>1. /\ drawerUnsent' \in Seq(HistoryRows)
        /\ Drawer!Range(drawerUnsent') = Drawer!Range(drawerUnsent) \cup {r}
    BY <1>1, <1>2, <1>4, Queued
  <2>2. Unheard' = Unheard \cup {r}
    BY <2>1 DEF Unheard, Coming
  <2>3. QED BY <2>1, <2>2
<1>6. TableKept(log', current', Now + 1)
  BY <1>1, <1>2, TableGrows
<1>7. ComingKept(Unheard', log', Now + 1)
  BY <1>1, <1>2, <1>5, ComingGrows
<1>8. ~drawerCrossed => Uncrossed(news, drawerUnsent', log')
  <2>1. ~drawerCrossed => Uncrossed(news, drawerUnsent, log)
    BY DEF DrawerInv
  <2>2. QED BY <1>1, <1>2, <2>1, UncrossedGrows DEF Unheard
<1>9. ASSUME NEW rows, Known(rows, log, Now) PROVE Known(rows, log', Now + 1)
  BY <1>1, <1>2, <1>9, KnownGrows
<1>10. ASSUME NEW rows, NEW s, Known(rows, log, Now), Held(rows, s, log, Unheard)
       PROVE  Held(rows, s, log', Unheard')
  BY <1>1, <1>2, <1>5, <1>10, HeldGrows
<1>11. ASSUME NEW rows, NEW s, Known(rows, log, Now), UpTo(rows, s, log)
       PROVE  UpTo(rows, s, log')
  BY <1>1, <1>2, <1>11, UpToGrows
<1>12. ASSUME NEW l \in loads
       PROVE  LoadKept(l, log', Unheard', Now + 1, drawerMade.load, drawerCrossed)
  <2>1. LoadKept(l, log, Unheard, Now, drawerMade.load, drawerCrossed)
    BY DEF DrawerInv
  <2>2. QED BY <1>9, <1>10, <1>11, <2>1 DEF LoadKept
<1>13. Settled' => Settled
  BY <1>3 DEF Settled
<1>14. Settled' => ~drawerCrossed' /\ Held(entries', scope', log', Unheard')
  BY <1>10, <1>13 DEF DrawerInv
<1>15. Known(entries', log', Now')
  BY <1>3, <1>9 DEF DrawerInv
<1>16. /\ \A l \in loads' : LoadKept(l, log', Unheard', Now', drawerMade'.load, drawerCrossed')
       /\ \A l, m \in loads' : l.id = m.id => l = m
       /\ scope' \in Scopes \cup {Drawer!Closed} /\ drawerExcuse' \in BOOLEAN
       /\ news' \in Seq(HistoryRows) /\ drawerCrossed' \in BOOLEAN
  BY <1>3, <1>12 DEF DrawerInv
<1>17. ~drawerCrossed' => Uncrossed(news', drawerUnsent', log')
  BY <1>8
<1>18. QED BY <1>3, <1>5, <1>6, <1>7, <1>14, <1>15, <1>16, <1>17 DEF DrawerInv

\* Every row that is written keeps the invariant.
LEMMA WriteStepKeeps ==
    ASSUME Drawer!ConstantsOK, DrawerInv, Drawer!WriteStep PROVE DrawerInv'
<1>1. PICK e \in DOMAIN Kind : Drawer!Change(e) \/ Drawer!Merge(e) \/ Drawer!Delete(e)
  BY DEF Drawer!WriteStep, Drawer!Entities
<1>2. \E r : WroteRow(r)
  BY <1>1, ChangeGrows, MergeGrows, DeleteGrows
<1>3. UNCHANGED <<news, drawerCrossed, scope, entries, loads, drawerExcuse>>
  BY DEF Drawer!WriteStep, Drawer!drawer
<1>4. QED BY <1>2, <1>3, GrownKeeps

\* An event that is sent has not been heard yet, and unless it overtakes one of its entity it
\* stands in its turn.
LEMMA EventSent ==
    ASSUME NEW sent \in Seq(HistoryRows), NEW due \in Seq(HistoryRows), NEW i \in DOMAIN due,
           NEW table
    PROVE  LET longer == Append(sent, due[i])
               shorter == Drawer!RemoveAt(due, i)
           IN  /\ longer \in Seq(HistoryRows) /\ shorter \in Seq(HistoryRows)
               /\ Coming(longer, shorter) = Coming(sent, due)
               /\ Uncrossed(sent, due, table)
                  /\ (\A j \in 1 .. i - 1 : due[j].entity # due[i].entity)
                  => Uncrossed(longer, shorter, table)
<1> DEFINE longer == Append(sent, due[i])
           shorter == Drawer!RemoveAt(due, i)
           From(k) == IF k < i THEN k ELSE k + 1
<1>1. due[i] \in HistoryRows /\ DOMAIN due = 1 .. Len(due) /\ Len(due) \in Nat /\ i \in Nat
  OBVIOUS
<1>2. /\ shorter \in Seq(HistoryRows) /\ Len(shorter) = Len(due) - 1
      /\ \A k \in 1 .. Len(due) - 1 : shorter[k] = due[From(k)]
  <2>1. shorter = Picker!RemoveAt(due, i)
    BY DEF Drawer!RemoveAt, Picker!RemoveAt
  <2>2. QED BY <2>1, RemovedAt
<1>3. /\ longer \in Seq(HistoryRows)
      /\ Drawer!Range(longer) = Drawer!Range(sent) \cup {due[i]}
      /\ \A k \in DOMAIN longer : \/ k \in DOMAIN sent /\ longer[k] = sent[k]
                                  \/ k = Len(sent) + 1 /\ longer[k] = due[i]
  BY <1>1, Queued
<1> HIDE DEF longer, shorter
<1>4. DOMAIN shorter = 1 .. Len(due) - 1
  BY <1>1, <1>2
<1>5. /\ \A k \in DOMAIN shorter : From(k) \in DOMAIN due /\ From(k) # i /\ shorter[k] = due[From(k)]
      /\ \A k, m \in DOMAIN shorter : k < m => From(k) < From(m)
  BY <1>1, <1>2, <1>4
<1>6. ASSUME NEW k \in DOMAIN due, k # i PROVE \E m \in DOMAIN shorter : shorter[m] = due[k]
  <2>1. CASE k < i
    <3>1. k \in DOMAIN shorter /\ From(k) = k
      BY <1>1, <1>4, <2>1
    <3>2. QED BY <1>5, <3>1
  <2>2. CASE i < k
    <3>1. k - 1 \in DOMAIN shorter /\ From(k - 1) = k
      BY <1>1, <1>4, <2>2
    <3>2. QED BY <1>5, <3>1
  <2>3. QED BY <1>1, <1>6, <2>1, <2>2
<1>7. Drawer!Range(due) = Drawer!Range(shorter) \cup {due[i]}
  BY <1>5, <1>6 DEF Drawer!Range
<1>8. Coming(longer, shorter) = Coming(sent, due)
  BY <1>3, <1>7 DEF Coming
<1>9. ASSUME Uncrossed(sent, due, table), \A j \in 1 .. i - 1 : due[j].entity # due[i].entity
      PROVE  Uncrossed(longer, shorter, table)
  <2>1. /\ InTurn(sent) /\ InTurn(due)
        /\ \A k \in DOMAIN sent, m \in DOMAIN due :
              sent[k].entity = due[m].entity => sent[k].at < due[m].at
    BY <1>9 DEF Uncrossed
  <2>2. ASSUME NEW k \in DOMAIN longer, NEW m \in DOMAIN longer, k < m,
               longer[k].entity = longer[m].entity
        PROVE  longer[k].at < longer[m].at
    <3>1. DOMAIN sent = 1 .. Len(sent) /\ Len(sent) \in Nat
          /\ \A x \in DOMAIN longer : x \in DOMAIN sent \/ x = Len(sent) + 1
      BY <1>3
    <3>2. k \in DOMAIN sent /\ longer[k] = sent[k]
      BY <1>3, <2>2, <3>1
    <3>3. QED BY <1>3, <2>1, <2>2, <3>2 DEF InTurn
  <2>3. ASSUME NEW k \in DOMAIN shorter, NEW m \in DOMAIN shorter, k < m,
               shorter[k].entity = shorter[m].entity
        PROVE  shorter[k].at < shorter[m].at
    BY <1>5, <2>1, <2>3 DEF InTurn
  \* Those of its entity stand behind the one that is sent.
  <2>4. ASSUME NEW m \in DOMAIN shorter, due[i].entity = shorter[m].entity
        PROVE  due[i].at < shorter[m].at
    <3>1. From(m) \in DOMAIN due /\ From(m) # i /\ shorter[m] = due[From(m)]
      BY <1>5
    <3> HIDE DEF From
    <3>2. ~(From(m) < i)
      BY <1>1, <1>9, <2>4, <3>1
    <3>3. i < From(m)
      BY <1>1, <3>1, <3>2
    <3>4. QED BY <2>1, <2>4, <3>1, <3>3 DEF InTurn
  <2>5. ASSUME NEW k \in DOMAIN longer, NEW m \in DOMAIN shorter,
               longer[k].entity = shorter[m].entity
        PROVE  longer[k].at < shorter[m].at
    <3>1. CASE k \in DOMAIN sent /\ longer[k] = sent[k]
      BY <1>5, <2>1, <2>5, <3>1
    <3>2. CASE longer[k] = due[i]
      BY <2>4, <2>5, <3>2
    <3>3. QED BY <1>3, <3>1, <3>2
  <2>6. \A x \in table, c \in Coming(longer, shorter) :
           x.entity = c.entity /\ c.at < x.at => x \in Coming(longer, shorter)
    BY <1>8, <1>9 DEF Uncrossed
  <2>7. QED BY <2>2, <2>3, <2>5, <2>6 DEF Uncrossed, InTurn
<1>10. QED BY <1>2, <1>3, <1>8, <1>9 DEF longer, shorter

LEMMA SayKeeps ==
    ASSUME DrawerInv, NEW i \in DOMAIN drawerUnsent, Drawer!Say(i) PROVE DrawerInv'
<1> DEFINE crosses == Drawer!Overtakes(i)
           F(l) == [l EXCEPT !.missed = @ \/ crosses]
<1>1. /\ news' = Append(news, drawerUnsent[i])
      /\ drawerUnsent' = Drawer!RemoveAt(drawerUnsent, i)
      /\ drawerCrossed' = (drawerCrossed \/ crosses) /\ drawerExcuse' = (drawerExcuse \/ crosses)
      /\ loads' = {F(l) : l \in loads}
      /\ UNCHANGED <<current, log, scope, entries, drawerMade>>
  BY DEF Drawer!Say
<1>2. /\ TableKept(log, current, Now) /\ ComingKept(Unheard, log, Now)
      /\ news \in Seq(HistoryRows) /\ drawerUnsent \in Seq(HistoryRows)
      /\ drawerCrossed \in BOOLEAN /\ drawerExcuse \in BOOLEAN
      /\ ~drawerCrossed => Uncrossed(news, drawerUnsent, log)
  BY DEF DrawerInv
<1>3. Now' = Now
  BY <1>1 DEF Now
<1>4. crosses \in BOOLEAN
      /\ (~crosses => \A j \in 1 .. i - 1 : drawerUnsent[j].entity # drawerUnsent[i].entity)
  BY DEF Drawer!Overtakes
<1> HIDE DEF crosses
<1>5. /\ news' \in Seq(HistoryRows) /\ drawerUnsent' \in Seq(HistoryRows) /\ Unheard' = Unheard
      /\ ~drawerCrossed' => Uncrossed(news', drawerUnsent', log')
  <2>1. LET longer == Append(news, drawerUnsent[i])
            shorter == Drawer!RemoveAt(drawerUnsent, i)
        IN  /\ longer \in Seq(HistoryRows) /\ shorter \in Seq(HistoryRows)
            /\ Coming(longer, shorter) = Coming(news, drawerUnsent)
            /\ Uncrossed(news, drawerUnsent, log)
               /\ (\A j \in 1 .. i - 1 : drawerUnsent[j].entity # drawerUnsent[i].entity)
               => Uncrossed(longer, shorter, log)
    BY <1>2, EventSent
  <2>2. QED BY <1>1, <1>2, <1>4, <2>1 DEF Unheard
<1>6. ASSUME NEW l \in loads
      PROVE  F(l).id = l.id /\ LoadKept(F(l), log, Unheard, Now, drawerMade.load, drawerCrossed')
  <2>1. LoadKept(l, log, Unheard, Now, drawerMade.load, drawerCrossed)
    BY DEF DrawerInv
  <2>2. F(l) = [id |-> l.id, scope |-> l.scope, read |-> l.read, rows |-> l.rows,
                missed |-> l.missed \/ crosses]
    BY <2>1 DEF LoadKept
  <2> HIDE DEF F
  <2>3. QED BY <1>1, <1>4, <2>1, <2>2 DEF LoadKept
<1> HIDE DEF F
<1>7. \A l \in loads' : LoadKept(l, log', Unheard', Now', drawerMade'.load, drawerCrossed')
  BY <1>1, <1>3, <1>5, <1>6
<1>8. \A j, k \in loads' : j.id = k.id => j = k
  BY <1>1, <1>6 DEF DrawerInv
<1>9. Settled' => Settled /\ ~crosses
  BY <1>1, <1>2, <1>4, <1>6 DEF Settled
<1>10. Settled' => ~drawerCrossed' /\ Held(entries', scope', log', Unheard')
  BY <1>1, <1>5, <1>9 DEF DrawerInv
<1>11. drawerCrossed' \in BOOLEAN /\ drawerExcuse' \in BOOLEAN
  BY <1>1, <1>2, <1>4
<1>12. QED BY <1>1, <1>2, <1>3, <1>5, <1>7, <1>8, <1>10, <1>11 DEF DrawerInv

LEMMA ServerStepKeeps ==
    ASSUME Drawer!ConstantsOK, DrawerInv, Drawer!ServerStep PROVE DrawerInv'
BY WriteStepKeeps, SayKeeps DEF Drawer!ServerStep

LEMMA RestoreKeeps ==
    ASSUME Drawer!ConstantsOK, DrawerInv, NEW r \in Drawer!Range(entries),
           Drawer!RestoreVersion(r) \/ Drawer!RestoreDeleted(r)
    PROVE  DrawerInv'
<1>1. \E x : WroteRow(x)
  BY RestoreVersionGrows, RestoreDeletedGrows
<1>2. UNCHANGED <<news, drawerCrossed, scope, entries, loads, drawerExcuse>>
  BY DEF Drawer!RestoreVersion, Drawer!RestoreDeleted
<1>3. QED BY <1>1, <1>2, GrownKeeps

\* A request for the rows: until its answer, nothing is said of the rows held.
LEMMA ReloadKeeps ==
    ASSUME Drawer!ConstantsOK, DrawerInv, NEW s \in Scopes \cup {Drawer!Closed},
           scope' = s, Drawer!Reload(s),
           UNCHANGED <<current, log, drawerUnsent, news, drawerCrossed, entries, drawerExcuse>>
    PROVE  DrawerInv'
<1>1. CASE s = Drawer!Closed
  <2>1. loads' = loads /\ drawerMade' = drawerMade
    BY <1>1 DEF Drawer!Reload
  <2>2. ~Settled'
    BY <1>1 DEF Settled
  <2>3. Now' = Now /\ Unheard' = Unheard
    BY <2>1 DEF Now, Unheard
  <2>4. QED BY <2>1, <2>2, <2>3 DEF DrawerInv
<1>2. CASE s # Drawer!Closed
  <2> DEFINE l == [id |-> drawerMade.load + 1, scope |-> s, read |-> FALSE, rows |-> << >>,
                   missed |-> FALSE]
  <2>1. drawerMade' = [drawerMade EXCEPT !["load"] = @ + 1] /\ loads' = loads \cup {l}
    BY <1>2 DEF Drawer!Reload, Drawer!Count
  <2>2. drawerMade \in [Drawer!Counted -> Nat]
    BY DEF DrawerInv
  <2>3. /\ drawerMade' \in [Drawer!Counted -> Nat] /\ drawerMade'.load = drawerMade.load + 1
        /\ Now' = Now /\ drawerMade.load \in Nat
    BY <2>1, <2>2 DEF Now, Drawer!Counted
  <2>4. \A k \in loads : k.id \in Nat /\ k.id <= drawerMade.load
    BY DEF DrawerInv, LoadKept
  <2>5. LoadKept(l, log, Unheard, Now, drawerMade.load + 1, drawerCrossed)
    <3>1. Known(<< >>, log, Now)
      BY DEF Known
    <3>2. QED BY <1>2, <2>3, <3>1 DEF LoadKept
  <2>6. l.id = drawerMade.load + 1
    OBVIOUS
  <2> HIDE DEF l
  <2>7. ~Settled'
    BY <2>1, <2>3, <2>6 DEF Settled
  <2>8. \A j, k \in loads' : j.id = k.id => j = k
    <3>1. \A k \in loads : k.id # l.id
      BY <2>3, <2>4, <2>6
    <3>2. QED BY <2>1, <3>1 DEF DrawerInv
  <2>9. ASSUME NEW k \in loads PROVE LoadKept(k, log, Unheard, Now, drawerMade.load + 1, drawerCrossed)
    <3>1. LoadKept(k, log, Unheard, Now, drawerMade.load, drawerCrossed)
      BY DEF DrawerInv
    <3>2. k.id <= drawerMade.load + 1
      BY <2>3, <2>4
    <3>3. QED BY <3>1, <3>2 DEF LoadKept
  <2>12. Unheard' = Unheard
    BY DEF Unheard
  <2>10. \A k \in loads' :
           LoadKept(k, log', Unheard', Now', drawerMade'.load, drawerCrossed')
    BY <2>1, <2>12, <2>3, <2>5, <2>9
  <2>11. /\ TableKept(log', current', Now') /\ ComingKept(Unheard', log', Now')
         /\ news' \in Seq(HistoryRows) /\ drawerUnsent' \in Seq(HistoryRows)
         /\ drawerCrossed' \in BOOLEAN
         /\ ~drawerCrossed' => Uncrossed(news', drawerUnsent', log')
         /\ Known(entries', log', Now')
         /\ scope' \in Scopes \cup {Drawer!Closed} /\ drawerExcuse' \in BOOLEAN
    BY <2>3, <2>12 DEF DrawerInv
  <2>13. QED BY <2>3, <2>7, <2>8, <2>10, <2>11 DEF DrawerInv
<1>3. QED BY <1>1, <1>2

LEMMA OpenKeeps ==
    ASSUME Drawer!ConstantsOK, DrawerInv, NEW s \in Scopes, Drawer!Open(s) PROVE DrawerInv'
<1>1. /\ scope' = s /\ Drawer!Reload(s)
      /\ UNCHANGED <<current, log, drawerUnsent, news, drawerCrossed, entries, drawerExcuse>>
  BY DEF Drawer!Open, Drawer!server
<1>2. QED BY <1>1, ReloadKeeps

LEMMA RestoreAnsweredKeeps ==
    ASSUME Drawer!ConstantsOK, DrawerInv, Drawer!RestoreAnswered PROVE DrawerInv'
<1>1. /\ scope' = scope /\ Drawer!Reload(scope)
      /\ UNCHANGED <<current, log, drawerUnsent, news, drawerCrossed, entries, drawerExcuse>>
  BY DEF Drawer!RestoreAnswered, Drawer!server
<1>2. scope \in Scopes \cup {Drawer!Closed}
  BY DEF DrawerInv
<1>3. QED BY <1>1, <1>2, ReloadKeeps

LEMMA DrawerCloses == ASSUME DrawerInv, Drawer!Close PROVE DrawerInv'
<1>1. /\ scope' = Drawer!Closed
      /\ UNCHANGED <<current, log, drawerUnsent, news, drawerCrossed, entries, loads, drawerMade,
                     drawerExcuse>>
  BY DEF Drawer!Close, Drawer!server
<1>2. ~Settled' /\ Now' = Now /\ Unheard' = Unheard
  BY <1>1 DEF Settled, Now, Unheard
<1>3. QED BY <1>1, <1>2 DEF DrawerInv

LEMMA ReadKeeps == ASSUME DrawerInv, NEW l \in loads, Drawer!Read(l) PROVE DrawerInv'
<1> DEFINE list == Drawer!Listed(l.scope)
           answer == [l EXCEPT !.read = TRUE, !.rows = list, !.missed = drawerCrossed]
<1>1. /\ loads' = (loads \ {l}) \cup {answer}
      /\ UNCHANGED <<current, log, drawerUnsent, news, drawerCrossed, scope, entries, drawerMade,
                     drawerExcuse>>
  BY DEF Drawer!Read, Drawer!server, Drawer!drawer
<1>2. Now' = Now /\ Unheard' = Unheard
  BY <1>1 DEF Now, Unheard
<1>3. Known(list, log, Now) /\ Held(list, l.scope, log, Unheard) /\ UpTo(list, l.scope, log)
  BY ListedHeld DEF DrawerInv
<1>4. LoadKept(l, log, Unheard, Now, drawerMade.load, drawerCrossed) /\ drawerCrossed \in BOOLEAN
  BY DEF DrawerInv
<1> HIDE DEF list
<1>5. answer = [id |-> l.id, scope |-> l.scope, read |-> TRUE, rows |-> list,
                missed |-> drawerCrossed]
  <2> DEFINE Loads == [id : Nat, scope : Scopes, read : BOOLEAN, rows : Seq(HistoryRows),
                       missed : BOOLEAN]
  <2>1. l \in Loads
    BY <1>4 DEF LoadKept, Known
  <2>2. answer \in [id : {l.id}, scope : {l.scope}, read : {TRUE}, rows : {list},
                    missed : {drawerCrossed}]
    BY <2>1
  <2> HIDE DEF answer
  <2>3. QED BY <2>2
<1> HIDE DEF answer
<1>6. LoadKept(answer, log, Unheard, Now, drawerMade.load, drawerCrossed)
  BY <1>3, <1>4, <1>5 DEF LoadKept
<1>7. answer.id = l.id
  BY <1>5
<1>8. \A j, k \in loads' : j.id = k.id => j = k
  BY <1>1, <1>7 DEF DrawerInv
<1>9. Settled' => Settled
  BY <1>1, <1>7 DEF Settled
<1>10. QED BY <1>1, <1>2, <1>6, <1>8, <1>9 DEF DrawerInv

LEMMA LoadedKeeps == ASSUME DrawerInv, NEW l \in loads, Drawer!Loaded(l) PROVE DrawerInv'
<1>1. /\ l.read /\ loads' = loads \ {l} /\ entries' = l.rows
      /\ drawerExcuse' = (l.scope # scope \/ l.id < drawerMade.load \/ l.missed)
      /\ UNCHANGED <<current, log, drawerUnsent, news, drawerCrossed, scope, drawerMade>>
  BY DEF Drawer!Loaded, Drawer!server
<1>2. Now' = Now /\ Unheard' = Unheard
  BY <1>1 DEF Now, Unheard
<1>3. LoadKept(l, log, Unheard, Now, drawerMade.load, drawerCrossed)
  BY DEF DrawerInv
<1>4. Known(entries', log', Now')
  BY <1>1, <1>2, <1>3 DEF LoadKept
<1>5. Settled' => ~drawerCrossed' /\ Held(entries', scope', log', Unheard')
  BY <1>1, <1>2, <1>3 DEF LoadKept, Settled
<1>6. drawerExcuse' \in BOOLEAN
  BY <1>1
<1>7. QED BY <1>1, <1>2, <1>4, <1>5, <1>6 DEF DrawerInv

LEMMA LoadFailsKeeps == ASSUME DrawerInv, NEW l \in loads, Drawer!LoadFails(l) PROVE DrawerInv'
<1>1. /\ loads' = loads \ {l} /\ drawerExcuse' = TRUE
      /\ UNCHANGED <<current, log, drawerUnsent, news, drawerCrossed, scope, entries, drawerMade>>
  BY DEF Drawer!LoadFails, Drawer!server
<1>2. Now' = Now /\ ~Settled' /\ Unheard' = Unheard
  BY <1>1 DEF Now, Settled, Unheard
<1>3. QED BY <1>1, <1>2 DEF DrawerInv

LEMMA HearsKeeps == ASSUME DrawerInv, Drawer!Hear PROVE DrawerInv'
<1> DEFINE r == Head(news)
           rest == Coming(Tail(news), drawerUnsent)
           F(l) == [l EXCEPT !.missed = @ \/ Drawer!Misses(l, r)]
<1>1. /\ news # << >> /\ news' = Tail(news)
      /\ \/ scope # Drawer!Closed /\ Drawer!Matches(r, scope) /\ entries' = Drawer!Take(entries, r)
         \/ ~(scope # Drawer!Closed /\ Drawer!Matches(r, scope)) /\ entries' = entries
      /\ loads' = {F(l) : l \in loads}
      /\ drawerCrossed' = (drawerCrossed /\ ~(Tail(news) = << >> /\ drawerUnsent = << >>))
      /\ UNCHANGED <<current, log, drawerUnsent, scope, drawerMade, drawerExcuse>>
  BY DEF Drawer!Hear
<1>2. Now' = Now /\ Unheard' = rest
  BY <1>1 DEF Now, Unheard
<1>3. /\ TableKept(log, current, Now) /\ ComingKept(Unheard, log, Now) /\ Known(entries, log, Now)
      /\ news \in Seq(HistoryRows) /\ drawerUnsent \in Seq(HistoryRows)
      /\ drawerCrossed \in BOOLEAN
      /\ ~drawerCrossed => Uncrossed(news, drawerUnsent, log)
  BY DEF DrawerInv
<1>4. news' \in Seq(HistoryRows) /\ Unheard = rest \cup {r}
  <2>1. Tail(news) \in Seq(HistoryRows)
        /\ Drawer!Range(news) = Drawer!Range(Tail(news)) \cup {r}
    BY <1>1, <1>3, Queue
  <2>2. Unheard = rest \cup {r}
    BY <2>1 DEF Unheard, Coming
  <2>3. QED BY <1>1, <2>1, <2>2
<1>5. ComingKept(rest, log, Now)
  BY <1>3, <1>4, ComingShrinks
<1>6. ~drawerCrossed => NextHeard(r, Unheard, rest, log, Now)
  BY <1>1, <1>3, FirstEvent DEF Unheard
\* When all has been heard nothing is left that could be crossed.
<1>7. ~drawerCrossed' => Uncrossed(news', drawerUnsent', log')
  <2>1. CASE ~drawerCrossed
    <3>1. Uncrossed(Tail(news), drawerUnsent, log)
      BY <1>1, <1>3, <2>1, UncrossedHeard DEF Unheard
    <3>2. QED BY <1>1, <3>1
  <2>2. CASE Tail(news) = << >> /\ drawerUnsent = << >>
    <3>1. Uncrossed(<< >>, << >>, log)
      BY DEF Uncrossed, InTurn, Coming, Drawer!Range
    <3>2. QED BY <1>1, <2>2, <3>1
  <2>3. QED BY <1>1, <2>1, <2>2
<1>8. Known(entries', log, Now)
  BY <1>1, <1>3, <1>4, KnownTakes
<1>9. ASSUME NEW l \in loads
      PROVE  F(l).id = l.id /\ LoadKept(F(l), log, rest, Now, drawerMade.load, drawerCrossed')
  <2>1. LoadKept(l, log, Unheard, Now, drawerMade.load, drawerCrossed)
    BY DEF DrawerInv
  <2>2. F(l) = [id |-> l.id, scope |-> l.scope, read |-> l.read, rows |-> l.rows,
                missed |-> l.missed \/ Drawer!Misses(l, r)]
    BY <2>1 DEF LoadKept
  <2>3. Drawer!Misses(l, r) \in BOOLEAN
    BY <2>1 DEF Drawer!Misses, LoadKept
  <2>4. ASSUME l.read, ~l.missed, ~Drawer!Misses(l, r)
        PROVE  ~drawerCrossed' /\ Held(l.rows, l.scope, log, rest) /\ UpTo(l.rows, l.scope, log)
    <3>1. /\ Held(l.rows, l.scope, log, Unheard) /\ UpTo(l.rows, l.scope, log)
          /\ Known(l.rows, log, Now) /\ ~drawerCrossed
      BY <2>1, <2>4 DEF LoadKept
    <3>2. ~(Drawer!Matches(r, l.scope) /\ \A i \in DOMAIN l.rows : l.rows[i].at < r.at)
      BY <2>4 DEF Drawer!Misses, Drawer!Range
    <3>3. QED BY <1>1, <1>6, <3>1, <3>2, HeldMissesNot
  <2> HIDE DEF r, F, rest
  <2>5. QED BY <2>1, <2>2, <2>3, <2>4 DEF LoadKept
<1> HIDE DEF F, rest, r
<1>10. \A l \in loads' : LoadKept(l, log', Unheard', Now', drawerMade'.load, drawerCrossed')
  BY <1>1, <1>2, <1>9
<1>11. \A j, k \in loads' : j.id = k.id => j = k
  BY <1>1, <1>9 DEF DrawerInv
<1>12. Settled' => Settled
  BY <1>1, <1>9 DEF Settled
<1>13. ASSUME Settled PROVE ~drawerCrossed' /\ Held(entries', scope, log, rest)
  <2>1. scope # Drawer!Closed /\ Held(entries, scope, log, Unheard) /\ ~drawerCrossed
    BY <1>13 DEF Settled, DrawerInv
  <2>2. QED BY <1>1, <1>3, <1>6, <2>1, HeldHears, HeldPasses
<1>14. drawerCrossed' \in BOOLEAN
  BY <1>1, <1>3
<1>15. QED BY <1>1, <1>2, <1>3, <1>4, <1>5, <1>7, <1>8, <1>10, <1>11, <1>12, <1>13, <1>14
        DEF DrawerInv

LEMMA DrawerKeeps ==
    ASSUME Drawer!ConstantsOK, DrawerInv, Drawer!Next PROVE DrawerInv'
<1>1. CASE Drawer!ServerStep
  BY <1>1, ServerStepKeeps
<1>2. ASSUME NEW s \in Scopes, Drawer!Open(s) PROVE DrawerInv'
  BY <1>2, OpenKeeps
<1>3. CASE Drawer!Close
  BY <1>3, DrawerCloses
<1>4. CASE Drawer!Hear
  BY <1>4, HearsKeeps
<1>5. CASE Drawer!RestoreAnswered
  BY <1>5, RestoreAnsweredKeeps
<1>6. ASSUME NEW l \in loads, Drawer!Read(l) \/ Drawer!Loaded(l) \/ Drawer!LoadFails(l)
      PROVE  DrawerInv'
  BY <1>6, ReadKeeps, LoadedKeeps, LoadFailsKeeps
<1>7. ASSUME NEW r \in Drawer!Range(entries), Drawer!RestoreVersion(r) \/ Drawer!RestoreDeleted(r)
      PROVE  DrawerInv'
  BY <1>7, RestoreKeeps
<1>8. QED BY <1>1, <1>2, <1>3, <1>4, <1>5, <1>6, <1>7 DEF Drawer!Next, Drawer!DrawerStep

LEMMA InitDrawer == ASSUME Drawer!ConstantsOK, Drawer!Init PROVE DrawerInv
<1>1. PICK first \in FirstOf :
         log = {[id |-> 1, at |-> 1, entity |-> first[1], before |-> Drawer!Gone,
                 after |-> Drawer!Snap({}), action |-> first[2]]}
  BY DEF Drawer!Init
<1>2. /\ current = [x \in DOMAIN Kind |-> Drawer!Snap({})]
      /\ drawerUnsent = << >> /\ news = << >> /\ scope = Drawer!Closed /\ entries = << >>
      /\ loads = {} /\ drawerMade = [x \in Drawer!Counted |-> 0] /\ drawerCrossed = FALSE
      /\ drawerExcuse = FALSE
  BY DEF Drawer!Init, Drawer!Entities
<1> DEFINE e == first[1]
           act == first[2]
           r == [id |-> 1, at |-> 1, entity |-> e, before |-> Drawer!Gone,
                 after |-> Drawer!Snap({}), action |-> act]
<1>3. e \in DOMAIN Kind /\ act \in {"create", "baseline"}
  BY DEF Drawer!ConstantsOK, Drawer!Entities
<1>4. Drawer!Gone \in Snaps /\ \A x \in DOMAIN Kind : StateOf(x, Drawer!Gone)
  BY DEF Snaps, StateOf, Drawer!Gone
<1>5. \A x \in DOMAIN Kind : Drawer!Snap({}) \in Snaps /\ StateOf(x, Drawer!Snap({}))
  BY FieldsKnown
<1>6. act \in RowActions /\ act # "update"
  BY <1>3 DEF RowActions
<1> HIDE DEF act, e
<1>7. IsRow(r, 1)
  <2>1. r \in HistoryRows
    BY <1>3, <1>4, <1>5, <1>6 DEF HistoryRows
  <2>2. QED BY <1>3, <1>4, <1>5, <1>6, <2>1 DEF IsRow
<1>8. log = {r}
  BY <1>1 DEF act, e
<1>9. r.entity = e /\ r.after = Drawer!Snap({})
  OBVIOUS
<1> HIDE DEF r
<1>10. /\ drawerMade \in [Drawer!Counted -> Nat] /\ Now = 1
  BY <1>2 DEF Drawer!Counted, Now
<1>11. TableKept(log, current, 1)
  <2>1. IsFiniteSet(log)
    BY <1>8, FS_Singleton
  <2>2. \A x \in log : x = r
    BY <1>8
  <2>3. current \in [DOMAIN Kind -> Snaps] /\ \A x \in DOMAIN Kind : StateOf(x, current[x])
    BY <1>2, <1>5
  <2>4. r.after = current[r.entity]
    BY <1>2, <1>3, <1>9
  <2>5. r.id \in Nat
    BY <1>7 DEF IsRow, HistoryRows
  <2>6. ~(r.id < r.id)
    BY <2>5
  <2>7. QED BY <1>7, <2>1, <2>2, <2>3, <2>4, <2>6 DEF TableKept
<1>12. /\ ComingKept(Unheard, log, 1) /\ Known(entries, log, 1)
       /\ Uncrossed(news, drawerUnsent, log)
       /\ news \in Seq(HistoryRows) /\ drawerUnsent \in Seq(HistoryRows)
  BY <1>2 DEF ComingKept, Unheard, Coming, Drawer!Range, Known, Uncrossed, InTurn
<1>13. ~Settled
  BY <1>2 DEF Settled
<1>14. QED BY <1>2, <1>10, <1>11, <1>12, <1>13 DEF DrawerInv

----------------------------------------------------------------------------
(* The drawer among the machines of the tab.                               *)

DrawerPart == part = "drawer" => DrawerInv

LEMMA DrawerStutters == ASSUME DrawerInv, UNCHANGED Drawer!historyVars PROVE DrawerInv'
<1>1. UNCHANGED <<current, log, drawerUnsent, news, drawerCrossed, scope, entries, loads, drawerMade,
                  drawerExcuse>>
  BY DEF Drawer!historyVars
<1>2. Now' = Now /\ Unheard' = Unheard
  BY <1>1 DEF Now, Unheard
<1>3. Settled' <=> Settled
  BY <1>1 DEF Settled
<1>4. QED BY <1>1, <1>2, <1>3 DEF DrawerInv

LEMMA DrawerStays ==
    ASSUME DrawerPart, [FrontendNext]_FrontendVars
    PROVE  DrawerPart'
<1> SUFFICES ASSUME part' = "drawer" PROVE DrawerInv'
  BY DEF DrawerPart
<1>1. part = "drawer" /\ [Drawer!Next]_(Drawer!historyVars)
  BY DEF FrontendNext, FrontendVars, drawerVars, Drawer!historyVars, EditorRuns, OrderRuns,
         PickerRuns, DrawerRuns, SearchRuns, TagEditorRuns
<1>2. QED BY <1>1, DrawerAssumption, DrawerKeeps, DrawerStutters DEF DrawerPart

\* When every event has been sent and heard and the last load answered, the drawer holds the
\* rows of its scope, once and as they are stored, its newest version is the card's, and each
\* row says what it changed, for any entities, links, edits and bounds, and in whichever order
\* the events of different entities were sent; two of one entity sent the other way round
\* excuse the order until the rows are loaded again (components/history_panel.rs, shared
\* history, audit.rs).
THEOREM DrawerCorrect == FrontendSpec => []DrawerShowsHistory
<1>1. FrontendInit => DrawerPart
  BY DrawerAssumption, InitDrawer DEF FrontendInit, DrawerStarts, DrawerPart
<1>2. DrawerPart => DrawerShowsHistory
  BY DrawerAssumption, DrawerShows, DrawerTells DEF DrawerShowsHistory, DrawerPart
<1>3. QED BY <1>1, <1>2, DrawerStays, PTL DEF FrontendSpec
=============================================================================
