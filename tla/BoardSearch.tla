---------------------------- MODULE BoardSearch ----------------------------
(***************************************************************************)
(* The search box of one board view (frontend: search.rs and its uses in   *)
(* pages/board_view.rs and components/column.rs): what a query asks for,   *)
(* which cards it leaves on screen, the pin of the card that is open, the  *)
(* completions of a # term, and what is marked in a card's text.           *)
(*                                                                         *)
(* Abstracted: a character is a letter, a digit or a separator, in lower   *)
(* case; a number is its digits, with no zero before them; the order of    *)
(* the completions and their number; focus and keys.                       *)
(***************************************************************************)
EXTENDS Integers, SequencesExt

CONSTANTS
    Number,          \* Number[c]: the digits of card c's number
    GivenTags,       \* the sets of tags the cards may have
    GivenBodies,     \* bodies a card may be given
    Tokens,          \* tokens that may be typed: [hash, word]
    MaxTokens,       \* bound: tokens of a query
    MaxEdits         \* bound: changes of a card or of the links

Cards == DOMAIN Number
Digits == {"0", "1", "2"}
Separator == " "
NoCard == 0
NoPick == << >>

\* A card is not NoCard, and its number is written as one is typed; a token is a # and a
\* word, or a word.
Written(word) == word \in Seq(STRING) /\ (word # << >> => word[1] # "0")
ConstantsOK ==
    /\ NoCard \notin Cards
    /\ \A c \in Cards : Number[c] \in Seq(Digits) /\ Written(Number[c])
    /\ \A ts \in GivenTags : \A t \in ts : t \in Seq(STRING)
    /\ \A b \in GivenBodies : b \in Seq(STRING)
    /\ \A t \in Tokens : t = [hash |-> t.hash, word |-> t.word] /\ t.hash \in BOOLEAN
    /\ \A t \in Tokens : Written(t.word) /\ (~t.hash => t.word # << >>)

VARIABLES
    tags, body,      \* of each card, as the tab has them
    links,           \* pairs of cards
    query,           \* the tokens
    open,            \* whether the last token has no space behind it
    dismissed,       \* the popup was closed by Escape
    expanded,        \* ExpandedCardId, or NoCard
    edits,
    \* history variables: they guide no step
    touched,         \* cards opened, edited or unlinked since the query last changed
    picked           \* the completion that was last taken, while its query stands

searchVars == <<tags, body, links, query, open, dismissed, expanded, edits, touched, picked>>

board == <<tags, body, links, edits>>

----------------------------------------------------------------------------
(* Terms.                                                                  *)

AllDigits(word) == \A i \in DOMAIN word : word[i] \in Digits

\* parse_query: a # alone asks for nothing.
HashWords(q) == {q[i].word : i \in {j \in DOMAIN q : q[j].hash /\ q[j].word # << >>}}
NumbersOf(q) == {w \in HashWords(q) : AllDigits(w)}
TagsOf(q) == HashWords(q) \ NumbersOf(q)
TextOf(q) == {i \in DOMAIN q : ~q[i].hash}     \* where its words of text stand

\* is_subsequence: the letters of needle stand in word, in their order; every literal
\* occurrence is one.
IsSubsequence(needle, word) ==
    \E at \in [DOMAIN needle -> DOMAIN word] :
        /\ \A i \in DOMAIN needle : word[at[i]] = needle[i]
        /\ \A i, j \in DOMAIN needle : i < j => at[i] < at[j]

\* words_of: the first and the last character of each word.
WordsOf(text) ==
    {span \in (1 .. Len(text)) \X (1 .. Len(text)) :
        /\ span[1] <= span[2]
        /\ span[1] = 1 \/ text[span[1] - 1] = Separator
        /\ span[2] = Len(text) \/ text[span[2] + 1] = Separator
        /\ \A i \in span[1] .. span[2] : text[i] # Separator}

BodyWords(c) == LET parts == WordsOf(body[c]) IN {SubSeq(body[c], w[1], w[2]) : w \in parts}

LinkedToNumber(c, n) == \E d \in Cards : Number[d] = n /\ {<<c, d>>, <<d, c>>} \cap links # {}

IsNumberOf(c, q) == \E i \in TextOf(q) : TextOf(q) = {i} /\ q[i].word = Number[c]

TextMatches(c, q) ==
    \/ IsNumberOf(c, q)
    \/ \A i \in TextOf(q) : \E w \in BodyWords(c) : IsSubsequence(q[i].word, w)

\* card_matches_query.
Matches(c, q) ==
    /\ \A n \in NumbersOf(q) : n = Number[c] \/ LinkedToNumber(c, n)
    /\ \A needle \in TagsOf(q) : \E t \in tags[c] : IsPrefix(needle, t)
    /\ TextMatches(c, q)

\* card_is_visible.
Visible(c) == expanded = c \/ Matches(c, query)

----------------------------------------------------------------------------
(* What is marked in a card's text.                                        *)

Literal(term, text, w) ==
    {<<i, i + Len(term) - 1>> : i \in {j \in w[1] .. w[2] - Len(term) + 1 :
                                          SubSeq(text, j, j + Len(term) - 1) = term}}

\* Mutant: a word that a term is only a subsequence of is not marked.
SpansLiteral(term, text, w) == Literal(term, text, w)

\* The occurrences of a term in a word, or all of a word that it is only a subsequence of.
SpansIn(term, text, w) ==
    LET literal == Literal(term, text, w)
    IN  IF literal # {} THEN literal
        ELSE IF IsSubsequence(term, SubSeq(text, w[1], w[2])) THEN {w} ELSE {}

\* merge_spans: spans that overlap or touch are one.
MergeSpans(spans) ==
    LET marked == UNION {s[1] .. s[2] : s \in spans}
    IN  {run \in marked \X marked :
            /\ run[1] <= run[2] /\ run[1] .. run[2] \subseteq marked
            /\ run[1] - 1 \notin marked /\ run[2] + 1 \notin marked}

HighlightSpans(text, terms) ==
    MergeSpans(UNION {SpansIn(t, text, w) : t \in terms, w \in WordsOf(text)})

----------------------------------------------------------------------------
(* The search box.                                                         *)

Init ==
    /\ tags \in [Cards -> GivenTags] /\ body \in {[c \in Cards |-> b] : b \in GivenBodies}
    /\ links \in {{}, {<<1, 2>>}}
    /\ query = << >> /\ open = FALSE /\ dismissed = FALSE /\ expanded = NoCard /\ edits = 0
    /\ touched = {} /\ picked = NoPick

\* query_change_unpins: an open card that fails the new query is let go.
Unpin(q) ==
    IF q # query /\ expanded # NoCard /\ ~Matches(expanded, q) THEN NoCard ELSE expanded

\* The query has several writers; one effect follows it.
SetQuery(q, isOpen) ==
    /\ query' = q /\ open' = isOpen
    /\ expanded' = Unpin(q)
    /\ touched' = IF q # query THEN {} ELSE touched
    /\ UNCHANGED board

\* The token at the end is typed, typed on, or finished by a space.
Type ==
    /\ \E t \in Tokens :
          \/ ~open /\ Len(query) < MaxTokens /\ SetQuery(Append(query, t), TRUE)
          \/ /\ open /\ t.hash = Last(query).hash /\ IsPrefix(Last(query).word, t.word)
             /\ t # Last(query)
             /\ SetQuery(Append(Front(query), t), TRUE)
          \/ open /\ SetQuery(query, FALSE)
    /\ dismissed' = FALSE /\ picked' = NoPick

\* The popup: completions of an open # term.
Prefix == IF open /\ query # << >> /\ Last(query).hash THEN {Last(query).word} ELSE {}

Completions ==
    UNION {LET numeric == p # << >> /\ AllDigits(p)
               all == UNION {tags[c] : c \in Cards}
           IN  (IF numeric THEN {} ELSE {[kind |-> "tag", value |-> t] : t \in
                                            {x \in all : IsPrefix(p, x)}})
               \cup (IF p = << >> \/ numeric
                     THEN {[kind |-> "card", value |-> Number[c]] : c \in
                              {d \in Cards : IsPrefix(p, Number[d])}}
                     ELSE {})
           : p \in Prefix}

PopupOpen == ~dismissed /\ Completions # {}

\* apply_hash_suggestion: in place of the open token.
Apply(q, value) == Append(Front(q), [hash |-> TRUE, word |-> value])

Accept ==
    /\ PopupOpen
    /\ \E s \in Completions :
          /\ SetQuery(Apply(query, s.value), FALSE)
          /\ picked' = <<s>>
    /\ UNCHANGED dismissed

\* Escape closes the popup, then clears the query.
Escape ==
    \/ PopupOpen /\ dismissed' = TRUE /\ UNCHANGED <<board, query, open, expanded, touched, picked>>
    \/ ~PopupOpen /\ query # << >> /\ SetQuery(<< >>, FALSE) /\ picked' = NoPick
       /\ UNCHANGED dismissed

ClearButton ==
    /\ query # << >>
    /\ SetQuery(<< >>, FALSE)
    /\ dismissed' = FALSE /\ picked' = NoPick

----------------------------------------------------------------------------
(* The board under the query.                                              *)

Touch(cs) == touched' = touched \cup cs
Still == UNCHANGED <<query, open, dismissed>>

\* A card on screen is opened; another one lets the lock go.
Expand(c) ==
    /\ Visible(c) /\ expanded # c
    /\ expanded' = c /\ Touch({c})
    /\ Still /\ UNCHANGED <<board, picked>>

Collapse ==
    /\ expanded # NoCard
    /\ expanded' = NoCard
    /\ Still /\ UNCHANGED <<board, touched, picked>>

\* The card's own editor, another tab or an agent changes it; links come and go.
Change(c) ==
    /\ edits < MaxEdits /\ edits' = edits + 1
    /\ \/ tags' \in {[tags EXCEPT ![c] = t] : t \in GivenTags} /\ UNCHANGED <<body, links>>
       \/ body' \in {[body EXCEPT ![c] = b] : b \in GivenBodies} /\ UNCHANGED <<tags, links>>
       \/ /\ links' = IF links = {} THEN {<<1, 2>>} ELSE {}
          /\ UNCHANGED <<tags, body>>
    /\ Touch(IF links' = links THEN {c} ELSE Cards)
    /\ Still /\ UNCHANGED <<expanded, picked>>

Next ==
    \/ Type \/ Accept \/ Escape \/ ClearButton \/ Collapse
    \/ \E c \in Cards : Expand(c) \/ Change(c)

Spec == Init /\ [][Next]_searchVars

----------------------------------------------------------------------------

\* The cards keep to what they may hold, and an open token is the last of a query.
TypeOK ==
    /\ tags \in [Cards -> GivenTags] /\ body \in [Cards -> GivenBodies]
    /\ Len(query) <= MaxTokens /\ (open => query # << >>)
    /\ expanded \in Cards \cup {NoCard}
    /\ touched \subseteq Cards

\* "The courtesy lasts while the search stands still": a card on screen that fails the query
\* is the open one, and was opened or changed after the query was last moved, whichever
\* writer moved it.
PinIsBrief ==
    \A c \in Cards : Visible(c) /\ ~Matches(c, query) => c = expanded /\ c \in touched

\* "The highlighted body text says what actually matched": a text query leaves a card on
\* screen exactly when each of its words marks something in the card or is its number.
MarksMirrorMatches ==
    \A c \in Cards :
        TextMatches(c, query) <=>
            \/ IsNumberOf(c, query)
            \/ \A i \in TextOf(query) : HighlightSpans(body[c], {query[i].word}) # {}

\* What the popup offers, the search finds: a card whose number or tag was picked fails the
\* query only by its other terms.  A tag that is all digits is read back as a number.
PickIsFound ==
    picked # NoPick =>
        \A c \in Cards :
            /\ \/ picked[1].kind = "card" /\ Number[c] = picked[1].value
               \/ picked[1].kind = "tag" /\ picked[1].value \in tags[c]
                  /\ ~AllDigits(picked[1].value)
            /\ Matches(c, Front(query))
            => Matches(c, query)
=============================================================================
