----------------------------- MODULE LinkGraph -----------------------------
(***************************************************************************)
(* What card links promise, with every operation one atomic step: a board's*)
(* links form a directed graph over its cards ("predecessor comes before   *)
(* successor", card_links in the schema), a link joins two cards that      *)
(* exist, and no link is ever accepted that would close a loop.            *)
(*                                                                         *)
(* CardLinks is the code: statement by statement, with the link lock and   *)
(* the row locks, several requests at a time.  It implements this module.  *)
(***************************************************************************)

EXTENDS LinkReach

VARIABLES cards,         \* the cards that exist now
          edges          \* the links, as pairs <<predecessor, successor>>

vars == <<cards, edges>>

----------------------------------------------------------------------------

Init == cards = Cards /\ edges = {}

AddLink(pred, succ) ==
    /\ pred \in cards
    /\ succ \in cards
    /\ ~Reaches(edges, succ, pred)
    /\ edges' = edges \cup {<<pred, succ>>}
    /\ UNCHANGED cards

RemoveLink(e) ==
    /\ edges' = edges \ {e}
    /\ UNCHANGED cards

\* A card takes its links with it: a link cannot outlive either of its ends.
RemoveCard(c) ==
    /\ c \in cards
    /\ cards' = cards \ {c}
    /\ edges' = {e \in edges : e[1] # c /\ e[2] # c}

\* A restored card comes back without the links it had.
RestoreCard(c) ==
    /\ c \in Cards \ cards
    /\ cards' = cards \cup {c}
    /\ UNCHANGED edges

Next ==
    \/ \E pred, succ \in Cards : AddLink(pred, succ)
    \/ \E e \in edges : RemoveLink(e)
    \/ \E c \in Cards : RemoveCard(c) \/ RestoreCard(c)

Spec == Init /\ [][Next]_vars

----------------------------------------------------------------------------

\* The board holds cards, and its links join pairs of cards.
TypeOK ==
    /\ cards \subseteq Cards
    /\ edges \subseteq Cards \X Cards

\* The link graph never has a loop: following "comes before" from any link's
\* successor never leads back to its predecessor.
Acyclic == NoLoop(edges)

\* A link never outlives either of its ends.
EndsExist == \A e \in edges : e[1] \in cards /\ e[2] \in cards

============================================================================
