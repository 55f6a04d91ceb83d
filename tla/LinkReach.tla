----------------------------- MODULE LinkReach -----------------------------
(***************************************************************************)
(* Reachability over directed links, as a definition rather than a search: *)
(* what "following successors" means for the link rules.  CycleSearch runs *)
(* the code's breadth-first search against it; CardLinksProofs proves what *)
(* the link graph needs of it.                                             *)
(***************************************************************************)

CONSTANT Cards           \* every card id

\* The arrows of E never leave S.
Closed(E, S) == \A e \in E : e[1] \in S => e[2] \in S

\* b is a, or follows from a along the arrows of E: b lies in every closed
\* set that holds a.
Reaches(E, a, b) == \A S \in SUBSET Cards : a \in S /\ Closed(E, S) => b \in S

\* No arrow of E closes a loop: its start does not follow from its end.
NoLoop(E) == \A e \in E : ~Reaches(E, e[2], e[1])
============================================================================
