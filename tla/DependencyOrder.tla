-------------------------- MODULE DependencyOrder --------------------------
(***************************************************************************)
(* order_by_dependency (shared/src/links.rs): "Sort by links" of a column, *)
(* Kahn's algorithm with the ready cards in a min-heap of their current    *)
(* places.  A card is its place in the column, 1 .. N, as in the code; 0   *)
(* stands for the cards of other columns.                                  *)
(*                                                                         *)
(* Abstracted: ids, and with them a column that holds one card twice; a    *)
(* link given twice, which the code's set of resolved links drops.         *)
(***************************************************************************)
EXTENDS Naturals, FiniteSets, Sequences

CONSTANTS
    N,                   \* cards in the column
    GivenLinks           \* the sets of links the sort is run on

\* A link names a card of the column, 1 to N, or another, 0.
ConstantsOK ==
    /\ N \in Nat
    /\ GivenLinks \subseteq SUBSET ((0 .. N) \X (0 .. N))

Places == 1 .. N

VARIABLES
    given,               \* the links passed in
    inDegree,            \* inDegree[i]: predecessors of i not placed yet
    ready,               \* the heap: cards whose predecessors are all placed
    ordered,             \* the cards placed so far
    answer               \* "sorting", then "ordered" or "cycle"

vars == <<given, inDegree, ready, ordered, answer>>

\* Links inside the column, a card's link to itself left out.
Resolved(links) == {e \in links : e \in Places \X Places /\ e[1] # e[2]}

Predecessors(i) == {e[1] : e \in {f \in Resolved(given) : f[2] = i}}

Successors(i) == {e[2] : e \in {f \in Resolved(given) : f[1] = i}}

Init ==
    /\ given \in GivenLinks
    /\ inDegree = [i \in Places |-> Cardinality(Predecessors(i))]
    /\ ready = {i \in Places : inDegree[i] = 0}
    /\ ordered = << >>
    /\ answer = "sorting"

\* Mutant: the heap gives out its greatest place.
PopGreatest(i) == i \in ready /\ \A j \in ready : j <= i

Pop(i) == i \in ready /\ \A j \in ready : i <= j

\* One round of the loop.
Place(i) ==
    /\ answer = "sorting"
    /\ Pop(i)
    /\ ordered' = Append(ordered, i)
    /\ inDegree' = [j \in Places |->
                       IF j \in Successors(i) THEN inDegree[j] - 1 ELSE inDegree[j]]
    /\ ready' = (ready \ {i}) \cup {j \in Successors(i) : inDegree'[j] = 0}
    /\ UNCHANGED <<given, answer>>

\* Cards that were never ready are on a loop, or behind one.
Finish ==
    /\ answer = "sorting"
    /\ ready = {}
    /\ answer' = IF Len(ordered) = N THEN "ordered" ELSE "cycle"
    /\ UNCHANGED <<given, inDegree, ready, ordered>>

Unplaced == {i \in Places : inDegree[i] > 0}

Next == (\E i \in Places : Place(i)) \/ Finish

Spec == Init /\ [][Next]_vars

\* The function runs to its end.
FairSpec == Spec /\ WF_vars(Next)

----------------------------------------------------------------------------

\* The sort's in-degrees, ready set and order range over the places of the cards
\* it was given, and it never orders more cards than there are.
TypeOK ==
    /\ given \subseteq (0 .. N) \X (0 .. N)
    /\ inDegree \in [Places -> 0 .. N]
    /\ ready \subseteq Places
    /\ ordered \in Seq(Places)
    /\ Len(ordered) <= N
    /\ answer \in {"sorting", "ordered", "cycle"}

Orders == {o \in [Places -> Places] : \A i, j \in Places : o[i] = o[j] => i = j}

\* Every card comes after all of its predecessors.
Satisfies(o) ==
    \A e \in Resolved(given) : \E i, j \in Places : i < j /\ o[i] = e[1] /\ o[j] = e[2]

\* o comes before q, place by place from the top.
Before(o, q) == \E i \in Places : o[i] < q[i] /\ \A j \in 1 .. i - 1 : o[j] = q[j]

\* The order returned satisfies the links and is, of all that do, "the one
\* that is lexicographically smallest by current position"; so a column that
\* satisfies its links already comes back unchanged.
SmallestOrder ==
    answer = "ordered" =>
        /\ ordered \in Orders
        /\ Satisfies(ordered)
        /\ \A o \in Orders : Satisfies(o) => o = ordered \/ Before(ordered, o)

\* The cards on a loop or behind one: some card of the set precedes each.
Stuck(S) == \A i \in S : Predecessors(i) \cap S # {}

\* The error is given exactly when no order satisfies the links, and names
\* "every card that is on, or downstream of, the loop".
CycleNamed ==
    answer = "cycle" =>
        /\ \A o \in Orders : ~Satisfies(o)
        /\ Unplaced = UNION {S \in SUBSET Places : Stuck(S)}

============================================================================
