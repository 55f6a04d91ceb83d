---------------------------- MODULE CycleSearch ----------------------------
(***************************************************************************)
(* would_create_cycle (shared/src/links.rs): the breadth-first search that *)
(* decides whether the link predecessor -> successor closes a loop, over   *)
(* any links at all, loops among them included.  The search answers with   *)
(* Reaches, the definition CardLinks and LinkGraph are written with.       *)
(*                                                                         *)
(* Abstracted: the queue is a set, so a card is taken out of it in any     *)
(* order; the code takes the oldest.                                       *)
(***************************************************************************)
EXTENDS LinkReach

CONSTANT GivenLinks      \* the sets of links the search is run on

\* A link joins cards.
ConstantsOK == GivenLinks \subseteq SUBSET (Cards \X Cards)

VARIABLES
    edges, predecessor, successor,   \* the arguments
    queue,                           \* cards still to look at
    visited,                         \* cards ever put into the queue
    answer                           \* "searching", then "loop" or "free"

arguments == <<edges, predecessor, successor>>
vars == <<arguments, queue, visited, answer>>

\* A link from a card to itself is a loop before anything is searched.
Init ==
    /\ edges \in GivenLinks
    /\ predecessor \in Cards
    /\ successor \in Cards
    /\ queue = {successor}
    /\ visited = {successor}
    /\ answer = IF predecessor = successor THEN "loop" ELSE "searching"

\* Mutant: links are followed from either end.
NextEitherWay(c) == {e[2] : e \in {f \in edges : f[1] = c}} \cup
                    {e[1] : e \in {f \in edges : f[2] = c}}

\* The adjacency list: the cards directly after c.
NextOf(c) == {e[2] : e \in {f \in edges : f[1] = c}}

\* Mutant: nothing remembers where the search has been.
VisitForgetful(c) ==
    /\ answer = "searching"
    /\ c \in queue
    /\ IF c = predecessor THEN answer' = "loop" /\ UNCHANGED <<queue, visited>>
       ELSE /\ queue' = (queue \ {c}) \cup NextOf(c)
            /\ UNCHANGED <<visited, answer>>
    /\ UNCHANGED arguments

\* One round of the loop: take a card, queue what follows it unless it was
\* queued before.
Visit(c) ==
    /\ answer = "searching"
    /\ c \in queue
    /\ IF c = predecessor THEN answer' = "loop" /\ UNCHANGED <<queue, visited>>
       ELSE /\ queue' = (queue \ {c}) \cup (NextOf(c) \ visited)
            /\ visited' = visited \cup NextOf(c)
            /\ UNCHANGED answer
    /\ UNCHANGED arguments

Exhausted ==
    /\ answer = "searching"
    /\ queue = {}
    /\ answer' = "free"
    /\ UNCHANGED <<arguments, queue, visited>>

Next == (\E c \in Cards : Visit(c)) \/ Exhausted

Spec == Init /\ [][Next]_vars

\* The function runs to its end.
FairSpec == Spec /\ WF_vars(Next)

----------------------------------------------------------------------------

\* The search queues only visited cards and is searching or has one of its answers.
TypeOK ==
    /\ edges \in SUBSET (Cards \X Cards)
    /\ predecessor \in Cards
    /\ successor \in Cards
    /\ queue \subseteq visited
    /\ visited \subseteq Cards
    /\ answer \in {"searching", "loop", "free"}

\* The search says "loop" of the new link exactly when the predecessor follows
\* from the successor along the links there are, on any links.
AnswerRight ==
    /\ answer = "loop" => Reaches(edges, successor, predecessor)
    /\ answer = "free" => ~Reaches(edges, successor, predecessor)

\* What the proof adds: everything visited follows from the successor, what
\* was taken out of the queue has its followers visited, and was not the
\* predecessor.
SearchInv ==
    /\ TypeOK
    /\ AnswerRight
    /\ successor \in visited
    /\ \A c \in visited : Reaches(edges, successor, c)
    /\ \A e \in edges : e[1] \in visited \ queue => e[2] \in visited
    /\ answer = "searching" => predecessor \notin visited \ queue

============================================================================
