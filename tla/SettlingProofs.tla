--------------------------- MODULE SettlingProofs ---------------------------
(***************************************************************************)
(* The machines of MCSettling keep their promises side by side.  First two *)
(* of them alone: the sort by links is right for columns of any length and *)
(* any links, and so is the breadth-first search.  Then the composition:   *)
(* each step is one machine's, and the others' variables stay off, so the  *)
(* invariant of a machine is the one of its own proofs.                    *)
(***************************************************************************)
EXTENDS MCSettling, FiniteSetTheorems, TLAPS

----------------------------------------------------------------------------
(* DependencyOrder: what it returns satisfies the links and is the smallest*)
(* that does, and it gives an error just when no order does, naming the    *)
(* cards on or behind a loop.                                              *)

\* The cards placed so far.
Placed == {ordered[k] : k \in 1 .. Len(ordered)}

StateType ==
    /\ given \in SUBSET ((0 .. N) \X (0 .. N))
    /\ inDegree \in [Places -> Nat]
    /\ ready \subseteq Places
    /\ ordered \in Seq(Places)
    /\ Len(ordered) <= N
    /\ answer \in {"sorting", "ordered", "cycle"}

\* A card is placed once, after all its predecessors.
Once == \A k, m \in 1 .. Len(ordered) : ordered[k] = ordered[m] => k = m
AfterPredecessors ==
    \A k \in 1 .. Len(ordered) : \A h \in Predecessors(ordered[k]) :
        \E m \in 1 .. k - 1 : ordered[m] = h

\* An in-degree counts the predecessors yet to be placed, and the heap has the cards without
\* one.
Counted == \A i \in Places : inDegree[i] = Cardinality(Predecessors(i) \ Placed)
HeapReady == ready = {i \in Places \ Placed : Predecessors(i) \subseteq Placed}

\* An order that satisfies the links begins like the one under way, or is later at the first
\* place where they differ.
Begins(o) == \A k \in 1 .. Len(ordered) : o[k] = ordered[k]
Later(o) == \E k \in 1 .. Len(ordered) :
                ordered[k] < o[k] /\ \A m \in 1 .. k - 1 : ordered[m] = o[m]
Smallest == \A o \in Orders : Satisfies(o) => Begins(o) \/ Later(o)

\* The loop ends when nothing is ready.
Ended ==
    answer # "sorting" => ready = {} /\ (answer = "ordered" <=> Len(ordered) = N)

SortInv ==
    /\ StateType
    /\ Once
    /\ AfterPredecessors
    /\ Counted
    /\ HeapReady
    /\ Smallest
    /\ Ended

----------------------------------------------------------------------------
(* Places, links and numbers.                                              *)

\* A set of numbers that is not empty has a least one.
LEMMA HasLeast ==
    ASSUME NEW T \in SUBSET Nat, T # {}
    PROVE  \E x \in T : \A y \in T : x <= y
<1>1. \E x \in T : \A y \in T : ~ (<<y, x>> \in OpToRel(<, Nat))
  BY NatLessThanWellFounded, WFMin, Zenon
<1>2. \E x \in T : \A y \in T : ~ (y < x)
  BY <1>1, Zenon DEF OpToRel
<1>3. QED BY <1>2, SMT

\* A predecessor is another card of the column; a successor's predecessors have the card.
LEMMA LinksJoinPlaces ==
    ASSUME NEW i \in Places
    PROVE  /\ Predecessors(i) \subseteq Places \ {i}
           /\ \A h : h \in Predecessors(i) <=> <<h, i>> \in Resolved(given)
           /\ \A j \in Places : j \in Successors(i) <=> i \in Predecessors(j)
           /\ Successors(i) \subseteq Places
<1>1. \A e \in Resolved(given) : e = <<e[1], e[2]>> /\ e[1] \in Places /\ e[2] \in Places
                                 /\ e[1] # e[2]
  BY DEF Resolved
<1>2. \A j : \A h : h \in Predecessors(j) <=> <<h, j>> \in Resolved(given)
  BY <1>1 DEF Predecessors
<1>3. \A j : j \in Successors(i) <=> <<i, j>> \in Resolved(given)
  BY <1>1 DEF Successors
<1>4. \A h, j : <<h, j>> \in Resolved(given) => h \in Places /\ j \in Places /\ h # j
  BY DEF Resolved
<1>5. QED BY <1>2, <1>3, <1>4

LEMMA PlacesFinite ==
    ASSUME ConstantsOK
    PROVE  /\ IsFiniteSet(Places)
           /\ Cardinality(Places) = N
           /\ \A S \in SUBSET Places : IsFiniteSet(S) /\ Cardinality(S) \in Nat
                                       /\ Cardinality(S) <= N
                                       /\ (Cardinality(S) = 0 <=> S = {})
<1>1. IsFiniteSet(Places) /\ Cardinality(Places) = N
  BY FS_Interval DEF Places, ConstantsOK
<1>2. ASSUME NEW S \in SUBSET Places
      PROVE  IsFiniteSet(S) /\ Cardinality(S) \in Nat /\ Cardinality(S) <= N
             /\ (Cardinality(S) = 0 <=> S = {})
  BY <1>1, FS_Subset, FS_CardinalityType, FS_EmptySet
<1>3. QED BY <1>1, <1>2

\* In an order that satisfies the links, a card's predecessors come before it.
LEMMA PredecessorsEarlier ==
    ASSUME NEW o \in Orders, Satisfies(o), NEW k \in Places, NEW h \in Predecessors(o[k])
    PROVE  \E m \in 1 .. k - 1 : o[m] = h
<1>1. o[k] \in Places
  BY DEF Orders
<1>2. <<h, o[k]>> \in Resolved(given)
  BY <1>1, LinksJoinPlaces
<1>3. PICK i, j \in Places : i < j /\ o[i] = h /\ o[j] = o[k]
  BY <1>2 DEF Satisfies
<1>4. j = k
  BY <1>3 DEF Orders
<1>5. QED BY <1>3, <1>4 DEF Places

\* An order that gives no place twice has every card.
LEMMA EveryPlaceTaken ==
    ASSUME ConstantsOK, NEW o \in Orders, NEW i \in Places
    PROVE  \E k \in Places : o[k] = i
<1>1. o \in Injection(Places, Places)
  BY DEF Orders, Injection, IsInjective
<1>2. o \in Surjection(Places, Places)
  BY <1>1, PlacesFinite, FS_Injection
<1>3. QED BY <1>2 DEF Surjection

----------------------------------------------------------------------------
(* The invariant.                                                          *)

LEMMA InitSort == ConstantsOK /\ Init => SortInv
<1> SUFFICES ASSUME ConstantsOK, Init PROVE SortInv
  OBVIOUS
<1>1. ordered = << >> /\ Len(ordered) = 0 /\ 1 .. Len(ordered) = {} /\ Placed = {}
  BY DEF Init, Placed
<1>2. \A i \in Places : Predecessors(i) \in SUBSET Places
  BY LinksJoinPlaces
<1>3. \A i \in Places : /\ inDegree[i] = Cardinality(Predecessors(i))
                        /\ inDegree[i] \in Nat
                        /\ inDegree[i] = 0 <=> Predecessors(i) = {}
  BY <1>2, PlacesFinite DEF Init
<1>4. StateType
  BY <1>1, <1>3 DEF StateType, Init, ConstantsOK
<1>5. Counted /\ HeapReady
  BY <1>1, <1>3 DEF Counted, HeapReady, Init
<1>6. Once /\ AfterPredecessors /\ Smallest /\ Ended
  BY <1>1 DEF Once, AfterPredecessors, Smallest, Begins, Ended, Init
<1>7. QED BY <1>4, <1>5, <1>6 DEF SortInv

\* What one round does to the order: the card, which was ready, is its last.
LEMMA RoundAppends ==
    ASSUME ConstantsOK, SortInv, NEW i \in Places, Place(i)
    PROVE  /\ i \notin Placed /\ Predecessors(i) \subseteq Placed
           /\ given' = given /\ answer = "sorting" /\ answer' = answer
           /\ Len(ordered') = Len(ordered) + 1
           /\ ordered'[Len(ordered) + 1] = i
           /\ \A k \in 1 .. Len(ordered) : ordered'[k] = ordered[k]
           /\ Len(ordered') <= N
           /\ Placed' = Placed \cup {i}
           /\ Once'
<1>1. i \notin Placed /\ Predecessors(i) \subseteq Placed
  BY DEF Place, Pop, SortInv, HeapReady
<1>2. ordered \in Seq(Places) /\ ordered' = Append(ordered, i)
  BY DEF Place, SortInv, StateType
<1>3. /\ Len(ordered) \in Nat /\ Len(ordered') = Len(ordered) + 1
      /\ ordered'[Len(ordered) + 1] = i
      /\ \A k \in 1 .. Len(ordered) : ordered'[k] = ordered[k]
      /\ \A k \in 1 .. Len(ordered) + 1 : ordered'[k] \in Places
  BY <1>2
<1>4. Placed' = Placed \cup {i}
  BY <1>3 DEF Placed
<1>5. Once'
  <2>1. SUFFICES ASSUME NEW k \in 1 .. Len(ordered) + 1, NEW m \in 1 .. Len(ordered) + 1,
                        ordered'[k] = ordered'[m]
                 PROVE  k = m
    BY <1>3 DEF Once
  <2>2. \A n \in 1 .. Len(ordered) : ordered[n] # i
    BY <1>1 DEF Placed
  <2>3. CASE k \in 1 .. Len(ordered) /\ m \in 1 .. Len(ordered)
    BY <1>3, <2>1, <2>3 DEF SortInv, Once
  <2>4. QED BY <1>3, <2>1, <2>2, <2>3
\* Different places hold different cards, so there are no more of them than cards.
<1>6. Len(ordered') <= N
  <2> DEFINE n == Len(ordered')
  <2>1. n \in Nat /\ IsFiniteSet(1 .. n) /\ Cardinality(1 .. n) = n
    BY <1>3, FS_Interval
  <2>2. IsFiniteSet(Places) /\ Cardinality(Places) = N /\ N \in Nat
    BY PlacesFinite DEF ConstantsOK
  <2>3. SUFFICES ASSUME N < n PROVE FALSE
    BY <2>1, <2>2
  <2> DEFINE f == [k \in 1 .. n |-> ordered'[k]]
  <2>4. f \in [1 .. n -> Places] /\ \A k \in 1 .. n : f[k] = ordered'[k]
    BY <1>3
  <2>5. \E k, m \in 1 .. n : k # m /\ f[k] = f[m]
    <3> HIDE DEF n, f
    <3> QED BY <2>1, <2>2, <2>3, <2>4, FS_PigeonHole
  <2>6. QED BY <1>5, <2>4, <2>5 DEF Once
<1>7. QED BY <1>1, <1>3, <1>4, <1>5, <1>6 DEF Place

\* The in-degrees and the heap after a round.
LEMMA RoundCounts ==
    ASSUME ConstantsOK, SortInv, NEW i \in Places, Place(i)
    PROVE  /\ inDegree' \in [Places -> Nat] /\ ready' \subseteq Places
           /\ Counted' /\ HeapReady'
<1>1. /\ i \notin Placed /\ Predecessors(i) \subseteq Placed /\ given' = given
      /\ Placed' = Placed \cup {i}
  BY RoundAppends
<1>2. \A j : Predecessors(j)' = Predecessors(j)
  BY <1>1 DEF Predecessors, Resolved
<1>3. \A j \in Places : /\ Predecessors(j) \subseteq Places \ {j}
                        /\ j \in Successors(i) <=> i \in Predecessors(j)
  BY LinksJoinPlaces
<1>4. Successors(i) \subseteq Places
  BY LinksJoinPlaces
<1>5. ASSUME NEW j \in Places
      PROVE  /\ inDegree'[j] = Cardinality(Predecessors(j) \ Placed')
             /\ inDegree'[j] \in Nat
             /\ inDegree'[j] = 0 <=> Predecessors(j) \subseteq Placed'
  <2> DEFINE Rest == Predecessors(j) \ Placed
  <2>1. Rest \in SUBSET Places /\ Predecessors(j) \ Placed' = Rest \ {i}
    BY <1>1, <1>3
  <2>2. IsFiniteSet(Rest) /\ IsFiniteSet(Rest \ {i}) /\ Cardinality(Rest \ {i}) \in Nat
        /\ (Cardinality(Rest \ {i}) = 0 <=> Rest \ {i} = {})
    BY <2>1, PlacesFinite
  <2>3. Cardinality(Rest \ {i}) = IF i \in Rest THEN Cardinality(Rest) - 1
                                                ELSE Cardinality(Rest)
    BY <2>2, FS_RemoveElement
  <2>4. inDegree[j] = Cardinality(Rest) /\ inDegree \in [Places -> Nat]
    BY DEF SortInv, Counted, StateType
  <2>5. inDegree'[j] = IF j \in Successors(i) THEN inDegree[j] - 1 ELSE inDegree[j]
    BY DEF Place
  <2>6. j \in Successors(i) <=> i \in Rest
    BY <1>1, <1>3
  <2>7. inDegree'[j] = Cardinality(Rest \ {i})
    BY <2>3, <2>4, <2>5, <2>6
  <2>8. Rest \ {i} = {} <=> Predecessors(j) \subseteq Placed'
    BY <1>1
  <2>9. QED BY <2>1, <2>2, <2>7, <2>8
<1>6. inDegree' \in [Places -> Nat]
  BY <1>5 DEF Place
<1>7. Counted'
  BY <1>2, <1>5 DEF Counted, Places
<1>8. ready' = {j \in Places \ Placed' : Predecessors(j) \subseteq Placed'}
  <2>1. ready' = (ready \ {i}) \cup {j \in Successors(i) : Predecessors(j) \subseteq Placed'}
    BY <1>4, <1>5 DEF Place
  <2>2. ready = {j \in Places \ Placed : Predecessors(j) \subseteq Placed}
    BY DEF SortInv, HeapReady
  \* A successor of the card was not placed before it, and is another card.
  <2>3. ASSUME NEW j \in Successors(i) PROVE j \in Places \ Placed'
    <3>1. j \in Places /\ i \in Predecessors(j) /\ j # i
      BY <1>3, <1>4
    <3>2. SUFFICES ASSUME j \in Placed PROVE FALSE
      BY <1>1, <3>1
    <3>3. PICK k \in 1 .. Len(ordered) : ordered[k] = j
      BY <3>2 DEF Placed
    <3>4. PICK m \in 1 .. k - 1 : ordered[m] = i
      BY <3>1, <3>3 DEF SortInv, AfterPredecessors
    <3>5. Len(ordered) \in Nat
      BY DEF SortInv, StateType
    <3>6. i \in Placed
      BY <3>4, <3>5 DEF Placed
    <3>7. QED BY <1>1, <3>6
  <2>4. ASSUME NEW j \in ready, j # i
        PROVE  j \in Places \ Placed' /\ Predecessors(j) \subseteq Placed'
    BY <1>1, <2>2, <2>4
  <2>5. ASSUME NEW j \in Places \ Placed', Predecessors(j) \subseteq Placed', j \notin Successors(i)
        PROVE  j \in ready \ {i}
    BY <1>1, <1>3, <2>2, <2>5
  <2>6. QED BY <2>1, <2>3, <2>4, <2>5
<1>9. HeapReady'
  BY <1>2, <1>8 DEF HeapReady, Places
<1>10. ready' \subseteq Places
  BY <1>8
<1>11. QED BY <1>6, <1>7, <1>9, <1>10

\* An order that satisfies the links and begins like the one under way has a ready card next,
\* and none is smaller than the one the heap gives out.
LEMMA RoundSmallest ==
    ASSUME ConstantsOK, SortInv, NEW i \in Places, Place(i)
    PROVE  Smallest'
<1> DEFINE n == Len(ordered)
<1>1. /\ given' = given /\ Len(ordered') = n + 1 /\ ordered'[n + 1] = i
      /\ \A k \in 1 .. n : ordered'[k] = ordered[k]
      /\ n + 1 <= N
  BY RoundAppends
<1>2. n \in Nat /\ N \in Nat /\ \A k \in 1 .. n : ordered[k] \in Places
  BY DEF SortInv, StateType, ConstantsOK
<1> HIDE DEF n
<1>3. SUFFICES ASSUME NEW o \in Orders, Satisfies(o), ~Later(o)'
               PROVE  Begins(o)'
  <2>1. \A o : Satisfies(o)' <=> Satisfies(o)
    BY <1>1 DEF Satisfies, Resolved
  <2>2. Orders' = Orders
    BY DEF Orders, Places
  <2>3. QED BY <2>1, <2>2 DEF Smallest
<1>4. o \in [Places -> Places] /\ \A k, m \in Places : o[k] = o[m] => k = m
  BY DEF Orders
<1>5. ~Later(o)
  <2>1. SUFFICES ASSUME NEW k \in 1 .. n, ordered[k] < o[k],
                        \A m \in 1 .. k - 1 : ordered[m] = o[m]
                 PROVE  FALSE
    BY DEF Later, n
  <2>2. k \in 1 .. n + 1 /\ ordered'[k] = ordered[k]
        /\ \A m \in 1 .. k - 1 : ordered'[m] = ordered[m]
    BY <1>1, <1>2
  <2>3. QED BY <1>1, <1>3, <2>1, <2>2 DEF Later
<1>6. \A k \in 1 .. n : o[k] = ordered[k]
  BY <1>3, <1>5 DEF SortInv, Smallest, Begins, n
<1>7. n + 1 \in Places
  BY <1>1, <1>2 DEF Places
<1>8. o[n + 1] \in ready
  <2>1. o[n + 1] \in Places
    BY <1>4, <1>7
  <2>2. o[n + 1] \notin Placed
    BY <1>2, <1>4, <1>6, <1>7 DEF Placed, Places, n
  <2>3. ASSUME NEW h \in Predecessors(o[n + 1]) PROVE h \in Placed
    <3>1. PICK m \in 1 .. (n + 1) - 1 : o[m] = h
      BY <1>3, <1>7, PredecessorsEarlier
    <3>2. m \in 1 .. n /\ ordered[m] = h
      BY <1>2, <1>6, <3>1
    <3>3. QED BY <3>2 DEF Placed, n
  <2>4. QED BY <2>1, <2>2, <2>3 DEF SortInv, HeapReady
<1>9. i <= o[n + 1] /\ o[n + 1] \in Nat
  BY <1>4, <1>7, <1>8 DEF Place, Pop, Places
<1>10. ~(i < o[n + 1])
  <2>1. \A m \in 1 .. (n + 1) - 1 : ordered'[m] = o[m]
    BY <1>1, <1>2, <1>6
  <2>2. n + 1 \in 1 .. n + 1
    BY <1>2
  <2>3. QED BY <1>1, <1>3, <2>1, <2>2 DEF Later
<1>11. o[n + 1] = i
  BY <1>9, <1>10 DEF Places
<1>12. QED BY <1>1, <1>2, <1>6, <1>11 DEF Begins

LEMMA PlaceKeepsSort ==
    ASSUME ConstantsOK, SortInv, NEW i \in Places, Place(i)
    PROVE  SortInv'
<1> DEFINE n == Len(ordered)
<1>1. /\ Predecessors(i) \subseteq Placed
      /\ given' = given /\ answer = "sorting" /\ answer' = answer
      /\ Len(ordered') = n + 1 /\ ordered'[n + 1] = i
      /\ \A k \in 1 .. n : ordered'[k] = ordered[k]
      /\ Len(ordered') <= N /\ Once'
  BY RoundAppends
<1>2. StateType'
  <2>1. ordered' \in Seq(Places)
    BY DEF Place, SortInv, StateType
  <2>2. inDegree' \in [Places -> Nat] /\ ready' \subseteq Places
    BY RoundCounts
  <2>3. QED BY <1>1, <2>1, <2>2 DEF SortInv, StateType, Places
<1>3. AfterPredecessors'
  <2>1. SUFFICES ASSUME NEW k \in 1 .. n + 1, NEW h \in Predecessors(ordered'[k])
                 PROVE  \E m \in 1 .. k - 1 : ordered'[m] = h
    BY <1>1 DEF AfterPredecessors, Predecessors, Resolved
  <2>2. n \in Nat
    BY DEF SortInv, StateType
  <2>3. CASE k = n + 1
    <3>1. PICK m \in 1 .. n : ordered[m] = h
      BY <1>1, <2>1, <2>3 DEF Placed
    <3>2. QED BY <1>1, <2>2, <2>3, <3>1
  <2>4. CASE k \in 1 .. n
    <3>1. PICK m \in 1 .. k - 1 : ordered[m] = h
      BY <1>1, <2>1, <2>4 DEF SortInv, AfterPredecessors
    <3>2. QED BY <1>1, <2>2, <2>4, <3>1
  <2>5. QED BY <2>2, <2>3, <2>4
<1>4. Ended'
  BY <1>1 DEF Ended
<1>5. QED BY <1>1, <1>2, <1>3, <1>4, RoundCounts, RoundSmallest DEF SortInv

LEMMA NextSorts ==
    ASSUME ConstantsOK, SortInv, [Next]_vars
    PROVE  SortInv'
<1>1. ASSUME UNCHANGED <<given, inDegree, ready, ordered>>, Ended', answer' \in {"sorting", "ordered", "cycle"}
      PROVE  SortInv'
  <2>1. Placed' = Placed /\ (\A i : Predecessors(i)' = Predecessors(i))
        /\ (\A o : Satisfies(o)' <=> Satisfies(o)) /\ Orders' = Orders
    BY <1>1 DEF Placed, Predecessors, Satisfies, Resolved, Orders, Places
  <2>2. (\A o : Begins(o)' <=> Begins(o)) /\ (\A o : Later(o)' <=> Later(o))
    BY <1>1 DEF Begins, Later
  <2>3. Smallest'
    BY <2>1, <2>2 DEF SortInv, Smallest
  <2>4. StateType' /\ Once' /\ AfterPredecessors'
    <3>1. StateType'
      BY <1>1 DEF SortInv, StateType, Places
    <3>2. Once'
      BY <1>1 DEF SortInv, Once
    <3>3. AfterPredecessors'
      BY <1>1, <2>1 DEF SortInv, AfterPredecessors
    <3>4. QED BY <3>1, <3>2, <3>3
  <2>5. Counted' /\ HeapReady'
    <3>1. Counted'
      BY <1>1, <2>1 DEF SortInv, Counted, Places
    <3>2. HeapReady'
      BY <1>1, <2>1 DEF SortInv, HeapReady, Places
    <3>3. QED BY <3>1, <3>2
  <2>6. QED BY <1>1, <2>3, <2>4, <2>5 DEF SortInv
<1>2. CASE Finish
  <2>1. UNCHANGED <<given, inDegree, ready, ordered>>
        /\ answer' \in {"sorting", "ordered", "cycle"} /\ Ended'
    BY <1>2 DEF Finish, Ended
  <2>2. QED BY <1>1, <2>1
<1>3. CASE UNCHANGED vars
  BY <1>1, <1>3 DEF vars, SortInv, Ended, StateType
<1>4. QED BY <1>2, <1>3, PlaceKeepsSort DEF Next

----------------------------------------------------------------------------
(* What the invariant says of the answer.                                  *)

LEMMA SortTyped ==
    ASSUME ConstantsOK, SortInv
    PROVE  TypeOK
<1>1. N \in Nat
  BY DEF ConstantsOK
<1>2. ASSUME NEW i \in Places PROVE inDegree[i] \in 0 .. N
  <2>1. Predecessors(i) \ Placed \in SUBSET Places
    BY LinksJoinPlaces
  <2>2. inDegree[i] \in Nat /\ inDegree[i] = Cardinality(Predecessors(i) \ Placed)
    BY DEF SortInv, Counted, StateType
  <2>3. inDegree[i] <= N
    BY <2>1, <2>2, PlacesFinite
  <2>4. QED BY <1>1, <2>2, <2>3
<1>3. QED BY <1>2 DEF TypeOK, SortInv, StateType

\* Once all cards are placed, beginning like the order is being it.
LEMMA OrderedIsSmallest ==
    ASSUME ConstantsOK, SortInv
    PROVE  SmallestOrder
<1> SUFFICES ASSUME answer = "ordered" PROVE SmallestOrder
  BY DEF SmallestOrder
<1>1. Len(ordered) = N /\ N \in Nat /\ ordered \in Seq(Places)
  BY DEF SortInv, Ended, StateType, ConstantsOK
<1>2. ordered \in [Places -> Places]
  BY <1>1 DEF Places
<1>3. ordered \in Orders
  BY <1>1, <1>2 DEF SortInv, Once, Orders, Places
<1>4. Satisfies(ordered)
  <2>1. SUFFICES ASSUME NEW e \in Resolved(given)
                 PROVE  \E i, j \in Places : i < j /\ ordered[i] = e[1] /\ ordered[j] = e[2]
    BY DEF Satisfies
  <2>2. e = <<e[1], e[2]>> /\ e[2] \in Places
    BY DEF Resolved
  <2>3. e[1] \in Predecessors(e[2])
    BY <2>2, LinksJoinPlaces
  <2>4. PICK j \in Places : ordered[j] = e[2]
    BY <2>2, <1>3, EveryPlaceTaken
  <2>5. PICK i \in 1 .. j - 1 : ordered[i] = e[1]
    BY <1>1, <2>3, <2>4 DEF SortInv, AfterPredecessors, Places
  <2>6. QED BY <1>1, <2>4, <2>5 DEF Places
<1>5. ASSUME NEW o \in Orders, Satisfies(o) PROVE o = ordered \/ Before(ordered, o)
  <2>1. CASE Begins(o)
    BY <1>1, <1>2, <1>5, <2>1 DEF Begins, Orders, Places
  <2>2. CASE Later(o)
    BY <1>1, <2>2 DEF Later, Before, Places
  <2>3. QED BY <1>5, <2>1, <2>2 DEF SortInv, Smallest
<1>6. QED BY <1>3, <1>4, <1>5 DEF SmallestOrder

\* A set each of whose cards has a predecessor in it has no card that was placed: the first
\* one placed would come after another.
LEMMA StuckUnplaced ==
    ASSUME ConstantsOK, SortInv, NEW S \in SUBSET Places, Stuck(S)
    PROVE  S \cap Placed = {}
<1> DEFINE T == {k \in 1 .. Len(ordered) : ordered[k] \in S}
<1>1. Len(ordered) \in Nat /\ T \in SUBSET Nat
  BY DEF SortInv, StateType
<1>2. SUFFICES ASSUME T # {} PROVE FALSE
  BY DEF Placed
<1>3. PICK k \in T : \A m \in T : k <= m
  BY <1>1, <1>2, HasLeast
<1>4. PICK h \in S : h \in Predecessors(ordered[k])
  BY <1>3 DEF Stuck
<1>5. PICK m \in 1 .. k - 1 : ordered[m] = h
  BY <1>3, <1>4 DEF SortInv, AfterPredecessors
<1>6. m \in T /\ m < k
  BY <1>1, <1>3, <1>4, <1>5
<1>7. QED BY <1>1, <1>3, <1>6

\* The error names the cards on or behind a loop, and then no order satisfies the links: one
\* of the cards named would be the first of them in it.
LEMMA CycleIsNamed ==
    ASSUME ConstantsOK, SortInv
    PROVE  CycleNamed
<1> SUFFICES ASSUME answer = "cycle" PROVE CycleNamed
  BY DEF CycleNamed
<1> DEFINE Left == Places \ Placed
<1>1. /\ ready = {} /\ Len(ordered) # N /\ Len(ordered) <= N
      /\ Len(ordered) \in Nat /\ N \in Nat /\ ordered \in Seq(Places)
  BY DEF SortInv, Ended, StateType, ConstantsOK
<1>2. \A i \in Places : Predecessors(i) \subseteq Places \ {i}
  BY LinksJoinPlaces
<1>3. \A i \in Left : ~(Predecessors(i) \subseteq Placed)
  BY <1>1 DEF SortInv, HeapReady
<1>4. Stuck(Left)
  BY <1>2, <1>3 DEF Stuck
<1>5. Unplaced = Left
  <2>1. ASSUME NEW i \in Places
        PROVE  inDegree[i] > 0 <=> ~(Predecessors(i) \subseteq Placed)
    <3>1. Predecessors(i) \ Placed \in SUBSET Places
      BY <1>2
    <3>2. inDegree[i] = Cardinality(Predecessors(i) \ Placed)
      BY DEF SortInv, Counted
    <3>3. inDegree[i] \in Nat /\ (inDegree[i] = 0 <=> Predecessors(i) \ Placed = {})
      BY <3>1, <3>2, PlacesFinite
    <3>4. QED BY <3>3
  <2>2. ASSUME NEW i \in Placed PROVE i \in Places /\ Predecessors(i) \subseteq Placed
    <3>1. PICK k \in 1 .. Len(ordered) : ordered[k] = i
      BY DEF Placed
    <3>2. ASSUME NEW h \in Predecessors(i) PROVE h \in Placed
      <4>1. PICK m \in 1 .. k - 1 : ordered[m] = h
        BY <3>1, <3>2 DEF SortInv, AfterPredecessors
      <4>2. QED BY <1>1, <4>1 DEF Placed
    <3>3. QED BY <1>1, <3>1, <3>2
  <2>3. QED BY <1>3, <2>1, <2>2 DEF Unplaced
<1>6. Unplaced = UNION {S \in SUBSET Places : Stuck(S)}
  BY <1>4, <1>5, StuckUnplaced
<1>7. Left # {}
  <2>1. SUFFICES ASSUME Places \subseteq Placed PROVE FALSE
    OBVIOUS
  <2> DEFINE f == [k \in 1 .. Len(ordered) |-> ordered[k]]
  <2>2. f \in Surjection(1 .. Len(ordered), Places)
    <3>1. f \in [1 .. Len(ordered) -> Places]
      BY <1>1
    <3>2. ASSUME NEW i \in Places PROVE \E k \in 1 .. Len(ordered) : f[k] = i
      BY <2>1 DEF Placed
    <3>3. QED BY <3>1, <3>2 DEF Surjection
  <2>3. N <= Len(ordered)
    BY <1>1, <2>2, FS_SurjCardinalityBound, PlacesFinite DEF ExistsSurjection
  <2>4. QED BY <1>1, <2>3
<1>8. ASSUME NEW o \in Orders, Satisfies(o) PROVE FALSE
  <2> DEFINE T == {k \in Places : o[k] \in Left}
  <2>1. T \in SUBSET Nat /\ T # {}
    BY <1>7, <1>8, EveryPlaceTaken DEF Places
  <2>2. PICK k \in T : \A m \in T : k <= m
    BY <2>1, HasLeast
  <2>3. PICK h \in Left : h \in Predecessors(o[k])
    BY <1>4, <2>2 DEF Stuck
  <2>4. PICK m \in 1 .. k - 1 : o[m] = h
    BY <1>8, <2>2, <2>3, PredecessorsEarlier
  <2>5. m \in T /\ m < k
    BY <1>1, <2>2, <2>3, <2>4 DEF Places
  <2>6. QED BY <2>1, <2>2, <2>5
<1>9. QED BY <1>6, <1>8 DEF CycleNamed

\* For a column of any length and any links, what the sort returns satisfies the links and is
\* the smallest order by current position that does; it gives the error just when there is
\* none, and names the cards on a loop or behind one (shared links.rs order_by_dependency).
THEOREM OrderCorrect ==
    ASSUME ConstantsOK
    PROVE  Spec => [](TypeOK /\ SmallestOrder /\ CycleNamed)
<1>1. Init => SortInv
  BY InitSort
<1>2. SortInv /\ [Next]_vars => SortInv'
  BY NextSorts
<1>3. SortInv => TypeOK /\ SmallestOrder /\ CycleNamed
  BY SortTyped, OrderedIsSmallest, CycleIsNamed
<1>4. QED BY <1>1, <1>2, <1>3, PTL DEF Spec

----------------------------------------------------------------------------
(* CycleSearch: what is visited follows from the successor, and what was   *)
(* taken out of the queue has its followers visited.                       *)

LEMMA InitSearch == Search!Init => Search!SearchInv
<1> SUFFICES ASSUME Search!Init PROVE Search!SearchInv
  OBVIOUS
<1>1. Search!Reaches(edges, successor, successor)
  BY DEF Search!Reaches
<1>2. Search!TypeOK
  BY SearchAssumption DEF Search!ConstantsOK, Search!Init, Search!TypeOK
<1>3. QED BY <1>1, <1>2 DEF Search!Init, Search!SearchInv, Search!AnswerRight

LEMMA VisitKeepsSearchInv ==
    ASSUME Search!SearchInv, NEW c \in Cards, Search!Visit(c)
    PROVE  Search!SearchInv'
<1> USE DEF Search!SearchInv
<1>1. /\ UNCHANGED <<edges, predecessor, successor>>
      /\ c \in queue /\ c \in visited /\ searchAnswer = "searching"
  BY DEF Search!Visit, Search!arguments, Search!TypeOK
<1>2. CASE c = predecessor
  <2>1. searchAnswer' = "loop" /\ UNCHANGED <<queue, visited>>
    BY <1>2 DEF Search!Visit
  <2>2. Search!Reaches(edges, successor, predecessor)
    BY <1>1, <1>2
  <2>3. QED BY <1>1, <2>1, <2>2
            DEF Search!TypeOK, Search!AnswerRight, Search!Reaches, Search!Closed
<1>3. CASE c # predecessor
  <2>1. /\ queue' = (queue \ {c}) \cup (Search!NextOf(c) \ visited)
        /\ visited' = visited \cup Search!NextOf(c)
        /\ searchAnswer' = searchAnswer
    BY <1>3 DEF Search!Visit
  <2>2. \A d \in Search!NextOf(c) : <<c, d>> \in edges /\ d \in Cards
    BY DEF Search!NextOf, Search!TypeOK
  <2>3. \A d \in visited' : Search!Reaches(edges, successor, d)
    <3>1. SUFFICES ASSUME NEW d \in Search!NextOf(c) PROVE Search!Reaches(edges, successor, d)
      BY <2>1
    <3>2. PICK e \in edges : e = <<c, d>>
      BY <2>2
    <3>3. Search!Reaches(edges, successor, e[1])
      BY <1>1, <3>2
    <3>4. QED BY <3>2, <3>3 DEF Search!Reaches, Search!Closed
  <2>4. \A e \in edges : e[1] = c => e[2] \in Search!NextOf(c)
    BY DEF Search!NextOf
  <2>5. visited' \ queue' = (visited \ queue) \cup {c}
    BY <1>1, <2>1 DEF Search!TypeOK
  <2>6. Search!TypeOK'
    BY <1>1, <2>1, <2>2 DEF Search!TypeOK
  <2>7. Search!AnswerRight'
    BY <1>1, <2>1 DEF Search!AnswerRight
  <2>8. \A e \in edges : e[1] \in visited' \ queue' => e[2] \in visited'
    BY <2>1, <2>4, <2>5
  <2>9. QED BY <1>1, <1>3, <2>1, <2>3, <2>5, <2>6, <2>7, <2>8
            DEF Search!Reaches, Search!Closed
<1>4. QED BY <1>2, <1>3

LEMMA ExhaustedKeepsSearchInv ==
    ASSUME Search!SearchInv, Search!Exhausted
    PROVE  Search!SearchInv'
<1> USE DEF Search!SearchInv
<1>1. UNCHANGED <<edges, predecessor, successor, queue, visited>>
      /\ searchAnswer = "searching" /\ searchAnswer' = "free" /\ queue = {}
  BY DEF Search!Exhausted, Search!arguments
\* Nothing left to look at: the visited cards are closed and lack the
\* predecessor.
<1>2. Search!Closed(edges, visited)
  BY <1>1 DEF Search!Closed
<1>3. ~Search!Reaches(edges, successor, predecessor)
  BY <1>1, <1>2 DEF Search!Reaches, Search!TypeOK
<1>4. QED BY <1>1, <1>3 DEF Search!TypeOK, Search!AnswerRight, Search!Reaches, Search!Closed

LEMMA NextSearches ==
    ASSUME Search!SearchInv, Search!Next \/ UNCHANGED Search!vars
    PROVE  Search!SearchInv'
<1>1. CASE UNCHANGED Search!vars
  BY <1>1 DEF Search!vars, Search!arguments, Search!SearchInv, Search!TypeOK,
              Search!AnswerRight, Search!Reaches, Search!Closed
<1>2. QED BY <1>1, VisitKeepsSearchInv, ExhaustedKeepsSearchInv DEF Search!Next

----------------------------------------------------------------------------
(* The composition.                                                        *)

ProcessPart == part = "process" => Process!ProcessInv

LEMMA ProcessStays ==
    ASSUME ProcessPart, [SettlingNext]_SettlingVars
    PROVE  ProcessPart'
<1> SUFFICES ASSUME part' = "process" PROVE Process!ProcessInv'
  BY DEF ProcessPart
<1>1. part = "process" /\ (Process!Next \/ UNCHANGED Process!processVars)
  BY DEF SettlingNext, SettlingVars, AuthRuns, ProcessRuns, GuardRuns, ExportRuns, SearchRuns,
         SortRuns, processVars, Process!processVars, Process!time, Process!signal
<1>2. QED BY <1>1, ProcessAssumption, Process!NextKeepsProcess DEF ProcessPart

\* For any timeouts that fit in the grace period, a caught signal ends the process before it
\* is killed, and no stream is open when telemetry is flushed (main.rs, listen.rs,
\* observability.rs).
THEOREM ExitsInTimeCorrect == SettlingSpec => []ExitsInTime
<1>1. SettlingInit => ProcessPart
  BY ProcessAssumption, Process!InitProcess
     DEF SettlingInit, ProcessStarts, ProcessPart
<1>2. ProcessPart => ExitsInTime
  BY ProcessAssumption, Process!ProcessKeeps
     DEF ExitsInTime, ProcessPart
<1>3. QED BY <1>1, <1>2, ProcessStays, PTL DEF SettlingSpec

ExportPart == part = "export" => Export!ExportInv

LEMMA ExportStays ==
    ASSUME ExportPart, [SettlingNext]_SettlingVars
    PROVE  ExportPart'
<1> SUFFICES ASSUME part' = "export" PROVE Export!ExportInv'
  BY DEF ExportPart
<1>1. part = "export" /\ (Export!Next \/ UNCHANGED Export!exportVars)
  BY DEF SettlingNext, SettlingVars, AuthRuns, ProcessRuns, GuardRuns, ExportRuns, SearchRuns,
         SortRuns, exportVars, Export!exportVars, Export!policy, Export!counted
<1>2. QED BY <1>1, Export!NextExport DEF ExportPart

\* Whatever the sizes, the limits and the answers: each item recorded is held, was accepted,
\* left on a flush, or is counted as dropped (telemetry/outbox.rs, exporter.rs, runtime.rs).
THEOREM EveryLossCountedCorrect == SettlingSpec => []EveryLossCounted
<1>1. SettlingInit => ExportPart
  BY Export!InitExport
     DEF SettlingInit, ExportStarts, ExportPart
<1>2. ExportPart => EveryLossCounted
  BY DEF EveryLossCounted, ExportPart, Export!ExportInv
<1>3. QED BY <1>1, <1>2, ExportStays, PTL DEF SettlingSpec

AuthPart == part = "auth" => Auth!AuthInv

LEMMA AuthStays ==
    ASSUME AuthPart, [SettlingNext]_SettlingVars
    PROVE  AuthPart'
<1> SUFFICES ASSUME part' = "auth" PROVE Auth!AuthInv'
  BY DEF AuthPart
<1>1. part = "auth" /\ (Auth!Next \/ UNCHANGED Auth!vars)
  BY DEF SettlingNext, SettlingVars, AuthRuns, ProcessRuns, GuardRuns, ExportRuns, SearchRuns,
         SortRuns, authVars, Auth!vars, Auth!provider, Auth!manager
<1>2. QED BY <1>1, AuthAssumption, Auth!NextAuth DEF AuthPart

LEMMA AuthStarted == SettlingInit => AuthPart
BY AuthAssumption, Auth!InitAuth DEF SettlingInit, AuthStarts, AuthPart

LEMMA AuthPartKeeps == AuthPart => NoReplay /\ RefusedForCause /\ LogoutHolds
BY Auth!AuthKeeps DEF AuthPart, NoReplay, RefusedForCause, LogoutHolds

\* A refresh token is sent to the provider a second time only if a memory forgot it or a logout
\* buried it since its request looked (auth/session.rs refresh_session).
THEOREM NoReplayCorrect == SettlingSpec => []NoReplay
BY AuthStarted, AuthStays, AuthPartKeeps, PTL DEF SettlingSpec

\* With no fault and nothing forgotten, requests and responses that overtake each other turn
\* nobody away whose session was not logged out (auth/session.rs).
THEOREM RefusedForCauseCorrect == SettlingSpec => []RefusedForCause
BY AuthStarted, AuthStays, AuthPartKeeps, PTL DEF SettlingSpec

\* No handler runs for a request sent after its sign-in was logged out, unless a token of the
\* sign-in was forgotten (auth/session.rs invalidate_refresh_chain, routes/auth.rs logout).
THEOREM LogoutHoldsCorrect == SettlingSpec => []LogoutHolds
BY AuthStarted, AuthStays, AuthPartKeeps, PTL DEF SettlingSpec

SearchPart == part = "search" => Search!SearchInv

LEMMA SearchStays ==
    ASSUME SearchPart, [SettlingNext]_SettlingVars
    PROVE  SearchPart'
<1> SUFFICES ASSUME part' = "search" PROVE Search!SearchInv'
  BY DEF SearchPart
<1>1. part = "search" /\ (Search!Next \/ UNCHANGED Search!vars)
  BY DEF SettlingNext, SettlingVars, AuthRuns, ProcessRuns, GuardRuns, ExportRuns, SearchRuns,
         SortRuns, searchVars, Search!vars, Search!arguments
<1>2. QED BY <1>1, NextSearches DEF SearchPart

\* The answer of would_create_cycle is Reaches, for any cards and links, loops among them
\* (shared links.rs).
THEOREM SearchCorrect == SettlingSpec => []SearchRight
<1>1. SettlingInit => SearchPart
  BY InitSearch DEF SettlingInit, SearchStarts, SearchPart
<1>2. SearchPart => SearchRight
  BY DEF SearchRight, SearchPart, Search!SearchInv
<1>3. QED BY <1>1, <1>2, SearchStays, PTL DEF SettlingSpec

SortPart == part = "sort" => SortInv

LEMMA SortStays ==
    ASSUME SortPart, [SettlingNext]_SettlingVars
    PROVE  SortPart'
<1> SUFFICES ASSUME part' = "sort" PROVE SortInv'
  BY DEF SortPart
<1>1. part = "sort" /\ [Next]_vars
  BY DEF SettlingNext, SettlingVars, AuthRuns, ProcessRuns, GuardRuns, ExportRuns, SearchRuns,
         SortRuns, sortVars
<1>2. QED BY <1>1, SortAssumption, NextSorts DEF SortPart

\* For any links, the sort returns the smallest order by current position that satisfies them,
\* and the error that names the cards on or behind a loop just when none does
\* (shared links.rs order_by_dependency).
THEOREM SortRightCorrect == SettlingSpec => []SortRight
<1>1. SettlingInit => SortPart
  BY SortAssumption, InitSort DEF SettlingInit, SortStarts, SortPart
<1>2. SortPart => SortRight
  BY SortAssumption, OrderedIsSmallest, CycleIsNamed DEF SortRight, SortPart
<1>3. QED BY <1>1, <1>2, SortStays, PTL DEF SettlingSpec
============================================================================
