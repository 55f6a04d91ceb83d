---------------------------- MODULE MCCardLinks ----------------------------
(* CardLinks on small boards: a, b and c on one board, d on another.       *)
EXTENDS CardLinks, TLC

CONSTANTS a, b, c, d, home, elsewhere, p1, p2

MCHome == [x \in Cards |-> IF x = d THEN elsewhere ELSE home]

HandlerSymmetry == Permutations(Procs)

\* What a handler still holds: a create its pair and the links it read, a
\* delete its list.  The rest are locals of finished requests.
Holding(p) ==
    IF pc[p] = "idle" THEN {}
    ELSE IF op[p] = "create" THEN {<<card[p], pair[p], seen[p]>>}
    ELSE {<<op[p], card[p], todo[p]>>}

LiveState == <<store, locks, pc, issued, [p \in Procs |-> Holding(p)]>>
============================================================================
