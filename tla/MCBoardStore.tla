---------------------------- MODULE MCBoardStore ----------------------------
(* BoardStore on small boards: columns x and y at home, z elsewhere.       *)
(* Card a is in x at the start; the other cards are still to be created.   *)
EXTENDS BoardStore, TLC

CONSTANTS home, elsewhere, x, y, z, a, b, v1, v2, p1, p2

MCBoardOf == [k \in Columns |-> IF k = z THEN elsewhere ELSE home]

MCFirstCards ==
    [c \in Cards |-> IF c = a THEN [column |-> x, body |-> v1] ELSE NoRow]

HandlerSymmetry == Permutations(Procs)
============================================================================
