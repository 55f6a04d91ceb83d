-------------------------- MODULE MCCardPositions --------------------------
(* CardPositions with positions of seven bits.  The columns start as edits,  *)
(* restores and earlier moves may have left them.                          *)
EXTENDS CardPositions, TLC

CONSTANTS p1, p2, todo, done

Layout(x, y, z, third) ==
    [home |-> (1 :> todo @@ 2 :> todo @@ 3 :> third), pos |-> (1 :> x @@ 2 :> y @@ 3 :> z)]

\* Spaced, crowded, equal, below the top, at the limit of the type; and a second column.
StartLayouts ==
    {Layout(4, 8, 12, todo), Layout(4, 5, 6, todo), Layout(5, 5, 1, todo),
     Layout(-3, -2, 9, todo), Layout(61, 63, 2, todo), Layout(8, 4, 4, done)}

\* All the cards, some of them, and one alone.
StartOrders == {<<3, 2, 1>>, <<2, 3>>, <<3>>}
============================================================================
