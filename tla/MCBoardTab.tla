---------------------------- MODULE MCBoardTab -----------------------------
(* Board A with two columns, two cards and a link between them; board B    *)
(* with a column of its own.                                               *)
EXTENDS BoardTab

CONSTANTS A, B, k1, k2, k3, c1, c2, link

mcBoardOf == k1 :> A @@ k2 :> A @@ k3 :> B
mcEnds == link :> {c1, c2}
mcStarts == {[ver |-> k1 :> 1 @@ k2 :> 0 @@ k3 :> 0 @@ c1 :> 1 @@ c2 :> 1 @@ link :> 1,
              home |-> c1 :> k1 @@ c2 :> k1, board |-> A]}
=============================================================================
