--------------------------- MODULE MCConcurrentRuns ---------------------------
(* The instance of ConcurrentRuns that TLC checks: the work of two runs, and *)
(* the commit of a third, whose work is over.                                *)
EXTENDS ConcurrentRuns, TLC

CONSTANTS x, y, a, b, commit, ra, rb, rc

Write(W) == [reads |-> {}, writes |-> W, exclusive |-> FALSE]

MCClaimSet == {Write({x}), Write({x, y}), Write({y})}

MCRunOf == a :> ra @@ b :> rb @@ commit :> rc

(* a and b clash; the commit clashes with both, or with b only: b, waiting *)
(* for a, then keeps it waiting although it does not clash with a.         *)
MCClaims(z) == a :> Write({x}) @@ b :> Write({x, y}) @@ commit :> Write({z})

MCInit == claims \in {MCClaims(x), MCClaims(y)} /\ RunsInit

MCSpec == MCInit /\ [][RunsNext]_allVars /\ RunsFairness
=============================================================================
