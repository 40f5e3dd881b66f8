------------------------- MODULE MCCommandDispatch -------------------------
(* The instance of CommandDispatch that TLC checks. *)
EXTENDS CommandDispatch

CONSTANTS x

Claim(R, W, e) == [reads |-> R, writes |-> W, exclusive |-> e]

(* Readers and writers of one key, and the exclusive claims of a command    *)
(* bound without a planner.                                                *)
MCClaimSet == {Claim({x}, {}, FALSE), Claim({}, {x}, FALSE), Claim({}, {}, TRUE)}
=============================================================================
