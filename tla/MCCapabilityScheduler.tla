----------------------- MODULE MCCapabilityScheduler -----------------------
(* The instance of CapabilityScheduler, with its loop, that TLC checks:    *)
(* every assignment of five representative claims to the tickets.          *)
EXTENDS ScheduleLoop

CONSTANTS x, y

Read(S)  == [reads |-> S, writes |-> {}, exclusive |-> FALSE]
Write(S) == [reads |-> {}, writes |-> S, exclusive |-> FALSE]

(* README's rule: reads of a key overlap, a write excludes both; the default *)
(* ExecutionClaims() is exclusive.  Read({x, y}) is the claim of the test   *)
(* that cancels a waiting request (tests/test_scheduler.py).               *)
MCClaimSet ==
  {Read({x}), Write({x}), Read({x, y}), Write({y}),
   [reads |-> {}, writes |-> {}, exclusive |-> TRUE]}
=============================================================================
