----------------------------- MODULE RunProtocol -----------------------------
(***************************************************************************)
(* What Harness.run promises to whoever consumes its stream: the order of  *)
(* the events handed out, with the lifecycle state (kernel/lifecycle.py)   *)
(* and the outcome they go with.  README: "RunStarted is emitted first;    *)
(* work then runs ..., and terminal events are withheld until              *)
(* CommitRunOutcome completes successfully".                               *)
(***************************************************************************)

VARIABLES
  last,        (* kind of the last event handed out                        *)
  lifecycle,   (* RunLifecycle.state                                       *)
  outcome,     (* the outcome selected for the run                         *)
  observed     (* terminal events seen from the finalization handler       *)

vars == <<last, lifecycle, outcome, observed>>

Outcomes == {"completed", "failed", "cancelled"}

Init ==
  /\ last = "none"
  /\ lifecycle = "created"
  /\ outcome = "none"
  /\ observed = 0

Start ==
  /\ last = "none"
  /\ last' = "started"
  /\ lifecycle' = "running"
  /\ UNCHANGED <<outcome, observed>>

Primary ==
  /\ last \in {"started", "primary"}
  /\ last' = "primary"
  /\ UNCHANGED <<lifecycle, outcome, observed>>

(* StepBudgetExceeded or RuntimeFaulted: at most one, and the run has failed. *)
Fault ==
  /\ last \in {"started", "primary"}
  /\ last' = "fault"
  /\ UNCHANGED <<lifecycle, outcome, observed>>

(* RunOutcomeReady: the outcome is failed exactly when a fault was shown. *)
Ready ==
  /\ last \in {"started", "primary", "fault"}
  /\ last' = "ready"
  /\ lifecycle' = "finalizing"
  /\ outcome' \in Outcomes
  /\ outcome' = "failed" <=> last = "fault"
  /\ UNCHANGED observed

(* The finalization handler emits the terminal event of the outcome, while  *)
(* the consumer waits for it.                                              *)
Commit ==
  /\ last = "ready" /\ observed = 0
  /\ observed' = 1
  /\ UNCHANGED <<last, lifecycle, outcome>>

(* RunCompleted, RunFailed or RunCancelled: the lifecycle ends in the state *)
(* of the outcome.                                                         *)
Terminal ==
  /\ last = "ready" /\ observed = 1
  /\ last' = "terminal"
  /\ lifecycle' = outcome
  /\ UNCHANGED <<outcome, observed>>

Next == Start \/ Primary \/ Fault \/ Ready \/ Commit \/ Terminal

Spec == Init /\ [][Next]_vars

=============================================================================
