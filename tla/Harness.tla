------------------------------- MODULE Harness -------------------------------
(***************************************************************************)
(* kernel/harness.py: one Harness.run, its consumer, and a caller of       *)
(* Harness.cancel.                                                         *)
(*                                                                         *)
(* The stream of primary work (RuntimePump.run_envelope) is taken by its   *)
(* contract: every read returns an event, the end or an error, and closing *)
(* it ends.  So is the stream of the finalization handler, which is a      *)
(* dispatch of CommitRunOutcome.  Other runs of the same harness do not    *)
(* interfere: the registry is keyed by correlation ids, which are unique.  *)
(***************************************************************************)
EXTENDS Naturals

CONSTANTS
  MaxPrimary    (* bound: events of the primary work                       *)

ASSUME BoundAssumption == MaxPrimary \in Nat

VARIABLES
  at,           (* where the generator of run() is                         *)
  registered,   (* the run is in _active_runs                              *)
  lifecycle,    (* run.lifecycle.state                                     *)
  cancelReq,    (* run.cancel_requested is set                             *)
  cancelLate,   (* it was set when the awaited read had already finished   *)
  work,         (* work_stream: "none", "open", "over" (ended or closed)   *)
  read,         (* the task reading it: "none", "pending" or its result    *)
  primary,      (* events read from the work so far                        *)
  last,         (* kind of the last event handed out (see last_message)    *)
  outcome,      (* outcome                                                 *)
  observed,     (* matching terminal events seen by _commit                *)
  afterCancel   (* primary events handed out after a cancel was accepted   *)

runVars    == <<registered, lifecycle, outcome>>
cancelVars == <<cancelReq, cancelLate>>
workVars   == <<work, read, primary>>
vars == <<at, runVars, cancelVars, workVars, last, observed, afterCancel>>

Init ==
  /\ at = "new"
  /\ registered = FALSE
  /\ lifecycle = "created"
  /\ cancelReq = FALSE
  /\ cancelLate = FALSE
  /\ work = "none"
  /\ read = "none"
  /\ primary = 0
  /\ last = "none"
  /\ outcome = "none"
  /\ observed = 0
  /\ afterCancel = 0

-----------------------------------------------------------------------------
(* _TRANSITIONS: what RunLifecycle.transition accepts. *)
Transitions ==
  [created |-> {"running"}, running |-> {"finalizing"},
   finalizing |-> {"completed", "failed", "cancelled"},
   completed |-> {}, failed |-> {}, cancelled |-> {}]

(* The kinds of a run's own events, the events of its work ("primary"), and *)
(* the outcomes it can have.                                               *)
EventKind == {"started", "primary", "fault", "ready", "terminal"}

RunOutcome == {"completed", "failed", "cancelled"}

transition(target) ==
  /\ target \in Transitions[lifecycle]
  /\ lifecycle' = target

(* The generator hands out an event of kind k and is suspended at place p. *)
HandOut(k, p) ==
  /\ last' = k
  /\ at' = p

(* The first pull: the run is registered, and the first read of the work    *)
(* begins in a task of its own before RunStarted is handed out.            *)
Begin ==
  /\ at = "new"
  /\ registered' = TRUE
  /\ transition("running")
  /\ work' = "open"
  /\ read' = "pending"
  /\ HandOut("started", "atStarted")
  /\ UNCHANGED <<outcome, cancelVars, primary, observed, afterCancel>>

(* _primary_events waits for the next read, the first one or a new one, and *)
(* for a cancellation.                                                     *)
AwaitRead ==
  /\ at \in {"atStarted", "atPrimary"}
  /\ at' = "reading"
  /\ read' = IF at = "atStarted" THEN read ELSE "pending"
  /\ UNCHANGED <<runVars, cancelVars, work, primary, last, observed, afterCancel>>

(* A read of the work finishes. *)
ReadEvent ==
  /\ read = "pending"
  /\ primary < MaxPrimary
  /\ primary' = primary + 1
  /\ read' = "event"
  /\ UNCHANGED <<at, runVars, cancelVars, work, last, observed, afterCancel>>

ReadLast ==
  /\ read = "pending"
  /\ read' \in {"end", "error"}
  /\ work' = "over"
  /\ UNCHANGED <<at, runVars, cancelVars, primary, last, observed, afterCancel>>

(* Mutant: a finished read always wins over a cancellation. *)
ReadAlwaysWins == at = "reading"

(* The generator wakes up with the result of the read.  The cancellation    *)
(* wins unless it was requested after the read had finished.               *)
ReadWins ==
  /\ at = "reading"
  /\ ~ cancelReq \/ cancelLate

TakeEvent ==
  /\ ReadWins
  /\ read = "event"
  /\ read' = "none"
  /\ HandOut("primary", "atPrimary")
  /\ cancelLate' = FALSE
  /\ afterCancel' = IF cancelReq THEN afterCancel + 1 ELSE afterCancel
  /\ UNCHANGED <<runVars, cancelReq, work, primary, observed>>

(* The lifecycle moves on and RunOutcomeReady is handed out. *)
MakeReady(o) ==
  /\ outcome' = o
  /\ transition("finalizing")
  /\ HandOut("ready", "atReady")
  /\ UNCHANGED registered

TakeEnd ==
  /\ ReadWins
  /\ read = "end"
  /\ read' = "none"
  /\ MakeReady("completed")
  /\ UNCHANGED <<cancelVars, work, primary, observed, afterCancel>>

(* StepBudgetLimitReached or any other error: the work has ended, and       *)
(* StepBudgetExceeded or RuntimeFaulted is handed out.                     *)
TakeError ==
  /\ ReadWins
  /\ read = "error"
  /\ read' = "none"
  /\ HandOut("fault", "atFault")
  /\ UNCHANGED <<runVars, cancelVars, work, primary, observed, afterCancel>>

(* Mutant: the fault does not decide the outcome. *)
CompletedAnyway == "completed"

FaultOutcome == "failed"

(* The consumer pulls after a fault. *)
FaultReady ==
  /\ at = "atFault"
  /\ MakeReady(FaultOutcome)
  /\ UNCHANGED <<cancelVars, workVars, observed, afterCancel>>

(* Mutant: a cancellation is noticed only when a read finishes. *)
RequestedAndRead == cancelReq /\ read # "pending"

(* cancel_task is done. *)
Requested == cancelReq

(* _SemanticCancellation: the read is cancelled, whatever it brought is     *)
(* dropped, and the work is closed ...                                     *)
NoticeCancel ==
  /\ at = "reading"
  /\ Requested
  /\ at' = "closingWork"
  /\ read' = "none"
  /\ UNCHANGED <<runVars, cancelVars, work, primary, last, observed, afterCancel>>

(* Mutant: the work is left as it is. *)
LeaveWork == UNCHANGED work

(* _close_stream(work_stream). *)
CloseWork == work' = "over"

(* ... before the outcome is selected. *)
CancelledReady ==
  /\ at = "closingWork"
  /\ CloseWork
  /\ MakeReady("cancelled")
  /\ UNCHANGED <<cancelVars, read, primary, observed, afterCancel>>

-----------------------------------------------------------------------------
(* _commit *)
BeginCommit ==
  /\ at = "atReady"
  /\ at' = "committing"
  /\ UNCHANGED <<runVars, cancelVars, workVars, last, observed, afterCancel>>

(* Mutant: a second terminal event is let through. *)
FirstOrSecond == observed < 2

FirstTerminal == observed = 0

(* The finalization handler emits the expected event, for the first time. *)
CommitEvent ==
  /\ at = "committing"
  /\ FirstTerminal
  /\ observed' = observed + 1
  /\ UNCHANGED <<at, runVars, cancelVars, workVars, last, afterCancel>>

(* It emits a second event or a mismatched one, raises, is not bound, or    *)
(* ends without any: RunFinalizationError leaves through the finally block.*)
CommitFails ==
  /\ at = "committing"
  /\ at' = "leaving"
  /\ UNCHANGED <<runVars, cancelVars, workVars, last, observed, afterCancel>>

(* It ends after one matching event. *)
CommitEnds ==
  /\ at = "committing"
  /\ observed = 1
  /\ transition(outcome)
  /\ HandOut("terminal", "atTerminal")
  /\ UNCHANGED <<registered, outcome, cancelVars, workVars, observed, afterCancel>>

-----------------------------------------------------------------------------
(* The stream is pulled past its last event, or the consumer abandons it:   *)
(* it closes the generator at a yield, or is cancelled at an await.        *)
Leave ==
  /\ at \notin {"new", "leaving", "closing", "ended", "interrupted"}
  /\ at' = "leaving"
  /\ UNCHANGED <<runVars, cancelVars, workVars, last, observed, afterCancel>>

(* Mutant: a read that is going on is not cancelled, and holds the work. *)
FinallyReadKept ==
  /\ at = "leaving"
  /\ at' = "closing"
  /\ UNCHANGED <<runVars, cancelVars, workVars, last, observed, afterCancel>>

(* The finally block: cancel the first read and wait for it (a cancelled    *)
(* read ends the work, cleaned up), ...                                    *)
FinallyRead ==
  /\ at = "leaving"
  /\ at' = "closing"
  /\ read' = "none"
  /\ work' = IF read = "pending" THEN "over" ELSE work
  /\ UNCHANGED <<runVars, cancelVars, primary, last, observed, afterCancel>>

(* _active_runs.pop. *)
ForgetRun == registered' = FALSE

(* ... close the work and wait for that, then forget the run. *)
FinallyClose ==
  /\ at = "closing"
  /\ at' = "ended"
  /\ CloseWork
  /\ ForgetRun
  /\ UNCHANGED <<lifecycle, outcome, cancelVars, read, primary, last, observed, afterCancel>>

(* The consumer's task is cancelled at one of these two awaits: what was    *)
(* awaited is carried through, the rest of the finally block is skipped.   *)
Interrupt ==
  /\ at \in {"leaving", "closing"}
  /\ at' = "interrupted"
  /\ read' = "none"
  /\ work' = IF at = "closing" \/ read = "pending" THEN "over" ELSE work
  /\ UNCHANGED <<runVars, cancelVars, primary, last, observed, afterCancel>>

(* The interpreter's hook closes work that nothing refers to any more. *)
CollectWork ==
  /\ at = "interrupted"
  /\ work = "open"
  /\ work' = "over"
  /\ UNCHANGED <<at, runVars, cancelVars, read, primary, last, observed, afterCancel>>

(* Harness.cancel(correlation_id). *)
Cancel ==
  /\ registered
  /\ lifecycle = "running"
  /\ ~ cancelReq
  /\ cancelReq' = TRUE
  /\ cancelLate' = (at = "reading" /\ read # "pending")
  /\ UNCHANGED <<at, runVars, workVars, last, observed, afterCancel>>

Ended ==
  /\ at = "ended" \/ (at = "interrupted" /\ work = "over")
  /\ UNCHANGED vars

ReadStep == ReadEvent \/ ReadLast

(* What the generator does when its consumer asks for the next event ... *)
PullStep == Begin \/ AwaitRead \/ FaultReady \/ BeginCommit

(* ... and when something it awaits has happened. *)
WakeStep ==
  \/ TakeEvent \/ TakeEnd \/ TakeError \/ NoticeCancel \/ CancelledReady
  \/ CommitFails \/ CommitEnds
  \/ FinallyRead \/ FinallyClose \/ CollectWork

Next ==
  \/ ReadStep
  \/ PullStep
  \/ WakeStep
  \/ CommitEvent
  \/ Leave
  \/ Interrupt
  \/ Cancel
  \/ Ended

Spec == Init /\ [][Next]_vars

(* A consumer that keeps pulling.  No read need ever finish: a handler may  *)
(* neither yield nor return by itself.  That closing the work ends, which  *)
(* is part of WakeStep, assumes handlers that obey their cancellation.     *)
PullingSpec == Spec /\ WF_vars(PullStep) /\ WF_vars(WakeStep)

-----------------------------------------------------------------------------
TypeOK ==
  /\ at \in {"new", "atStarted", "reading", "atPrimary", "closingWork", "atFault", "atReady",
             "committing", "atTerminal", "leaving", "closing", "ended", "interrupted"}
  /\ registered \in BOOLEAN
  /\ lifecycle \in DOMAIN Transitions
  /\ cancelReq \in BOOLEAN /\ cancelLate \in BOOLEAN
  /\ work \in {"none", "open", "over"}
  /\ read \in {"none", "pending", "event", "end", "error"}
  /\ primary \in 0 .. MaxPrimary
  /\ last \in EventKind \cup {"none"}
  /\ outcome \in RunOutcome \cup {"none"}
  /\ observed \in 0 .. 1
  /\ afterCancel \in Nat
  /\ at \in {"atStarted", "reading", "atPrimary", "closingWork", "atFault"} => lifecycle = "running"
  /\ at \in {"atReady", "committing"} => lifecycle = "finalizing"

(* The consumer sees the events in the promised order, each with the        *)
(* lifecycle state and the outcome that go with it (README.md:71-73).      *)
Protocol == INSTANCE RunProtocol
ImplementsProtocol == Protocol!Spec

(* The outcome is committed only when the primary work is over: the         *)
(* finalization handler never runs next to the run's own commands.         *)
CommitAfterWork ==
  at \in {"committing", "atTerminal"} => work = "over" /\ read # "pending"

(* An accepted cancellation lets at most one more event of the work         *)
(* through, one whose read had already finished.                           *)
CancelPrompt == afterCancel <= 1

(* Only a cancellation that came after the work's end was read can leave    *)
(* the run completed.                                                      *)
CancelDecides ==
  outcome = "completed" /\ cancelReq => cancelLate

(* A cancellation of a run whose consumer keeps pulling takes effect even   *)
(* if the handlers never return by themselves, only when cancelled.        *)
CancelEnds ==
  (cancelReq /\ lifecycle = "running") ~>
    (lifecycle # "running" \/ at \in {"ended", "interrupted"})

(* Cancelling the consumer "guarantees cleanup of owned work"               *)
(* (README.md:82-84): once a run is left, at its end, by a close or by a    *)
(* cancellation at any await, one of the finally block included, its work  *)
(* comes to be closed with no read of it going on, and stays so.           *)
WorkCleanedUp ==
  at \in {"leaving", "closing", "interrupted", "ended"} ~> [](work = "over" /\ read # "pending")

(* The finally block (harness.py:198-202) forgets every run it leaves, also *)
(* one whose consumer was cancelled while it was closing it.               *)
RunForgotten == at \in {"ended", "interrupted"} => ~ registered

=============================================================================
