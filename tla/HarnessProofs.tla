---------------------------- MODULE HarnessProofs ----------------------------
(***************************************************************************)
(* Theorems about Harness for any number of primary events: it implements  *)
(* RunProtocol, and the safety invariants of its runs.                     *)
(*                                                                         *)
(* The invariant Inv has three parts: what the consumer has been shown at  *)
(* each place of the generator (Shown), what has become of the primary     *)
(* work there (Worked), and what a cancellation can still change           *)
(* (Cancelled).                                                            *)
(***************************************************************************)
EXTENDS Harness, TLAPS

Running == {"atStarted", "reading", "atPrimary", "closingWork", "atFault"}
Finalizing == {"atReady", "committing"}

Shown ==
  /\ at = "new" => last = "none" /\ lifecycle = "created" /\ observed = 0
  /\ at \in Running => observed = 0
  /\ at = "atStarted" => last = "started"
  /\ at \in {"reading", "closingWork"} => last \in {"started", "primary"}
  /\ at = "atPrimary" => last = "primary"
  /\ at = "atFault" => last = "fault"
  /\ at \in Finalizing => last = "ready" /\ outcome \in RunOutcome
  /\ at = "atReady" => observed = 0
  /\ lifecycle \in {"created", "running"} => outcome = "none"

Worked ==
  /\ read \in {"end", "error"} => work = "over"
  /\ at \in {"new", "closingWork", "atFault", "atReady", "committing", "atTerminal", "closing", "ended"}
       => read # "pending"
  /\ at \in {"atFault", "atReady", "committing", "atTerminal", "ended"} => work = "over"
  /\ at = "ended" => ~ registered

Cancelled ==
  /\ cancelLate \/ ~ cancelReq => afterCancel = 0
  /\ CancelPrompt
  /\ CancelDecides

Inv == TypeOK /\ Shown /\ Worked /\ Cancelled

-----------------------------------------------------------------------------
LEMMA InitInv == Init => Inv
<1> SUFFICES ASSUME Init PROVE Inv
  OBVIOUS
<1>1. TypeOK
  <2>1. registered \in BOOLEAN /\ cancelReq \in BOOLEAN /\ cancelLate \in BOOLEAN
    BY DEF Init
  <2> QED
    BY <2>1, BoundAssumption DEF Init, TypeOK, Transitions, EventKind, RunOutcome
<1>2. Shown /\ Worked
  BY DEF Init, Shown, Worked, Running, Finalizing
<1>3. Cancelled
  BY DEF Init, Cancelled, CancelPrompt, CancelDecides
<1> QED
  BY <1>1, <1>2, <1>3 DEF Inv

(* A read that finishes changes only what is known of the work. *)
LEMMA ReadInv == Inv /\ ReadStep => Inv'
<1> SUFFICES ASSUME Inv, ReadStep PROVE Inv'
  OBVIOUS
<1> USE BoundAssumption DEF Inv
<1>1. CASE ReadEvent
  BY <1>1 DEF ReadEvent, runVars, cancelVars, TypeOK, Shown, Worked, Cancelled, CancelPrompt,
              CancelDecides, Transitions, Running, Finalizing, EventKind, RunOutcome
<1>2. CASE ReadLast
  BY <1>2 DEF ReadLast, runVars, cancelVars, TypeOK, Shown, Worked, Cancelled, CancelPrompt,
              CancelDecides, Transitions, Running, Finalizing, EventKind, RunOutcome
<1> QED
  BY <1>1, <1>2 DEF ReadStep

LEMMA NextInv == Inv /\ [Next]_vars => Inv'
<1> SUFFICES ASSUME Inv, [Next]_vars PROVE Inv'
  OBVIOUS
<1> USE BoundAssumption
        DEF Inv, TypeOK, Shown, Worked, Cancelled, CancelPrompt, CancelDecides, Transitions,
            Running, Finalizing, EventKind, RunOutcome, runVars, cancelVars, workVars, transition, HandOut
<1>1. CASE ReadStep
  BY <1>1, ReadInv
<1>2. CASE Begin
  BY <1>2 DEF Begin
<1>3. CASE AwaitRead
  BY <1>3 DEF AwaitRead
<1>4. CASE TakeEvent
  <2>1. cancelLate' \in BOOLEAN /\ ~ cancelLate'
    BY <1>4 DEF TakeEvent
  <2>2. cancelReq => cancelLate
    BY <1>4 DEF TakeEvent, ReadWins
  <2>3. afterCancel = 0 /\ afterCancel' \in {0, 1} /\ (cancelReq \/ afterCancel' = 0)
    BY <1>4, <2>2 DEF TakeEvent
  <2> QED
    BY <1>4, <2>1, <2>3 DEF TakeEvent, ReadWins
<1>5. CASE TakeEnd
  BY <1>5 DEF TakeEnd, ReadWins, MakeReady
<1>6. CASE TakeError
  BY <1>6 DEF TakeError, ReadWins
<1>7. CASE FaultReady
  BY <1>7 DEF FaultReady, FaultOutcome, MakeReady
<1>8. CASE NoticeCancel
  BY <1>8 DEF NoticeCancel
<1>9. CASE CancelledReady
  BY <1>9 DEF CancelledReady, CloseWork, MakeReady
<1>10. CASE BeginCommit
  BY <1>10 DEF BeginCommit
<1>11. CASE CommitEvent
  BY <1>11 DEF CommitEvent, FirstTerminal
<1>12. CASE CommitFails
  BY <1>12 DEF CommitFails
<1>13. CASE CommitEnds
  BY <1>13 DEF CommitEnds
<1>14. CASE Leave
  BY <1>14 DEF Leave
<1>15. CASE FinallyRead
  BY <1>15 DEF FinallyRead
<1>16. CASE FinallyClose
  <2> USE <1>16 DEF FinallyClose, CloseWork, ForgetRun
  <2>1. TypeOK'
    OBVIOUS
  <2>2. Shown' /\ Worked'
    OBVIOUS
  <2>3. Cancelled'
    OBVIOUS
  <2> QED
    BY <2>1, <2>2, <2>3
<1>17. CASE Interrupt
  BY <1>17 DEF Interrupt
<1>18. CASE CollectWork
  BY <1>18 DEF CollectWork
<1>19. CASE Cancel
  BY <1>19 DEF Cancel
<1>20. CASE Ended \/ UNCHANGED vars
  BY <1>20 DEF Ended, vars
<1> QED
  BY <1>1, <1>2, <1>3, <1>4, <1>5, <1>6, <1>7, <1>8, <1>9, <1>10, <1>11, <1>12, <1>13, <1>14,
     <1>15, <1>16, <1>17, <1>18, <1>19, <1>20
     DEF Next, PullStep, WakeStep

(* The strengthened invariant of a run. *)
THEOREM Invariance == Spec => []Inv
  BY InitInv, NextInv, PTL DEF Spec

(* Every variable keeps its type, and the lifecycle is in the state that    *)
(* the generator's next transition starts from, so none is refused.        *)
THEOREM TypeCorrect == Spec => []TypeOK
<1>1. Inv => TypeOK
  BY DEF Inv
<1> QED
  BY <1>1, Invariance, PTL

(* The finalization handler is dispatched only when the run's own commands  *)
(* are over.                                                               *)
THEOREM CommitAfterWorkHolds == Spec => []CommitAfterWork
<1>1. Inv => CommitAfterWork
  BY DEF Inv, Worked, CommitAfterWork
<1> QED
  BY <1>1, Invariance, PTL

(* At most one primary event is handed out after an accepted cancellation. *)
THEOREM CancelPromptHolds == Spec => []CancelPrompt
<1>1. Inv => CancelPrompt
  BY DEF Inv, Cancelled
<1> QED
  BY <1>1, Invariance, PTL

(* A run that was cancelled in time does not complete. *)
THEOREM CancelDecidesHolds == Spec => []CancelDecides
<1>1. Inv => CancelDecides
  BY DEF Inv, Cancelled
<1> QED
  BY <1>1, Invariance, PTL

-----------------------------------------------------------------------------
(* Refinement: what the consumer observes of a run are steps of RunProtocol.*)

LEMMA InitRefines == Init => Protocol!Init
  BY DEF Init, Protocol!Init

LEMMA NextRefines == Inv /\ [Next]_vars => [Protocol!Next]_Protocol!vars
<1> SUFFICES ASSUME Inv, [Next]_vars PROVE [Protocol!Next]_Protocol!vars
  OBVIOUS
<1> USE DEF Inv, TypeOK, Shown, Transitions, Running, Finalizing, EventKind, RunOutcome,
            Protocol!Next, Protocol!vars, Protocol!Outcomes
<1>1. CASE Begin
  BY <1>1 DEF Begin, HandOut, transition, Protocol!Start
<1>2. CASE TakeEvent
  BY <1>2 DEF TakeEvent, ReadWins, HandOut, runVars, Protocol!Primary
<1>3. CASE TakeError
  BY <1>3 DEF TakeError, ReadWins, HandOut, runVars, Protocol!Fault
<1>4. CASE TakeEnd
  BY <1>4 DEF TakeEnd, ReadWins, MakeReady, HandOut, transition, Protocol!Ready
<1>5. CASE FaultReady
  BY <1>5 DEF FaultReady, FaultOutcome, MakeReady, HandOut, transition, Protocol!Ready
<1>6. CASE CancelledReady
  BY <1>6 DEF CancelledReady, CloseWork, MakeReady, HandOut, transition, Protocol!Ready
<1>7. CASE CommitEvent
  BY <1>7 DEF CommitEvent, FirstTerminal, runVars, Protocol!Commit
<1>8. CASE CommitEnds
  BY <1>8 DEF CommitEnds, HandOut, transition, Protocol!Terminal
<1>9. CASE AwaitRead \/ NoticeCancel \/ BeginCommit \/ CommitFails \/ Leave
  BY <1>9 DEF AwaitRead, NoticeCancel, BeginCommit, CommitFails, Leave, runVars
<1>10. CASE ReadStep \/ FinallyRead \/ FinallyClose \/ Interrupt \/ CollectWork
  BY <1>10 DEF ReadStep, ReadEvent, ReadLast, FinallyRead, FinallyClose, Interrupt, CollectWork,
               runVars
<1>11. CASE Cancel \/ Ended \/ UNCHANGED vars
  BY <1>11 DEF Cancel, Ended, vars, runVars
<1> QED
  BY <1>1, <1>2, <1>3, <1>4, <1>5, <1>6, <1>7, <1>8, <1>9, <1>10, <1>11
     DEF Next, PullStep, WakeStep

(* Harness.run keeps RunProtocol, whatever the work does and however often  *)
(* the run is cancelled, abandoned or interrupted.                         *)
THEOREM RunImplementsProtocol == Spec => ImplementsProtocol
  BY InitRefines, NextRefines, Invariance, PTL DEF Spec, ImplementsProtocol, Protocol!Spec

=============================================================================
