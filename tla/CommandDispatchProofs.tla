----------------------- MODULE CommandDispatchProofs -----------------------
(***************************************************************************)
(* Theorems about CommandDispatch for any tickets, resources and claims:   *)
(* the invariant that CapabilitySchedulerProofs proves of the scheduler    *)
(* holds under the streams, and each stream's place is tied to its         *)
(* admission; what the scheduler promises of tickets is then said of open  *)
(* and waiting streams.                                                    *)
(*                                                                         *)
(* The last section is about ConcurrentRuns, for any runs and inbox size:  *)
(* the same holds of the dispatches of all runs, however runs and consumers*)
(* interleave.                                                             *)
(***************************************************************************)
EXTENDS ConcurrentRuns, TLAPS

(* The scheduler of the dispatches, with the lemmas proved about it. *)
Admission == INSTANCE CapabilitySchedulerProofs

(* Where a stream is decides where its task is in the scheduler. *)
Position(place) ==
  CASE place = "unstarted" -> "new"
    [] place = "admission" -> "waiting"
    [] place \in {"handling", "yielded", "abandoned"} -> "body"
    [] OTHER -> "left"

Places ==
  /\ at \in [Ticket -> {"unstarted", "admission", "handling", "yielded", "abandoned",
                        "orphaned", "cleanup", "over"}]
  /\ \A t \in Ticket : pc[t] = Position(at[t])

Inv == Admission!Inv /\ Places

-----------------------------------------------------------------------------
(* The two instances are of one module. *)
LEMMA SameScheduler ==
  /\ Scheduler!Init <=> Admission!Init
  /\ [Scheduler!Next]_Scheduler!vars <=> [Admission!Next]_Admission!vars
<1>1. Scheduler!Init <=> Admission!Init
  BY DEF Scheduler!Init, Admission!Init
<1>2. [Scheduler!Next]_Scheduler!vars <=> [Admission!Next]_Admission!vars
  BY DEF Scheduler!Next, Admission!Next, Scheduler!vars, Admission!vars,
         Scheduler!Enter, Admission!Enter, Scheduler!Resume, Admission!Resume,
         Scheduler!CancelWaiting, Admission!CancelWaiting,
         Scheduler!Withdraw, Admission!Withdraw, Scheduler!Exit, Admission!Exit,
         Scheduler!Leave, Admission!Leave, Scheduler!AllLeft, Admission!AllLeft,
         Scheduler!ScheduleReady, Admission!ScheduleReady,
         Scheduler!IsReady, Admission!IsReady, Scheduler!Clash, Admission!Clash,
         Scheduler!Conflicts, Admission!Conflicts
<1> QED
  BY <1>1, <1>2

(* Every step of a dispatch is one step of the scheduler or none. *)
LEMMA StepUsesScheduler == [Next]_vars => [Scheduler!Next]_Scheduler!vars
<1> SUFFICES ASSUME [Next]_vars PROVE Scheduler!Next \/ UNCHANGED Scheduler!vars
  OBVIOUS
<1>1. ASSUME NEW t \in Ticket, Begin(t) \/ Admitted(t) \/ CancelAdmission(t)
                                 \/ AdmissionCancelled(t) \/ HandlerEnds(t) \/ CloseStream(t)
      PROVE  Scheduler!Next
  BY <1>1 DEF Begin, Admitted, CancelAdmission, AdmissionCancelled, HandlerEnds, CloseStream,
              Scheduler!Next
<1>2. ASSUME NEW t \in Ticket, Yield(t) \/ AskNext(t) \/ Abandon(t) \/ CloseHandler(t)
                                 \/ CleanupEnds(t)
      PROVE  UNCHANGED Scheduler!vars
  BY <1>2 DEF Yield, AskNext, Abandon, CloseHandler, CleanupEnds, schedulerVars, Scheduler!vars
<1>3. CASE AllOver \/ UNCHANGED vars
  BY <1>3 DEF AllOver, vars, schedulerVars, Scheduler!vars
<1> QED
  BY <1>1, <1>2, <1>3 DEF Next

LEMMA InitInv == Init => Inv
<1> SUFFICES ASSUME Init PROVE Inv
  OBVIOUS
<1>1. Admission!Inv
  BY SameScheduler, DispatchAssumption, Admission!InitInv
     DEF Init, Admission!ClaimsAssumption, Admission!Claims, Scheduler!Claims
<1>2. Places
  BY DEF Init, Scheduler!Init, Places, Position
<1> QED
  BY <1>1, <1>2 DEF Inv

(* A stream's place and its task's place in the scheduler move together.    *)
LEMMA PlacesKept ==
  ASSUME Inv, [Next]_vars
  PROVE  Places'
<1> USE DEF Inv, Places, Position, Moves
<1>1. pc \in [Ticket -> {"new", "waiting", "body", "left"}]
  BY DEF Admission!Inv, Admission!TypeOK
<1>2. ASSUME NEW t \in Ticket, Begin(t)
      PROVE  Places'
  <2>1. /\ pc' = [pc EXCEPT ![t] = IF t \in active' THEN "body" ELSE "waiting"]
        /\ at' = [at EXCEPT ![t] = IF pc'[t] = "body" THEN "handling" ELSE "admission"]
    BY <1>2 DEF Begin, AfterRequest, Scheduler!Enter
  <2> QED
    BY <1>1, <2>1
<1>3. ASSUME NEW t \in Ticket, Admitted(t)
      PROVE  Places'
  BY <1>1, <1>3 DEF Admitted, Scheduler!Resume
<1>4. ASSUME NEW t \in Ticket, CancelAdmission(t)
      PROVE  Places'
  BY <1>4 DEF CancelAdmission, Scheduler!CancelWaiting
<1>5. ASSUME NEW t \in Ticket, NEW place \in {"over", "orphaned"}, Scheduler!Leave(t), Moves(t, place)
      PROVE  Places'
  <2>1. pc' = [pc EXCEPT ![t] = "left"] /\ at' = [at EXCEPT ![t] = place]
    BY <1>5 DEF Scheduler!Leave
  <2> QED
    BY <1>1, <2>1
<1>6. ASSUME NEW t \in Ticket, AdmissionCancelled(t) \/ HandlerEnds(t) \/ CloseStream(t)
      PROVE  Places'
  BY <1>5, <1>6 DEF AdmissionCancelled, HandlerEnds, CloseStream, Scheduler!Withdraw, Scheduler!Exit
<1>7. ASSUME NEW t \in Ticket, Yield(t) \/ AskNext(t) \/ Abandon(t) \/ CloseHandler(t)
                                 \/ CleanupEnds(t)
      PROVE  Places'
  BY <1>7 DEF Yield, AskNext, Abandon, CloseHandler, CleanupEnds, schedulerVars
<1>8. CASE AllOver \/ UNCHANGED vars
  BY <1>8 DEF AllOver, vars, schedulerVars
<1> QED
  BY <1>2, <1>3, <1>4, <1>6, <1>7, <1>8 DEF Next

LEMMA NextInv == Inv /\ [Next]_vars => Inv'
<1> SUFFICES ASSUME Inv, [Next]_vars PROVE Inv'
  OBVIOUS
<1>1. Admission!Inv /\ [Admission!Next]_Admission!vars => Admission!Inv'
  BY DispatchAssumption, Admission!NextInv
     DEF Admission!ClaimsAssumption, Admission!Claims, Scheduler!Claims
<1>2. Admission!Inv'
  BY <1>1, StepUsesScheduler, SameScheduler DEF Inv
<1> QED
  BY <1>2, PlacesKept DEF Inv

-----------------------------------------------------------------------------
(* Every reachable state satisfies the scheduler's inductive invariant and  *)
(* ties each stream to its admission.                                      *)
THEOREM Invariance == Spec => []Inv
<1> QED
  BY InitInv, NextInv, PTL DEF Spec

LEMMA InvTypes == Inv => TypeOK
BY DEF Inv, Places, Position, TypeOK, Scheduler!TypeOK, Admission!Inv, Admission!TypeOK

(* The state keeps its types, and the place of a stream always tells        *)
(* whether its dispatch waits, is admitted or has left.                    *)
THEOREM TypeCorrect == Spec => []TypeOK
BY InvTypes, Invariance, PTL

(* An admitted ticket is that of an open stream, or of one whose task has   *)
(* still to wake up; a queued one is that of a waiting stream.             *)
LEMMA WhereTicketsAre ==
  ASSUME Inv, NEW t \in Ticket
  PROVE  /\ Open(t) => t \in active
         /\ t \in active => Open(t) \/ at[t] = "admission"
         /\ t \in pending => at[t] = "admission"
<1>1. /\ pc[t] = Position(at[t])
      /\ at[t] \in {"unstarted", "admission", "handling", "yielded", "abandoned",
                    "orphaned", "cleanup", "over"}
  BY DEF Inv, Places
<1>2. /\ pc[t] = "body" => t \in active
      /\ t \in pending => pc[t] = "waiting"
      /\ t \in active => pc[t] \in {"waiting", "body"}
  BY DEF Inv, Admission!Inv, Admission!Places
<1> QED
  BY <1>1, <1>2 DEF Position, Open

LEMMA InvExcludes == Inv => OpenStreamsExclude
<1> SUFFICES ASSUME Inv, NEW t \in Ticket, NEW u \in Ticket, t # u, Open(t), Open(u)
             PROVE  ~ Scheduler!Clash(t, u)
  BY DEF OpenStreamsExclude
<1>1. t \in active /\ u \in active
  BY WhereTicketsAre
<1>2. ~ Admission!Clash(t, u)
  BY <1>1 DEF Inv, Admission!Inv, Admission!Compatible
<1> QED
  BY <1>2 DEF Scheduler!Clash, Admission!Clash, Scheduler!Conflicts, Admission!Conflicts

(* Streams with conflicting claims are never open together, even when one   *)
(* has been abandoned and waits for the interpreter to close it.           *)
THEOREM OpenStreamsExcludeHolds == Spec => []OpenStreamsExclude
BY InvExcludes, Invariance, PTL

LEMMA InvWaits == Inv => WaitsForAStream
<1> SUFFICES ASSUME Inv, NEW t \in Ticket, at[t] = "admission", granted[t] = "pending"
             PROVE  \E u \in Ticket :
                      /\ Scheduler!Clash(u, t)
                      /\ \/ Open(u)
                         \/ at[u] = "admission" /\ (u \in active \/ Scheduler!Older(u, t))
  BY DEF WaitsForAStream
<1>1. pc[t] = "waiting"
  BY DEF Inv, Places, Position
<1>2. PICK u \in active \cup pending : (u \in active \/ Admission!Older(u, t)) /\ Admission!Clash(t, u)
  BY <1>1 DEF Inv, Admission!Inv, Admission!NoLostWakeup
<1>3. u \in Ticket
  BY <1>2 DEF Inv, Admission!Inv, Admission!TypeOK
<1>4. /\ u \in active => Open(u) \/ at[u] = "admission"
      /\ u \in pending => at[u] = "admission"
  BY <1>3, WhereTicketsAre
<1>5. Scheduler!Clash(u, t) /\ (u \in active \/ Scheduler!Older(u, t))
  BY <1>2 DEF Scheduler!Clash, Admission!Clash, Scheduler!Conflicts, Admission!Conflicts,
              Scheduler!Older, Admission!Older
<1> QED
  BY <1>2, <1>3, <1>4, <1>5

(* However streams end, are cancelled or abandoned, a dispatch waits only   *)
(* for a stream that is open, about to be, or older and waiting itself:    *)
(* every way a stream goes gives its admission back and wakes those it     *)
(* held up.                                                                *)
THEOREM WaitsForAStreamHolds == Spec => []WaitsForAStream
BY InvWaits, Invariance, PTL

-----------------------------------------------------------------------------
(* Concurrent runs. *)

(* Every step of the runs is one step of the dispatches or none. *)
LEMMA StepDispatches == [RunsNext]_allVars => [Next]_vars
<1> SUFFICES ASSUME [RunsNext]_allVars PROVE Next \/ UNCHANGED vars
  OBVIOUS
<1>1. ASSUME NEW t \in Ticket, Dispatch(t) \/ YieldEvent(t) \/ RejectTerminal(t) \/ HandlerStep(t)
      PROVE  Next
  BY <1>1 DEF Dispatch, YieldEvent, RejectTerminal, HandlerStep, Next
<1>2. ASSUME NEW t \in Ticket, TaskStep(t)
      PROVE  Next
  BY <1>2 DEF TaskStep, PutEvent, KeepTerminal, Cancel, Next
<1>3. ASSUME NEW r \in Run, Take(r) \/ Stall(r) \/ End(r) \/ Drop(r)
      PROVE  UNCHANGED vars
  BY <1>3 DEF Take, Stall, End, Drop
<1>4. CASE UNCHANGED allVars
  BY <1>4 DEF allVars
<1> QED
  BY <1>1, <1>2, <1>3, <1>4 DEF RunsNext

LEMMA RunsInvariance == RunsSpec => []Inv
<1>1. RunsInit => Inv
  BY InitInv DEF RunsInit
<1>2. Inv /\ [RunsNext]_allVars => Inv'
  BY StepDispatches, NextInv
<1> QED
  BY <1>1, <1>2, PTL DEF RunsSpec

(* Dispatches of any runs, work or commits, whose claims conflict never     *)
(* have open streams together.                                             *)
THEOREM RunsExclude == RunsSpec => []OpenStreamsExclude
BY InvExcludes, RunsInvariance, PTL

(* Whatever becomes of the consumers of the runs, a dispatch of one run,    *)
(* work or commit, waits for a dispatch that is still there, its own run's *)
(* or another's, and never for one whose run has been cleaned up.          *)
THEOREM RunsWaitForAStream == RunsSpec => []WaitsForAStream
BY InvWaits, RunsInvariance, PTL

(* No inbox holds more than its size, and runs and dispatches are where     *)
(* they can be.                                                            *)
THEOREM RunsTypeCorrect == RunsSpec => []RunsTypeOK
<1> DEFINE Runs == /\ inbox \in [Run -> 0 .. InboxSize]
                   /\ run \in [Run -> {"pulled", "stalled", "ended", "dropped"}]
<1>1. RunsInit => Runs
  BY InboxAssumption DEF RunsInit
<1>2. Runs /\ [RunsNext]_allVars => Runs'
  <2> SUFFICES ASSUME Runs, [RunsNext]_allVars PROVE Runs'
    OBVIOUS
  <2> USE InboxAssumption, RunsAssumption
  <2>1. ASSUME NEW t \in Ticket, PutEvent(t)
        PROVE  Runs'
    <3>1. /\ RunOf[t] \in Run /\ inbox[RunOf[t]] < InboxSize
          /\ inbox' = [inbox EXCEPT ![RunOf[t]] = @ + 1] /\ run' = run
      BY <2>1 DEF PutEvent, HasRoom
    <3>2. inbox[RunOf[t]] + 1 \in 0 .. InboxSize
      BY <3>1
    <3> QED
      BY <3>1, <3>2
  <2>2. ASSUME NEW t \in Ticket, \/ Dispatch(t) \/ YieldEvent(t) \/ RejectTerminal(t) \/ HandlerStep(t)
                                 \/ KeepTerminal(t) \/ Cancel(t) \/ UNCHANGED runVars
        PROVE  Runs'
    BY <2>2 DEF Dispatch, YieldEvent, RejectTerminal, HandlerStep, KeepTerminal, Cancel, runVars
  <2>3. ASSUME NEW r \in Run, Take(r)
        PROVE  Runs'
    <3>1. inbox[r] > 0 /\ inbox' = [inbox EXCEPT ![r] = @ - 1] /\ run' = run
      BY <2>3 DEF Take
    <3>2. inbox[r] - 1 \in 0 .. InboxSize
      BY <3>1
    <3> QED
      BY <3>1, <3>2
  <2>4. ASSUME NEW r \in Run, Stall(r) \/ End(r) \/ Drop(r)
        PROVE  Runs'
    BY <2>4 DEF Stall, End, Drop
  <2>5. CASE UNCHANGED allVars
    BY <2>5 DEF allVars
  <2> QED
    BY <2>1, <2>2, <2>3, <2>4, <2>5 DEF RunsNext, TaskStep
<1>3. RunsSpec => []TypeOK
  BY RunsInvariance, InvTypes, PTL
<1>4. TypeOK /\ Runs => RunsTypeOK
  BY DEF RunsTypeOK
<1> HIDE DEF Runs
<1> QED
  BY <1>1, <1>2, <1>3, <1>4, PTL DEF RunsSpec

=============================================================================
