--------------------------- MODULE CommandDispatch ---------------------------
(***************************************************************************)
(* kernel/runtime.py: the stream returned by InMemoryCommandBus.dispatch,  *)
(* between the drain that iterates it, the scheduler that admits it and    *)
(* the handler, itself an async generator, that it iterates.               *)
(*                                                                         *)
(*   async with self._scheduler.admit(claims):                             *)
(*       async for event in binding.handler(command):                      *)
(*           yield event                                                   *)
(*                                                                         *)
(* A drain whose inbox.put is cancelled leaves the stream suspended at its *)
(* yield, without closing it; so does Harness._commit when it raises.  The *)
(* interpreter's async generator hook then closes the stream in a task of  *)
(* its own, which gives the admission back; the handler, still suspended,  *)
(* loses its last reference only then, and the hook closes it in a second  *)
(* task.                                                                   *)
(*                                                                         *)
(* A dispatch is identified with its ticket in the scheduler.              *)
(***************************************************************************)
EXTENDS Naturals

CONSTANTS Ticket, Resource, ClaimSet

VARIABLES
  pc, claims, granted, mustCancel, arrival, clock, pending, active,
  at           (* where each dispatch is, see TypeOK                       *)

Scheduler == INSTANCE CapabilityScheduler

ASSUME DispatchAssumption == ClaimSet \subseteq Scheduler!Claims

schedulerVars == <<pc, claims, granted, mustCancel, arrival, clock, pending, active>>
vars == <<schedulerVars, at>>

Moves(t, place) == at' = [at EXCEPT ![t] = place]

-----------------------------------------------------------------------------
Init ==
  /\ Scheduler!Init
  /\ at = [t \in Ticket |-> "unstarted"]

(* Mutant: the stream does not wait for its admission. *)
HandlingAtOnce(t) == "handling"

(* Where the stream of t is once it has requested its admission: a request  *)
(* that is granted on the spot does not suspend it.                        *)
AfterRequest(t) == IF pc'[t] = "body" THEN "handling" ELSE "admission"

(* The drain asks for the first event: the stream requests its admission,   *)
(* and begins to iterate the handler if it gets it on the spot.            *)
Begin(t) ==
  /\ at[t] = "unstarted"
  /\ Scheduler!Enter(t)
  /\ Moves(t, AfterRequest(t))

Admitted(t) ==
  /\ at[t] = "admission"
  /\ Scheduler!Resume(t)
  /\ Moves(t, "handling")

(* The drain is cancelled while its stream waits to be admitted ... *)
CancelAdmission(t) ==
  /\ at[t] = "admission"
  /\ Scheduler!CancelWaiting(t)
  /\ UNCHANGED at

(* ... and the cancellation ends the stream: no handler was created. *)
AdmissionCancelled(t) ==
  /\ at[t] = "admission"
  /\ Scheduler!Withdraw(t)
  /\ Moves(t, "over")

(* The handler yields an event, which the stream yields to the drain. *)
Yield(t) ==
  /\ at[t] = "handling"
  /\ Moves(t, "yielded")
  /\ UNCHANGED schedulerVars

(* The drain has put the event and asks for the next one. *)
AskNext(t) ==
  /\ at[t] = "yielded"
  /\ Moves(t, "handling")
  /\ UNCHANGED schedulerVars

(* The handler returns, raises, or lets through a CancelledError thrown at  *)
(* one of its own awaits, its cleanup done; the stream leaves the admission*)
(* in the same step.                                                       *)
HandlerEnds(t) ==
  /\ at[t] = "handling"
  /\ Scheduler!Exit(t)
  /\ Moves(t, "over")

(* The drain is cancelled at inbox.put, or Harness._commit raises on what   *)
(* the stream has yielded: nobody iterates the stream any more and nothing *)
(* has closed it.                                                          *)
Abandon(t) ==
  /\ at[t] = "yielded"
  /\ Moves(t, "abandoned")
  /\ UNCHANGED schedulerVars

(* Mutant: closing an abandoned stream does not leave the admission. *)
CloseStreamOnly(t) ==
  /\ at[t] = "abandoned"
  /\ Moves(t, "orphaned")
  /\ UNCHANGED schedulerVars

(* The hook closes the stream: GeneratorExit at its yield leaves the        *)
(* admission; the handler is suspended at its own yield.                   *)
CloseStream(t) ==
  /\ at[t] = "abandoned"
  /\ Scheduler!Exit(t)
  /\ Moves(t, "orphaned")

(* The hook closes the handler, whose cleanup begins to run ... *)
CloseHandler(t) ==
  /\ at[t] = "orphaned"
  /\ Moves(t, "cleanup")
  /\ UNCHANGED schedulerVars

(* ... and ends. *)
CleanupEnds(t) ==
  /\ at[t] = "cleanup"
  /\ Moves(t, "over")
  /\ UNCHANGED schedulerVars

AllOver ==
  /\ \A t \in Ticket : at[t] = "over"
  /\ UNCHANGED vars

Next ==
  \/ \E t \in Ticket :
       \/ Begin(t) \/ Admitted(t) \/ CancelAdmission(t) \/ AdmissionCancelled(t)
       \/ Yield(t) \/ AskNext(t) \/ HandlerEnds(t)
       \/ Abandon(t) \/ CloseStream(t) \/ CloseHandler(t) \/ CleanupEnds(t)
  \/ AllOver

Spec == Init /\ [][Next]_vars

-----------------------------------------------------------------------------
(* The stream has been admitted and not been closed. *)
Open(t) == at[t] \in {"handling", "yielded", "abandoned"}

(* The handler's code is being executed, or waits at an await of its own. *)
HandlerRuns(t) == at[t] \in {"handling", "cleanup"}

TypeOK ==
  /\ Scheduler!TypeOK
  /\ at \in [Ticket -> {"unstarted", "admission", "handling", "yielded", "abandoned",
                        "orphaned", "cleanup", "over"}]
  /\ \A t \in Ticket :
       pc[t] = CASE at[t] = "unstarted" -> "new"
                 [] at[t] = "admission" -> "waiting"
                 [] at[t] \in {"handling", "yielded", "abandoned"} -> "body"
                 [] OTHER -> "left"

(* Streams whose claims conflict are never open at the same time, an        *)
(* abandoned stream included: it keeps its admission until it is closed.   *)
OpenStreamsExclude ==
  \A t, u \in Ticket : t # u /\ Open(t) /\ Open(u) => ~ Scheduler!Clash(t, u)

(* A dispatch that is kept waiting is kept waiting by a stream whose claims *)
(* clash and that is still there: one that is open, one whose task has been *)
(* admitted and not woken up, or an older one that waits too.  Nobody waits *)
(* for a stream that has ended, that was cancelled while it waited, or that *)
(* was abandoned and has been closed, its handler still cleaning up or not. *)
WaitsForAStream ==
  \A t \in Ticket :
    at[t] = "admission" /\ granted[t] = "pending" =>
      \E u \in Ticket :
        /\ Scheduler!Clash(u, t)
        /\ \/ Open(u)
           \/ at[u] = "admission" /\ (u \in active \/ Scheduler!Older(u, t))

(* "hold scheduler admission across each handler stream" (runtime.py:105),  *)
(* "one admission covering its full lifetime" (runtime.py:123): whenever    *)
(* the handler's code runs, its dispatch is admitted.                      *)
AdmissionCoversHandler ==
  \A t \in Ticket : HandlerRuns(t) => t \in active

=============================================================================
