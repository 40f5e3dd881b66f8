----------------------------- MODULE RuntimePump -----------------------------
(***************************************************************************)
(* kernel/runtime.py: one execution of RuntimePump.run_envelope.           *)
(*                                                                         *)
(*   drain      one task per command: runs its handler, feeds the inbox    *)
(*   supervise  owns the drains in a TaskGroup, takes control messages,    *)
(*              counts work in flight and decides when the run is over     *)
(*   the stream the async generator itself: takes events, publishes them,  *)
(*              sends the produced commands and hands the event out        *)
(*                                                                         *)
(* Tasks of one event loop switch only where they suspend; state_lock is   *)
(* never held across a suspension, so each locked section is atomic.  The  *)
(* queues and the TaskGroup are asyncio's, modelled by their contracts: a  *)
(* blocked put may complete whenever there is room (a producer that finds  *)
(* room does not queue up behind blocked ones), and the first child to     *)
(* fail makes the group cancel the others, which then keep running until   *)
(* they have handled the cancellation.                                     *)
(***************************************************************************)
EXTENDS Naturals, Sequences, FiniteSets

CONSTANTS
  InboxSize,        (* inbox_size: capacity of inbox and of control        *)
  Limits,           (* the max_steps arguments to choose from              *)
  MaxCommands,      (* bound: commands created in a run, the root included *)
  MaxEvents,        (* bound: events that one handler yields               *)
  EmitsAfterCancel  (* may a handler that caught CancelledError yield?     *)

ASSUME SizeAssumption == InboxSize \in Nat \ {0}
ASSUME LimitsAssumption == Limits \subseteq Nat \ {0}
ASSUME BoundsAssumption == MaxCommands \in Nat \ {0} /\ MaxEvents \in Nat
ASSUME EmitsAssumption == EmitsAfterCancel \in BOOLEAN

Drain == 1 .. MaxCommands    (* drains are numbered in the order they start *)
Event == Drain \X (1 .. MaxEvents)
NoEvent == <<0, 0>>

VARIABLES
  inbox,          (* the queue of produced events                          *)
  control,        (* the queue of control messages: "start", "ack", "fin"  *)
  pendingEvents,  (* pending_events                                        *)
  activeTasks,    (* active_tasks                                          *)
  steps,          (* steps                                                 *)
  maxSteps,       (* max_steps (a limit above MaxCommands stands for None) *)
  cause,          (* causation of the commands created, in that order,     *)
                  (* which is the order control takes them in              *)
  supervisor,     (* where the supervise task is                           *)
  supervisorError,(* the errors collected by its TaskGroup                 *)
  tasks,          (* the children the TaskGroup has not seen the end of    *)
  drain,          (* where each drain is                                   *)
  result,         (* how its handler, then its task, ended                 *)
  cancel,         (* cancellation of a drain: "no", "sent", "caught"       *)
  emitted,        (* events its handler has yielded                        *)
  stream,         (* where the generator is                                *)
  current,        (* the event in the generator's hands                    *)
  toSend,         (* produced commands not yet sent                        *)
  delivered,      (* events of each drain handed out                       *)
  outcome         (* how the generator ends                                *)

queues     == <<inbox, control>>
startVars  == <<activeTasks, steps, maxSteps>>
countVars  == <<pendingEvents, startVars>>
groupVars  == <<supervisor, supervisorError, tasks>>
drainVars  == <<drain, result, cancel, emitted>>
streamVars == <<stream, current, toSend, delivered, outcome, cause>>
vars == <<queues, countVars, groupVars, drainVars, streamVars>>

-----------------------------------------------------------------------------
(* RuntimeExecutionError("command_handler"), and StepBudgetLimitReached. *)
Errors == {"handler", "budget"}

HasRoom(queue) == Len(queue) < InboxSize

(* EnvelopeFactory.create for n commands that reactions to event e produce. *)
Caused(e, n) == [i \in 1 .. n |-> e]

(* TaskGroup._abort: cancel every child that has not ended. *)
CancelChildren(children) ==
  cancel' = [d \in Drain |->
               IF d \in children /\ drain[d] # "ended" /\ cancel[d] = "no"
               THEN "sent" ELSE cancel[d]]

(* start(current): the budget check, then create_task(drain(current)). *)
StartDrain ==
  /\ steps + 1 <= maxSteps
  /\ steps' = steps + 1
  /\ activeTasks' = activeTasks + 1
  /\ tasks' = tasks \cup {steps'}
  /\ drain' = [drain EXCEPT ![steps'] = "running"]
  /\ UNCHANGED <<pendingEvents, maxSteps, result, cancel, emitted>>

(* Mutants: an event is uncounted twice; or not at all. *)
UncountTwice == pendingEvents' = pendingEvents - 2
UncountNothing == UNCHANGED pendingEvents

(* pending_events -= 1, for an acknowledged event or a cancelled put. *)
Uncount == pendingEvents' = pendingEvents - 1

Init ==
  /\ inbox = <<>> /\ control = <<>>
  /\ pendingEvents = 0 /\ activeTasks = 0 /\ steps = 0
  /\ maxSteps \in Limits
  /\ cause = <<NoEvent>>
  /\ supervisor = "created" /\ supervisorError = {} /\ tasks = {}
  /\ drain = [d \in Drain |-> "none"]
  /\ result = [d \in Drain |-> "none"]
  /\ cancel = [d \in Drain |-> "no"]
  /\ emitted = [d \in Drain |-> 0]
  /\ stream = "waiting" /\ current = NoEvent /\ toSend = 0
  /\ delivered = [d \in Drain |-> 0]
  /\ outcome = "none"

-----------------------------------------------------------------------------
(* drain.  A task cancelled before its first step ends like one whose       *)
(* handler was cancelled, so "running" covers the created task too.        *)

(* The handler yields an event: it is counted, then put in the inbox. *)
Emit(d) ==
  /\ drain[d] = "running"
  /\ cancel[d] = "no" \/ (cancel[d] = "caught" /\ EmitsAfterCancel)
  /\ emitted[d] < MaxEvents
  /\ emitted' = [emitted EXCEPT ![d] = @ + 1]
  /\ pendingEvents' = pendingEvents + 1
  /\ \/ /\ HasRoom(inbox)
        /\ inbox' = Append(inbox, <<d, emitted'[d]>>)
        /\ UNCHANGED drain
     \/ /\ ~ HasRoom(inbox)
        /\ drain' = [drain EXCEPT ![d] = "putting"]
        /\ UNCHANGED inbox
  /\ UNCHANGED <<control, startVars, groupVars, result, cancel, streamVars>>

(* A blocked `await inbox.put(event)` completes. *)
Put(d) ==
  /\ drain[d] = "putting"
  /\ cancel[d] # "sent"
  /\ HasRoom(inbox)
  /\ inbox' = Append(inbox, <<d, emitted[d]>>)
  /\ drain' = [drain EXCEPT ![d] = "running"]
  /\ UNCHANGED <<control, countVars, groupVars, result, cancel, emitted, streamVars>>

(* The task of d ends with result r, and reports it to nobody. *)
Ends(d, r) ==
  /\ drain' = [drain EXCEPT ![d] = "ended"]
  /\ result' = [result EXCEPT ![d] = r]
  /\ UNCHANGED <<queues, startVars, groupVars, cancel, emitted, streamVars>>

(* A blocked put is cancelled: the event is uncounted and the task ends. *)
PutCancelled(d) ==
  /\ drain[d] = "putting"
  /\ cancel[d] = "sent"
  /\ Uncount
  /\ Ends(d, "cancelled")

(* A handler catches the CancelledError and carries on: cleanup, mostly. *)
CatchCancel(d) ==
  /\ drain[d] = "running"
  /\ cancel[d] = "sent"
  /\ cancel' = [cancel EXCEPT ![d] = "caught"]
  /\ UNCHANGED <<queues, countVars, groupVars, drain, result, emitted, streamVars>>

(* The handler ends: normally, with an error, or with CancelledError (its   *)
(* own or the group's).  The finally block reports it, unless the task was *)
(* cancelled.                                                              *)
HandlerEnds(d) ==
  /\ drain[d] = "running"
  /\ cancel[d] = "no"
  /\ \E r \in {"ok", "error", "cancelled"} : result' = [result EXCEPT ![d] = r]
  /\ \/ /\ HasRoom(control)
        /\ control' = Append(control, "fin")
        /\ drain' = [drain EXCEPT ![d] = "ended"]
     \/ /\ ~ HasRoom(control)
        /\ drain' = [drain EXCEPT ![d] = "finishing"]
        /\ UNCHANGED control
  /\ UNCHANGED <<inbox, countVars, groupVars, cancel, emitted, streamVars>>

HandlerEndsCancelled(d) ==
  /\ drain[d] = "running"
  /\ cancel[d] # "no"
  /\ \E r \in {"ok", "error", "cancelled"} : Ends(d, r)
  /\ UNCHANGED pendingEvents

(* The blocked `await control.put(_DrainFinished())` completes ... *)
FinPut(d) ==
  /\ drain[d] = "finishing"
  /\ cancel[d] = "no"
  /\ HasRoom(control)
  /\ control' = Append(control, "fin")
  /\ drain' = [drain EXCEPT ![d] = "ended"]
  /\ UNCHANGED <<inbox, countVars, groupVars, result, cancel, emitted, streamVars>>

(* ... or is cancelled, which replaces whatever the handler ended with. *)
FinCancelled(d) ==
  /\ drain[d] = "finishing"
  /\ cancel[d] = "sent"
  /\ Ends(d, "cancelled")
  /\ UNCHANGED pendingEvents

-----------------------------------------------------------------------------
(* The TaskGroup and supervise.                                             *)

(* TaskGroup._on_task_done.  The first error makes the group cancel the     *)
(* other children and the supervise task; a cancelled child is just gone.  *)
TaskDone(d) ==
  /\ d \in tasks
  /\ drain[d] = "ended"
  /\ tasks' = tasks \ {d}
  /\ \/ /\ result[d] # "error"
        /\ UNCHANGED <<supervisor, supervisorError, cancel>>
     \/ /\ result[d] = "error"
        /\ supervisorError' = supervisorError \cup {"handler"}
        /\ supervisor' = "aborting"
        /\ IF supervisor = "aborting" THEN UNCHANGED cancel ELSE CancelChildren(tasks')
  /\ UNCHANGED <<queues, countVars, drain, result, emitted, streamVars>>

(* The first step of supervise: start the root command. *)
Supervise ==
  /\ supervisor = "created"
  /\ supervisor' = "running"
  /\ StartDrain
  /\ UNCHANGED <<queues, supervisorError, streamVars>>

(* control.get() returns a message. *)
Get(message) ==
  /\ supervisor = "running"
  /\ control # <<>> /\ Head(control) = message
  /\ control' = Tail(control)
  /\ UNCHANGED <<inbox, streamVars>>

(* Mutants: events in flight do not keep the run going; an acknowledgement  *)
(* is not followed by the test.                                            *)
ThenTestNoEvents(message) ==
  supervisor' = IF activeTasks' = 0 /\ control' = <<>> THEN "exiting" ELSE "running"

ThenTestIdleUnlessAck(message) ==
  supervisor' = IF message # "ack" /\ activeTasks' = 0 /\ pendingEvents' = 0 /\ control' = <<>>
                THEN "exiting" ELSE "running"

(* The idle test that follows every control message. *)
ThenTestIdle(message) ==
  supervisor' = IF activeTasks' = 0 /\ pendingEvents' = 0 /\ control' = <<>>
                THEN "exiting" ELSE "running"

(* _StartCommand: start the command ... *)
GetStart ==
  /\ Get("start")
  /\ StartDrain
  /\ ThenTestIdle("start")
  /\ UNCHANGED supervisorError

(* ... or raise StepBudgetLimitReached out of the TaskGroup, which aborts. *)
GetStartOverBudget ==
  /\ Get("start")
  /\ steps + 1 > maxSteps
  /\ supervisor' = "aborting"
  /\ supervisorError' = supervisorError \cup {"budget"}
  /\ CancelChildren(tasks)
  /\ UNCHANGED <<countVars, tasks, drain, result, emitted>>

(* _EventAcknowledged. *)
GetAck ==
  /\ Get("ack")
  /\ Uncount
  /\ UNCHANGED activeTasks
  /\ ThenTestIdle("ack")
  /\ UNCHANGED <<steps, maxSteps, supervisorError, tasks, drainVars>>

(* _DrainFinished. *)
GetFin ==
  /\ Get("fin")
  /\ activeTasks' = activeTasks - 1
  /\ UNCHANGED pendingEvents
  /\ ThenTestIdle("fin")
  /\ UNCHANGED <<steps, maxSteps, supervisorError, tasks, drainVars>>

(* TaskGroup.__aexit__ returns when the last child is gone; then            *)
(* supervisor_done is set.                                                 *)
SupervisorEnds ==
  /\ supervisor \in {"exiting", "aborting"}
  /\ tasks = {}
  /\ supervisor' = "done"
  /\ UNCHANGED <<queues, countVars, supervisorError, tasks, drainVars, streamVars>>

-----------------------------------------------------------------------------
(* The stream.                                                              *)

(* Mutant: the supervise task is awaited but not cancelled. *)
LeaveSupervisor == UNCHANGED <<supervisor, cancel>>

(* supervisor.cancel().  A task that has not begun never runs; one that     *)
(* aborts already stays as it is.                                          *)
CancelSupervisor ==
  \/ /\ supervisor = "created"
     /\ supervisor' = "done"
     /\ UNCHANGED cancel
  \/ /\ supervisor \in {"running", "exiting"}
     /\ supervisor' = "aborting"
     /\ CancelChildren(tasks)
  \/ /\ supervisor \in {"aborting", "done"}
     /\ UNCHANGED <<supervisor, cancel>>

(* Leaving the main loop with outcome o, into the finally block. *)
Finally(o) ==
  /\ stream' = "closing"
  /\ outcome' = o
  /\ CancelSupervisor
  /\ UNCHANGED <<control, countVars, supervisorError, tasks, drain, result, emitted>>
  /\ UNCHANGED <<toSend, delivered, cause>>

(* next_event returns an event ... *)
NextEvent ==
  /\ stream = "waiting"
  /\ inbox # <<>>
  /\ inbox' = Tail(inbox)
  /\ current' = Head(inbox)

(* ... and publish runs the reactions synchronously: they return n          *)
(* commands, at most as many as the bound leaves ...                       *)
React ==
  /\ NextEvent
  /\ \E n \in 0 .. MaxCommands - Len(cause) :
       toSend' = n /\ cause' = cause \o Caused(current', n)
  /\ stream' = "sending"
  /\ UNCHANGED <<control, countVars, groupVars, drainVars, delivered, outcome>>

(* ... or one of them raises. *)
ReactionFails == NextEvent /\ Finally("raised")

(* Mutant: the supervisor's error is not looked at. *)
NeverRaises(otherwise) == otherwise

(* supervisor_error is raised if there is one. *)
RaisesOr(otherwise) == IF supervisorError # {} THEN "raised" ELSE otherwise

(* next_event finds the inbox empty and the supervisor done. *)
StreamStops ==
  /\ stream = "waiting"
  /\ inbox = <<>>
  /\ supervisor = "done"
  /\ Finally(RaisesOr("finished"))
  /\ UNCHANGED <<inbox, current>>

(* send_control(_StartCommand(child)): a put with room succeeds even when   *)
(* the supervisor has gone; nobody will take the message.                  *)
SendStart ==
  /\ stream = "sending"
  /\ toSend > 0
  /\ HasRoom(control)
  /\ control' = Append(control, "start")
  /\ toSend' = toSend - 1
  /\ UNCHANGED <<inbox, countVars, groupVars, drainVars, stream, current, delivered, outcome, cause>>

(* send_control(_EventAcknowledged()), then the event is yielded. *)
SendAck ==
  /\ stream = "sending"
  /\ toSend = 0
  /\ HasRoom(control)
  /\ control' = Append(control, "ack")
  /\ stream' = "yielded"
  /\ current' = NoEvent
  /\ delivered' = [delivered EXCEPT ![current[1]] = @ + 1]
  /\ UNCHANGED <<inbox, countVars, groupVars, drainVars, toSend, outcome, cause>>

(* send_control finds control full and the supervisor done ("runtime        *)
(* supervisor stopped before accepting control", if it has no error).      *)
SendRefused ==
  /\ stream = "sending"
  /\ ~ HasRoom(control)
  /\ supervisor = "done"
  /\ Finally(RaisesOr("stopped"))
  /\ UNCHANGED <<inbox, current>>

(* The consumer asks for the next event.  (RuntimePump.run, through which   *)
(* others than the harness run a command, only passes on what is asked.)   *)
Pull ==
  /\ stream = "yielded"
  /\ stream' = "waiting"
  /\ UNCHANGED <<queues, countVars, groupVars, drainVars, current, toSend, delivered, outcome, cause>>

(* The consumer closes the stream at a yield ... *)
CloseAtYield ==
  /\ stream = "yielded"
  /\ Finally("closed")
  /\ UNCHANGED <<inbox, current>>

(* ... or its task is cancelled at any other suspension point.  The read    *)
(* that next_event then cancels may have taken an event already: it is     *)
(* lost, with nobody to acknowledge it.  (A send that has been completed   *)
(* by then is SendStart or SendAck, before this step.)                     *)
Interrupt ==
  /\ \/ stream \in {"waiting", "sending"} /\ UNCHANGED <<inbox, current>>
     \/ NextEvent
  /\ Finally("closed")

(* gather(supervisor) returns: the generator has ended. *)
StreamEnds ==
  /\ stream = "closing"
  /\ supervisor = "done"
  /\ stream' = "ended"
  /\ UNCHANGED <<queues, countVars, groupVars, drainVars, current, toSend, delivered, outcome, cause>>

Ended ==
  /\ stream = "ended"
  /\ UNCHANGED vars

-----------------------------------------------------------------------------
DrainStep(d) ==
  \/ Emit(d) \/ Put(d) \/ PutCancelled(d) \/ CatchCancel(d) \/ HandlerEnds(d)
  \/ HandlerEndsCancelled(d) \/ FinPut(d) \/ FinCancelled(d) \/ TaskDone(d)

SupervisorStep ==
  Supervise \/ GetStart \/ GetStartOverBudget \/ GetAck \/ GetFin \/ SupervisorEnds

StreamStep ==
  React \/ ReactionFails \/ StreamStops \/ SendStart \/ SendAck \/ SendRefused \/ StreamEnds

Next ==
  \/ \E d \in Drain : DrainStep(d)
  \/ SupervisorStep
  \/ StreamStep
  \/ Pull \/ CloseAtYield \/ Interrupt
  \/ Ended

Spec == Init /\ [][Next]_vars

(* The event loop runs every task that can go on; a handler is assumed to   *)
(* end, whether or not it is cancelled.                                    *)
LoopFairness ==
  /\ \A d \in Drain :
       /\ WF_vars(Put(d) \/ PutCancelled(d))
       /\ WF_vars(HandlerEnds(d) \/ HandlerEndsCancelled(d))
       /\ WF_vars(FinPut(d) \/ FinCancelled(d))
       /\ WF_vars(TaskDone(d))
  /\ WF_vars(SupervisorStep)
  /\ WF_vars(StreamStep)

FairSpec == Spec /\ LoopFairness

(* A consumer that keeps asking for events. *)
PullingSpec == FairSpec /\ WF_vars(Pull)

-----------------------------------------------------------------------------
Live == {d \in Drain : drain[d] \in {"running", "putting", "finishing"}}
Blocked == {d \in Drain : drain[d] = "putting"}
InControl(message) == Cardinality({i \in DOMAIN control : control[i] = message})

TypeOK ==
  /\ inbox \in Seq(Event) /\ Len(inbox) <= InboxSize
  /\ control \in Seq({"start", "ack", "fin"}) /\ Len(control) <= InboxSize
  /\ pendingEvents \in Nat /\ activeTasks \in Nat /\ steps \in 0 .. MaxCommands
  /\ maxSteps \in Limits
  /\ cause \in Seq(Event \cup {NoEvent}) /\ Len(cause) <= MaxCommands
  /\ supervisor \in {"created", "running", "exiting", "aborting", "done"}
  /\ supervisorError \subseteq Errors
  /\ tasks \subseteq Drain
  /\ drain \in [Drain -> {"none", "running", "putting", "finishing", "ended"}]
  /\ result \in [Drain -> {"none", "ok", "error", "cancelled"}]
  /\ cancel \in [Drain -> {"no", "sent", "caught"}]
  /\ emitted \in [Drain -> 0 .. MaxEvents]
  /\ stream \in {"waiting", "sending", "yielded", "closing", "ended"}
  /\ current \in Event \cup {NoEvent}
  /\ toSend \in 0 .. MaxCommands
  /\ delivered \in [Drain -> 0 .. MaxEvents]
  /\ outcome \in {"none", "raised", "finished", "stopped", "closed"}

(* The two counters that decide termination account for the work in flight  *)
(* exactly: an event counts from before it is put until its                *)
(* acknowledgement is taken, wherever it is and even if its put is         *)
(* cancelled; a command counts from its start until its DrainFinished is   *)
(* taken, as long as nothing is cancelled.                                 *)
CountersExact ==
  /\ pendingEvents = Cardinality(Blocked) + Len(inbox) + InControl("ack")
                       + (IF current # NoEvent THEN 1 ELSE 0)
  /\ supervisor \in {"created", "running", "exiting"} =>
       activeTasks = Cardinality(Live) + InControl("fin")

(* supervise takes the run for idle only when nothing is left that could    *)
(* produce anything: no live handler, no event on its way to a reaction,   *)
(* no produced command not yet started.                                    *)
QuiescentStop ==
  supervisor = "exiting" =>
    Live = {} /\ inbox = <<>> /\ control = <<>> /\ stream # "sending"

(* The run is the abstract one: commands start in order and within          *)
(* max_steps; reactions are serialized and follow causes; a stream that    *)
(* ends without raising has handed out every event and run every command;  *)
(* it raises only for a failure or for the budget, never because the       *)
(* supervisor "stopped before accepting control" (runtime.py:285); and     *)
(* however it ends, no handler is left (runtime.py:180, "structured task   *)
(* ownership").                                                            *)
Graph == INSTANCE WorkGraph WITH
  limit    <- maxSteps,
  started  <- steps,
  running  <- Live,
  broken   <- {d \in Drain : drain[d] = "ended" /\ result[d] = "error"},
  shown    <- delivered,
  reacting <- current,
  ended    <- stream = "ended"

ImplementsWorkGraph == Graph!Spec

(* A consumer that keeps pulling reaches the end of the stream: no cycle of *)
(* full queues between drains, supervisor and stream blocks it.            *)
RunEnds == <>(stream = "ended")

(* Closing the stream ends, even if the consumer had stopped pulling with   *)
(* both queues full.  (README.md:82-84: cancelling the consumer            *)
(* "guarantees cleanup of owned work".)                                    *)
CleanupEnds == stream = "closing" ~> stream = "ended"

=============================================================================
