--------------------------- MODULE ConcurrentRuns ---------------------------
(***************************************************************************)
(* Several runs over one InMemoryCommandBus and its scheduler: the dispatch*)
(* streams of module CommandDispatch, fed back to their runs.              *)
(*                                                                         *)
(* A drain puts every event of its handler in the inbox of its run, of     *)
(* bounded size, and asks its handler for nothing more until the put       *)
(* completes; the run's stream takes an event only when its consumer pulls.*)
(* Once the work of a run is over, Harness._commit dispatches one more     *)
(* command, which it iterates itself, on the same scheduler.               *)
(***************************************************************************)
EXTENDS CommandDispatch, Relation

CONSTANTS
  Run,        (* the runs that share the buses                             *)
  Commit,     (* the dispatches made by Harness._commit                    *)
  RunOf,      (* the run of every dispatch                                 *)
  InboxSize   (* inbox_size of the pumps                                   *)

ASSUME RunsAssumption == Commit \subseteq Ticket /\ RunOf \in [Ticket -> Run]
ASSUME InboxAssumption == InboxSize \in Nat \ {0}

VARIABLES
  inbox,      (* number of events in the inbox of each run                 *)
  run         (* each run as its consumer leaves it: "pulled", "stalled"   *)
              (* (never pulled again), "ended" (its work is closed and it  *)
              (* may commit), "dropped" (closed without a commit)          *)

allVars == <<vars, inbox, run>>
runVars == <<inbox, run>>

Work(r) == {t \in Ticket \ Commit : RunOf[t] = r}

-----------------------------------------------------------------------------
RunsInit ==
  /\ Init
  /\ inbox = [r \in Run |-> 0]
  /\ run = [r \in Run |-> "pulled"]

(* The supervisor starts a drain; or the work stream of the run has ended,  *)
(* no drain being left, and the harness commits.                           *)
Dispatch(t) ==
  /\ \/ t \notin Commit /\ run[RunOf[t]] \in {"pulled", "stalled"}
     \/ /\ t \in Commit /\ run[RunOf[t]] = "ended"
        /\ \A w \in Work(RunOf[t]) :
             at[w] \in {"unstarted", "abandoned", "orphaned", "cleanup", "over"}
  /\ Begin(t)
  /\ UNCHANGED runVars

(* A cancelled handler yields nothing more (see module RuntimePump). *)
YieldEvent(t) ==
  /\ t \in Commit \/ run[RunOf[t]] \in {"pulled", "stalled"}
  /\ Yield(t)
  /\ UNCHANGED runVars

(* Mutant: the queue takes one event too many. *)
HasRoomForOneMore(r) == inbox[r] <= InboxSize

HasRoom(r) == inbox[r] < InboxSize

(* inbox.put(event), when there is room; then the drain asks for the next.  *)
PutEvent(t) ==
  /\ t \notin Commit
  /\ HasRoom(RunOf[t])
  /\ inbox' = [inbox EXCEPT ![RunOf[t]] = @ + 1]
  /\ AskNext(t)
  /\ UNCHANGED run

(* _commit keeps the terminal event and asks whether there is another. *)
(* That it keeps one only is Harness's (CommitEvent there).             *)
KeepTerminal(t) == t \in Commit /\ AskNext(t) /\ UNCHANGED runVars

(* _commit raises on a second or a mismatched event. *)
RejectTerminal(t) == t \in Commit /\ Abandon(t) /\ UNCHANGED runVars

(* The dispatch streams that the closing of a run, or its end, cancels. *)
Cancelled(t) == run[RunOf[t]] \in (IF t \in Commit THEN {"dropped"} ELSE {"ended", "dropped"})

(* Mutant: only a drain that waits at inbox.put is reached. *)
CancelPut(t) == Cancelled(t) /\ Abandon(t) /\ UNCHANGED runVars

(* run_envelope's finally cancels its supervisor, whose TaskGroup cancels   *)
(* the drains; the consumer's own cancellation reaches a commit where it is *)
(* suspended.                                                              *)
Cancel(t) ==
  /\ Cancelled(t)
  /\ CancelAdmission(t) \/ (t \notin Commit /\ Abandon(t))
  /\ UNCHANGED runVars

(* The stream of the run takes an event, reacts and hands it to a consumer  *)
(* that pulls.                                                             *)
Take(r) ==
  /\ run[r] = "pulled"
  /\ inbox[r] > 0
  /\ inbox' = [inbox EXCEPT ![r] = @ - 1]
  /\ UNCHANGED <<vars, run>>

(* The consumer stops pulling without closing the stream. *)
Stall(r) ==
  /\ run[r] = "pulled"
  /\ run' = [run EXCEPT ![r] = "stalled"]
  /\ UNCHANGED <<vars, inbox>>

(* The work stream ends, fails or is cancelled through Harness.cancel, and  *)
(* the harness closes it.  A consumer that does not pull gives the harness *)
(* no chance to notice any of these.                                       *)
End(r) ==
  /\ run[r] = "pulled"
  /\ run' = [run EXCEPT ![r] = "ended"]
  /\ UNCHANGED <<vars, inbox>>

(* The consumer goes away; or a drain of a stalled run fails, and the       *)
(* TaskGroup cancels the others.                                           *)
Drop(r) ==
  /\ run[r] # "dropped"
  /\ run' = [run EXCEPT ![r] = "dropped"]
  /\ UNCHANGED <<vars, inbox>>

(* The handler of t ends, having been cancelled or not. *)
HandlerStep(t) == HandlerEnds(t) /\ UNCHANGED runVars

(* What the event loop does next with the task of t, or with the task that  *)
(* closes its generators.                                                  *)
TaskStep(t) ==
  \/ PutEvent(t) \/ KeepTerminal(t) \/ Cancel(t)
  \/ /\ \/ Admitted(t) \/ AdmissionCancelled(t)
        \/ CloseStream(t) \/ CloseHandler(t) \/ CleanupEnds(t)
     /\ UNCHANGED runVars

RunsNext ==
  \/ \E t \in Ticket :
       \/ Dispatch(t) \/ YieldEvent(t) \/ RejectTerminal(t)
       \/ HandlerStep(t) \/ TaskStep(t)
  \/ \E r \in Run : Take(r) \/ Stall(r) \/ End(r) \/ Drop(r)

(* The event loop runs every task that can go on, the closing of generators *)
(* that are unreachable and the cleanup of handlers included; a handler    *)
(* that is asked for events often enough ends.  Nothing makes a consumer   *)
(* pull, other than its being in the state "pulled".                       *)
RunsFairness ==
  /\ \A t \in Ticket : WF_allVars(TaskStep(t)) /\ SF_allVars(HandlerStep(t))
  /\ \A r \in Run : WF_allVars(Take(r))

RunsSpec == RunsInit /\ [][RunsNext]_allVars /\ RunsFairness

-----------------------------------------------------------------------------
RunsTypeOK ==
  /\ TypeOK
  /\ inbox \in [Run -> 0 .. InboxSize]
  /\ run \in [Run -> {"pulled", "stalled", "ended", "dropped"}]

(* u keeps t from being admitted: their claims clash, and u is admitted or  *)
(* has waited for longer.                                                  *)
Blocks(u, t) ==
  /\ Scheduler!Clash(u, t)
  /\ u \in active \/ (u \in pending /\ Scheduler!Older(u, t))

(* A handler of a run that nobody pulls, stopped by the full inbox. *)
Stuck(u) ==
  /\ run[RunOf[u]] = "stalled"
  /\ inbox[RunOf[u]] = InboxSize
  /\ at[u] = "yielded"

Chain == TransitiveClosure([p \in Ticket \X Ticket |-> Blocks(p[1], p[2])], Ticket)

(* A dispatch, of work or of a commit, is kept waiting for ever only by a   *)
(* run whose consumer has stopped pulling without closing it, and only     *)
(* through a chain of clashing claims that starts at a handler of that run *)
(* (conflict FIFO lengthens the chain: a dispatch that does not clash with *)
(* the stuck one waits behind a third that does).                          *)
StallContained ==
  \A t \in Ticket : []<>(at[t] = "admission" => \E u \in Ticket : Stuck(u) /\ Chain[u, t])

(* A run that ends or is dropped leaves nothing behind, even if others stay *)
(* stalled: none of its dispatches is waiting, running or abandoned.       *)
(* (README.md:82-84: cancelling the consumer guarantees cleanup.)          *)
CloseReleases ==
  \A r \in Run :
    []<>(run[r] \in {"ended", "dropped"} => \A t \in Work(r) : at[t] \in {"unstarted", "over"})

=============================================================================
