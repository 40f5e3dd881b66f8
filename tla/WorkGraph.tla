------------------------------ MODULE WorkGraph ------------------------------
(***************************************************************************)
(* What a RunPump promises (kernel/contracts.py: "Primary work-graph       *)
(* stream"), without queues, tasks or counters: commands emit events,      *)
(* events are reacted to one at a time and then handed out, reactions      *)
(* produce commands, and the stream ends when nothing of the graph is left,*)
(* or when something has gone wrong.                                       *)
(***************************************************************************)
EXTENDS Naturals, Sequences

CONSTANT MaxCommands, MaxEvents   (* bounds: commands of a run, events of each *)

Command == 1 .. MaxCommands     (* numbered in the order they are produced   *)
NoEvent == <<0, 0>>             (* the cause of the root                     *)

VARIABLES
  limit,     (* how many commands may start                                *)
  cause,     (* the event that produced each command                       *)
  started,   (* number of commands started                                 *)
  running,   (* commands started whose handler has not ended               *)
  broken,    (* commands whose handler raised                              *)
  emitted,   (* number of events each command has emitted                  *)
  shown,     (* number of events of each command handed out, in order      *)
  reacting,  (* the event in the hands of the stream                       *)
  outcome,   (* "none", "finished", "raised" or "closed"                   *)
  ended      (* the stream is over for its consumer                        *)

vars == <<limit, cause, started, running, broken, emitted, shown, reacting, outcome, ended>>

Init ==
  /\ limit \in Nat
  /\ cause = <<NoEvent>>
  /\ started = 0
  /\ running = {} /\ broken = {}
  /\ emitted = [c \in Command |-> 0] /\ shown = emitted
  /\ reacting = NoEvent
  /\ outcome = "none" /\ ended = FALSE

(* Commands start in the order they were produced, within the limit. *)
Start ==
  /\ outcome = "none"
  /\ started < Len(cause) /\ started < limit
  /\ started' = started + 1
  /\ running' = running \cup {started'}
  /\ UNCHANGED <<limit, cause, broken, emitted, shown, reacting, outcome, ended>>

Emit(c) ==
  /\ c \in running
  /\ emitted' = [emitted EXCEPT ![c] = @ + 1]
  /\ UNCHANGED <<limit, cause, started, running, broken, shown, reacting, outcome, ended>>

End(c) ==
  /\ c \in running
  /\ running' = running \ {c}
  /\ broken' \in {broken, broken \cup {c}}
  /\ UNCHANGED <<limit, cause, started, emitted, shown, reacting, outcome, ended>>

(* The next event of c, whose own cause has been handed out before. *)
IsNext(e) ==
  LET c == e[1] IN
  /\ c \in 1 .. started
  /\ e[2] = shown[c] + 1 /\ e[2] <= emitted[c]
  /\ cause[c] # NoEvent => cause[c][2] <= shown[cause[c][1]]

(* Reactions are serialized: the event that is reacted to produces its      *)
(* commands, or the reaction raises; or the event is taken by a stream that *)
(* is closed before it has reacted.                                        *)
React(e) ==
  /\ outcome = "none" /\ reacting = NoEvent
  /\ IsNext(e)
  /\ reacting' = e
  /\ \/ /\ \E n \in 0 .. MaxCommands - Len(cause) : cause' = cause \o [i \in 1 .. n |-> e]
        /\ UNCHANGED outcome
     \/ /\ outcome' \in {"raised", "closed"}
        /\ UNCHANGED cause
  /\ UNCHANGED <<limit, started, running, broken, emitted, shown, ended>>

Show ==
  /\ outcome = "none" /\ reacting # NoEvent
  /\ shown' = [shown EXCEPT ![reacting[1]] = @ + 1]
  /\ reacting' = NoEvent
  /\ UNCHANGED <<limit, cause, started, running, broken, emitted, outcome, ended>>

(* Success is told only of a whole graph: every command produced was run,  *)
(* none of them raised, and every event was reacted to and handed out.     *)
Finish ==
  /\ outcome = "none" /\ reacting = NoEvent
  /\ started = Len(cause) /\ running = {} /\ broken = {}
  /\ shown = emitted
  /\ outcome' = "finished"
  /\ UNCHANGED <<limit, cause, started, running, broken, emitted, shown, reacting, ended>>

(* An error is told only if a handler raised, or if the limit kept a        *)
(* command from starting.                                                  *)
Raise ==
  /\ outcome = "none"
  /\ broken # {} \/ (started = limit /\ limit < Len(cause))
  /\ outcome' = "raised"
  /\ UNCHANGED <<limit, cause, started, running, broken, emitted, shown, reacting, ended>>

Close ==
  /\ outcome = "none"
  /\ outcome' = "closed"
  /\ UNCHANGED <<limit, cause, started, running, broken, emitted, shown, reacting, ended>>

(* However it ends, a run leaves no handler behind. *)
Leave ==
  /\ outcome # "none" /\ ~ ended
  /\ running = {}
  /\ ended' = TRUE
  /\ UNCHANGED <<limit, cause, started, running, broken, emitted, shown, reacting, outcome>>

Next ==
  \/ Start
  \/ \E c \in Command : Emit(c) \/ End(c)
  \/ \E e \in Command \X (1 .. MaxEvents) : React(e)
  \/ Show \/ Finish \/ Raise \/ Close \/ Leave

Spec == Init /\ [][Next]_vars

=============================================================================
