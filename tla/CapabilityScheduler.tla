------------------------ MODULE CapabilityScheduler ------------------------
(***************************************************************************)
(* kernel/scheduler.py: CapabilityScheduler, the admission control every   *)
(* command handler runs under.                                             *)
(*                                                                         *)
(* A ticket is one `async with scheduler.admit(claims)` executed by one    *)
(* asyncio task.  asyncio switches tasks only where a coroutine suspends,  *)
(* and no critical section of self._lock contains an await: the lock is    *)
(* never held across a switch, acquiring it never suspends, and each       *)
(* section is one atomic step.  The only suspension point of the scheduler *)
(* is `await ticket.granted`.                                              *)
(*                                                                         *)
(* The deque _pending only grows at its right end, so it is determined by  *)
(* the set of its tickets and the order they arrived in.                   *)
(***************************************************************************)
EXTENDS Naturals

CONSTANTS
  Ticket,      (* the admission requests made in a behaviour               *)
  Resource,    (* the keys that claims read and write                      *)
  ClaimSet     (* the ExecutionClaims that command planners derive         *)

Claims == [reads : SUBSET Resource, writes : SUBSET Resource, exclusive : BOOLEAN]

ASSUME ClaimsAssumption == ClaimSet \subseteq Claims

VARIABLES
  pc,          (* where the task of each ticket is                         *)
  claims,      (* _Ticket.claims: what the planner derived, never changed  *)
  granted,     (* state of the asyncio future _Ticket.granted              *)
  mustCancel,  (* the task was cancelled after its grant, before it woke   *)
  arrival,     (* position of the ticket in the order of arrival           *)
  clock,       (* number of tickets that have arrived                      *)
  pending,     (* tickets in self._pending                                 *)
  active       (* tickets in self._active                                  *)

vars == <<pc, claims, granted, mustCancel, arrival, clock, pending, active>>

-----------------------------------------------------------------------------
(* _conflicts: two admitted operations must not overlap. *)
Conflicts(left, right) ==
  \/ left.exclusive
  \/ right.exclusive
  \/ left.writes \cap (right.reads \cup right.writes) # {}
  \/ right.writes \cap (left.reads \cup left.writes) # {}

Clash(t, u) == Conflicts(claims[t], claims[u])

Older(t, u) == arrival[t] < arrival[u]

(* Mutants of IsReady: admitted tickets, or older queued ones, forgotten. *)
IsReadyIgnoresActive(t, Q, A) ==
  \A u \in Q : arrival'[u] < arrival'[t] => ~ Clash(t, u)

IsReadyIgnoresOlder(t, Q, A) == \A u \in A : ~ Clash(t, u)

(* _is_ready: no clash with an admitted ticket of A, nor with a ticket of   *)
(* the queue Q that arrived earlier.                                       *)
IsReady(t, Q, A) ==
  /\ \A u \in A : ~ Clash(t, u)
  /\ \A u \in Q : arrival'[u] < arrival'[t] => ~ Clash(t, u)

(* Mutant of ScheduleReady: cancelled tickets stay in the queue, and the    *)
(* future of one that is granted gets a result it cannot take.             *)
ScheduleReadyKeepsCancelled(Q, A, fut) ==
  LET ready == {t \in Q : IsReady(t, Q, A)}
  IN  /\ pending' = Q \ ready
      /\ active' = A \cup ready
      /\ granted' = [t \in Ticket |->
                       IF t \notin ready THEN fut[t]
                       ELSE IF fut[t] = "cancelled" THEN "invalid" ELSE "done"]

(* _schedule_ready, on the queue Q, the admitted set A and the futures fut: *)
(* drop the tickets whose future is cancelled, then scan the queue from its *)
(* head, granting the first ready ticket, until a scan finds none.  A grant *)
(* moves a ticket from "older and pending" to "active", so whatever it      *)
(* blocked stays blocked: the loop grants exactly the tickets that are      *)
(* ready when it starts (module ScheduleLoop has the loop itself).        *)
ScheduleReady(Q, A, fut) ==
  LET live  == {t \in Q : fut[t] # "cancelled"}
      ready == {t \in live : IsReady(t, live, A)}
  IN  /\ pending' = live \ ready
      /\ active' = A \cup ready
      /\ granted' = [t \in Ticket |-> IF t \in ready THEN "done" ELSE fut[t]]

-----------------------------------------------------------------------------
Init ==
  /\ pc = [t \in Ticket |-> "new"]
  /\ claims \in [Ticket -> ClaimSet]
  /\ granted = [t \in Ticket |-> "none"]
  /\ mustCancel = [t \in Ticket |-> FALSE]
  /\ arrival = [t \in Ticket |-> 0]
  /\ clock = 0
  /\ pending = {}
  /\ active = {}

(* Entering the context manager.  Awaiting a future that is already done   *)
(* does not suspend: a ticket granted on the spot goes straight to its     *)
(* body.  Other tickets can be granted by the same call, when it drops a   *)
(* cancelled ticket they waited behind.                                    *)
Enter(t) ==
  /\ pc[t] = "new"
  /\ arrival' = [arrival EXCEPT ![t] = clock + 1]
  /\ clock' = clock + 1
  /\ ScheduleReady(pending \cup {t}, active, [granted EXCEPT ![t] = "pending"])
  /\ pc' = [pc EXCEPT ![t] = IF t \in active' THEN "body" ELSE "waiting"]
  /\ UNCHANGED <<claims, mustCancel>>

(* The task of a granted ticket wakes up and enters its body. *)
Resume(t) ==
  /\ pc[t] = "waiting"
  /\ granted[t] = "done"
  /\ ~ mustCancel[t]
  /\ pc' = [pc EXCEPT ![t] = "body"]
  /\ UNCHANGED <<claims, granted, mustCancel, arrival, clock, pending, active>>

(* task.cancel() while the task waits.  If the future is still pending it  *)
(* is cancelled with the task; if it is already done, cancel() can only    *)
(* leave a mark that makes the next resumption raise CancelledError.       *)
CancelWaiting(t) ==
  /\ pc[t] = "waiting"
  /\ \/ /\ granted[t] = "pending"
        /\ granted' = [granted EXCEPT ![t] = "cancelled"]
        /\ UNCHANGED mustCancel
     \/ /\ granted[t] = "done"
        /\ ~ mustCancel[t]
        /\ mustCancel' = [mustCancel EXCEPT ![t] = TRUE]
        /\ UNCHANGED granted
  /\ UNCHANGED <<pc, claims, arrival, clock, pending, active>>

(* Mutants of Leave: nobody is rescheduled; a granted ticket is kept. *)
LeaveWithoutSchedule(t) ==
  /\ pc' = [pc EXCEPT ![t] = "left"]
  /\ pending' = pending \ {t}
  /\ active' = active \ {t}
  /\ UNCHANGED <<claims, granted, mustCancel, arrival, clock>>

LeavePendingOnly(t) ==
  /\ UNCHANGED <<claims, mustCancel, arrival, clock>>
  /\ pc' = [pc EXCEPT ![t] = "left"]
  /\ IF t \in pending THEN ScheduleReady(pending \ {t}, active, granted)
     ELSE UNCHANGED <<granted, pending, active>>

(* The finally block: give the ticket back, whichever list holds it.  A    *)
(* ticket in neither list was dropped by an earlier _schedule_ready.       *)
Leave(t) ==
  /\ UNCHANGED <<claims, mustCancel, arrival, clock>>
  /\ pc' = [pc EXCEPT ![t] = "left"]
  /\ \/ /\ t \in pending
        /\ ScheduleReady(pending \ {t}, active, granted)
     \/ /\ t \notin pending
        /\ t \in active
        /\ ScheduleReady(pending, active \ {t}, granted)
     \/ /\ t \notin pending \cup active
        /\ UNCHANGED <<granted, pending, active>>

(* CancelledError surfaces at `await ticket.granted`. *)
Withdraw(t) ==
  /\ pc[t] = "waiting"
  /\ granted[t] = "cancelled" \/ mustCancel[t]
  /\ Leave(t)

(* The body ends: it returned, raised or was cancelled. *)
Exit(t) ==
  /\ pc[t] = "body"
  /\ Leave(t)

(* Every admission has ended: nothing is left to do. *)
AllLeft ==
  /\ \A t \in Ticket : pc[t] = "left"
  /\ UNCHANGED vars

Next ==
  \/ \E t \in Ticket :
       \/ Enter(t)
       \/ Resume(t)
       \/ CancelWaiting(t)
       \/ Withdraw(t)
       \/ Exit(t)
  \/ AllLeft

(* The event loop runs every ready task; a body is assumed to end. *)
Fairness == \A t \in Ticket : WF_vars(Resume(t)) /\ WF_vars(Withdraw(t)) /\ WF_vars(Exit(t))

Spec == Init /\ [][Next]_vars
FairSpec == Spec /\ Fairness

-----------------------------------------------------------------------------
TypeOK ==
  /\ pc \in [Ticket -> {"new", "waiting", "body", "left"}]
  /\ claims \in [Ticket -> ClaimSet]
  /\ granted \in [Ticket -> {"none", "pending", "done", "cancelled"}]
  /\ mustCancel \in [Ticket -> BOOLEAN]
  /\ arrival \in [Ticket -> Nat]
  /\ clock \in Nat
  /\ pending \subseteq Ticket
  /\ active \subseteq Ticket

(* Two operations whose claims conflict never overlap: a body runs only     *)
(* while its ticket is active, and active tickets do not clash.            *)
(* (CapabilityScheduler: "Admit compatible operations concurrently".)      *)
Exclusion ==
  /\ \A t \in Ticket : pc[t] = "body" => t \in active
  /\ \A t, u \in active : t # u => ~ Clash(t, u)

(* "preserving conflict FIFO": once a ticket has been granted, no older     *)
(* ticket it clashes with is still queued behind it.                       *)
ConflictFIFO ==
  \A t, u \in Ticket :
    (granted[u] = "done" /\ t \in pending /\ Clash(t, u)) => Older(u, t)

(* No lost wake-up: a task stays suspended only because its ticket is still  *)
(* queued and clashes with an admitted ticket or with an older queued one. *)
(* Every path out of the scheduler - normal exit, cancellation before or   *)
(* after the grant - must re-run _schedule_ready for this to hold.         *)
NoLostWakeup ==
  \A t \in Ticket :
    (pc[t] = "waiting" /\ granted[t] = "pending") =>
      /\ t \in pending
      /\ \E u \in active \cup pending :
           /\ u \in active \/ Older(u, t)
           /\ Clash(t, u)

(* Claims are never leaked: an operation that has left holds nothing, and   *)
(* in particular a grant that raced with a cancellation is given back.     *)
NoLeak ==
  \A t \in Ticket : pc[t] \in {"new", "left"} => t \notin pending \cup active

(* Nobody starves: whoever waits is admitted or leaves, as long as the      *)
(* admitted bodies end.                                                    *)
NoStarvation ==
  \A t \in Ticket : pc[t] = "waiting" ~> pc[t] \in {"body", "left"}

=============================================================================
