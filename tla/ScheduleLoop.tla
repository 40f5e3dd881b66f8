---------------------------- MODULE ScheduleLoop ----------------------------
(***************************************************************************)
(* CapabilityScheduler._schedule_ready (kernel/scheduler.py), the loop     *)
(* itself: filter the deque, then scan it from its head, granting the      *)
(* first ready ticket and starting over, until one scan grants nothing.    *)
(*                                                                         *)
(* Module CapabilityScheduler takes the call as one step with a closed     *)
(* form for its result; LoopReturnsThat states that the loop, on the deque *)
(* of that step, returns it.                                               *)
(***************************************************************************)
EXTENDS CapabilityScheduler, Sequences, SequencesExt

(* The deque _pending, head first: its tickets in the order they arrived. *)
Deque ==
  CHOOSE q \in [1 .. Cardinality(pending) -> pending] :
    Range(q) = pending /\ \A i, j \in DOMAIN q : i < j => Older(q[i], q[j])

(* Mutant of Grantable: the slice of older tickets is one short. *)
GrantableOneShort(q, A, i) ==
  /\ \A u \in A : ~ Clash(q[i], u)
  /\ \A j \in 1 .. i - 2 : ~ Clash(q[i], q[j])

(* _is_ready(index, ticket), on a deque q and admitted tickets A. *)
Grantable(q, A, i) ==
  /\ \A u \in A : ~ Clash(q[i], u)
  /\ \A j \in 1 .. i - 1 : ~ Clash(q[i], q[j])

(* The while loop on <<deque, admitted tickets>>.  Nothing is cancelled     *)
(* during the call, so after the filter the scan meets no cancelled future:*)
(* the branch that takes a just granted ticket back (scheduler.py:70-72) is*)
(* never taken.                                                            *)
Loop[d \in Seq(Ticket) \X SUBSET Ticket] ==
  LET q     == d[1]
      A     == d[2]
      found == {i \in DOMAIN q : Grantable(q, A, i)}
  IN  IF found = {} THEN d
      ELSE LET i == Min(found) IN Loop[<<RemoveAt(q, i), A \cup {q[i]}>>]

(* The filter: the tickets of q whose future is not cancelled. *)
Live(q) ==
  LET F[n \in 0 .. Len(q)] ==
        IF n = 0 THEN <<>>
        ELSE IF granted[q[n]] = "cancelled" THEN F[n - 1] ELSE Append(F[n - 1], q[n])
  IN  F[Len(q)]

(* _schedule_ready, called with the deque q and the admitted tickets A. *)
LoopResult(q, A) == Loop[<<Live(q), A>>]

(* Whatever the order of the restarts, the call a ticket makes when it      *)
(* arrives, and when it gives its place back, admits exactly the tickets   *)
(* of the closed form and leaves the rest queued in their order of arrival;*)
(* a ticket that left and was in neither list makes no call.               *)
LoopReturnsThat ==
  [][\A t \in Ticket :
       /\ (pc[t] = "new" /\ pc'[t] # "new") =>
            <<Deque', active'>> = LoopResult(Append(Deque, t), active)
       /\ (pc[t] # "left" /\ pc'[t] = "left" /\ t \in pending \cup active) =>
            <<Deque', active'>> = LoopResult(RemoveFirst(Deque, t), active \ {t})]_vars

=============================================================================
