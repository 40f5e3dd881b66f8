--------------------- MODULE CapabilitySchedulerProofs ---------------------
(***************************************************************************)
(* Theorems about CapabilityScheduler for any tickets, resources and       *)
(* claims, with their proofs.                                              *)
(*                                                                         *)
(* The invariant Inv adds to the safety properties what ties the control   *)
(* point of a ticket to the list that holds it and to its future.  Every   *)
(* call of _schedule_ready is treated once, by lemma ScheduleReadyKeeps.   *)
(***************************************************************************)
EXTENDS CapabilityScheduler, TLAPS

(* A queued ticket is not granted, an admitted one is. *)
Lists(Q, A, fut) ==
  /\ \A t \in Q : fut[t] \in {"pending", "cancelled"}
  /\ \A t \in A : fut[t] = "done"

Compatible(A) == \A t, u \in A : t # u => ~ Clash(t, u)

FIFO(Q, fut) ==
  \A t, u \in Ticket : (fut[u] = "done" /\ t \in Q /\ Clash(t, u)) => Older(u, t)

Blocked(t, Q, A) ==
  \E u \in A \cup Q : (u \in A \/ Older(u, t)) /\ Clash(t, u)

(* Arrivals are numbered without repetition, 0 standing for "not yet". *)
Stamps ==
  /\ \A t \in Ticket : arrival[t] <= clock /\ (arrival[t] = 0 <=> pc[t] = "new")
  /\ \A t, u \in Ticket : (arrival[t] = arrival[u] /\ arrival[t] # 0) => t = u

(* Where a ticket is, seen from its task. *)
Places ==
  \A t \in Ticket :
    /\ pc[t] = "new" <=> granted[t] = "none"
    /\ pc[t] = "body" => t \in active
    /\ (pc[t] = "waiting" /\ granted[t] = "done") => t \in active
    /\ t \in pending => pc[t] = "waiting"
    /\ t \in active => pc[t] \in {"waiting", "body"}

Inv ==
  /\ TypeOK
  /\ Stamps
  /\ Places
  /\ Lists(pending, active, granted)
  /\ Compatible(active)
  /\ FIFO(pending, granted)
  /\ NoLostWakeup

-----------------------------------------------------------------------------
FutureState == {"none", "pending", "done", "cancelled"}

(* What holds when _schedule_ready is called on the queue Q, the admitted   *)
(* tickets A and the futures fut ...                                       *)
CanSchedule(Q, A, fut) ==
  /\ Q \in SUBSET Ticket
  /\ A \in SUBSET Ticket
  /\ fut \in [Ticket -> FutureState]
  /\ arrival' \in [Ticket -> Nat]
  /\ \A t, u \in Q : arrival'[t] = arrival'[u] => t = u
  /\ Lists(Q, A, fut)
  /\ Compatible(A)
  /\ \A t, u \in Ticket :
       (fut[u] = "done" /\ t \in Q /\ Clash(t, u)) => arrival'[u] < arrival'[t]

(* ... and when it returns. *)
Scheduled(Q, A, fut) ==
  /\ pending' \subseteq Q
  /\ A \subseteq active' /\ active' \subseteq A \cup Q
  /\ granted' \in [Ticket -> FutureState]
  /\ \A t \in Ticket : granted'[t] = "none" <=> fut[t] = "none"
  /\ \A t \in Ticket : granted'[t] = fut[t] \/ (t \in active' /\ fut[t] = "pending")
  /\ Lists(pending, active, granted)'
  /\ Compatible(active)'
  /\ FIFO(pending, granted)'
  /\ \A t \in Q : granted'[t] = "pending" =>
                    t \in pending' /\ Blocked(t, pending, active)'

(* One call of _schedule_ready keeps the lists consistent with the futures  *)
(* and the admitted tickets compatible, lets no grant overtake an older    *)
(* clashing ticket, and leaves in the queue only blocked or cancelled ones.*)
LEMMA ScheduleReadyKeeps ==
  ASSUME NEW Q, NEW A, NEW fut,
         claims' = claims, CanSchedule(Q, A, fut), ScheduleReady(Q, A, fut)
  PROVE  Scheduled(Q, A, fut)
<1> USE DEF CanSchedule
<1> DEFINE live  == {t \in Q : fut[t] # "cancelled"}
           ready == {t \in live : IsReady(t, live, A)}
<1>1. /\ pending' = live \ ready
      /\ active' = A \cup ready
      /\ granted' = [t \in Ticket |-> IF t \in ready THEN "done" ELSE fut[t]]
  BY DEF ScheduleReady
<1>2. \A t \in live : fut[t] = "pending"
  BY DEF Lists
<1>3. \A t, u \in Ticket : Clash(t, u)' <=> Clash(t, u)
  BY DEF Clash
<1>4. \A t, u \in Ticket : Clash(t, u) <=> Clash(u, t)
  BY DEF Clash, Conflicts
<1>5. \A t \in ready : /\ \A u \in A : ~ Clash(t, u)
                       /\ \A u \in live : arrival'[u] < arrival'[t] => ~ Clash(t, u)
  BY DEF IsReady
<1>6. \A t \in live \ ready : \/ \E u \in A : Clash(t, u)
                              \/ \E u \in live : arrival'[u] < arrival'[t] /\ Clash(t, u)
  BY DEF IsReady
<1>7. \A t, u \in live : t # u => arrival'[t] < arrival'[u] \/ arrival'[u] < arrival'[t]
  OBVIOUS
<1> HIDE DEF live, ready
<1>8. ready \subseteq live /\ live \subseteq Q
  BY DEF live, ready
<1>9. Lists(pending, active, granted)'
  BY <1>1, <1>2, <1>8 DEF Lists
<1>10. Compatible(active)'
  BY <1>1, <1>3, <1>4, <1>5, <1>7, <1>8 DEF Compatible
<1>11. FIFO(pending, granted)'
  <2> SUFFICES ASSUME NEW t \in Ticket, NEW u \in Ticket,
                      granted'[u] = "done", t \in pending', Clash(t, u)
               PROVE  arrival'[u] < arrival'[t]
    BY <1>3 DEF FIFO, Older
  <2>1. CASE fut[u] = "done"
    BY <2>1, <1>1, <1>8
  <2>2. CASE u \in ready
    <3>1. t \in live /\ t # u
      BY <2>2, <1>1
    <3>2. ~ arrival'[t] < arrival'[u]
      BY <2>2, <3>1, <1>4, <1>5
    <3> QED BY <3>1, <3>2, <2>2, <1>7, <1>8
  <2> QED BY <2>1, <2>2, <1>1
<1>12. ASSUME NEW t \in Q, granted'[t] = "pending"
       PROVE  t \in pending' /\ Blocked(t, pending, active)'
  <2>1. t \in live \ ready
    BY <1>12, <1>1 DEF live
  <2>2. CASE \E u \in A : Clash(t, u)
    BY <2>1, <2>2, <1>1, <1>3 DEF Blocked
  <2>3. CASE \E u \in live : arrival'[u] < arrival'[t] /\ Clash(t, u)
    BY <2>1, <2>3, <1>1, <1>3, <1>8 DEF Blocked, Older
  <2> QED BY <2>1, <2>2, <2>3, <1>1, <1>6
<1>13. granted' \in [Ticket -> FutureState]
  BY <1>1 DEF FutureState
<1> QED BY <1>1, <1>2, <1>8, <1>9, <1>10, <1>11, <1>12, <1>13 DEF Scheduled

-----------------------------------------------------------------------------
LEMMA InitInv == Init => Inv
BY ClaimsAssumption DEF Init, Inv, TypeOK, Stamps, Places, Lists, Compatible, FIFO, NoLostWakeup

(* Entering: the ticket joins the queue as its youngest member. *)
LEMMA EnterInv ==
  ASSUME Inv, NEW t \in Ticket, Enter(t)
  PROVE  Inv'
<1> DEFINE Q   == pending \cup {t}
           fut == [granted EXCEPT ![t] = "pending"]
<1> USE DEF Inv
<1>1. /\ pc[t] = "new" /\ arrival[t] = 0 /\ t \notin pending \cup active
      /\ granted[t] = "none"
  BY DEF Enter, Stamps, Places, TypeOK
<1>2. /\ arrival' = [arrival EXCEPT ![t] = clock + 1]
      /\ clock' = clock + 1
      /\ ScheduleReady(Q, active, fut)
      /\ pc' = [pc EXCEPT ![t] = IF t \in active' THEN "body" ELSE "waiting"]
      /\ claims' = claims /\ mustCancel' = mustCancel
  BY DEF Enter
<1>3. /\ Q \in SUBSET Ticket /\ active \in SUBSET Ticket
      /\ fut \in [Ticket -> FutureState]
      /\ arrival' \in [Ticket -> Nat] /\ clock' \in Nat
  BY <1>2 DEF TypeOK, FutureState
<1>4. Lists(Q, active, fut)
  BY <1>1 DEF Lists, TypeOK
<1>5. Stamps'
  BY <1>1, <1>2 DEF Stamps, TypeOK
<1>6. \A u, v \in Q : arrival'[u] = arrival'[v] => u = v
  BY <1>1, <1>2, <1>5 DEF Stamps, Places, TypeOK
<1>7. \A v, u \in Ticket :
        (fut[u] = "done" /\ v \in Q /\ Clash(v, u)) => arrival'[u] < arrival'[v]
  <2> SUFFICES ASSUME NEW v \in Ticket, NEW u \in Ticket,
                      fut[u] = "done", v \in Q, Clash(v, u)
               PROVE  arrival'[u] < arrival'[v]
    OBVIOUS
  <2>1. u # t /\ granted[u] = "done"
    BY DEF TypeOK
  <2>2. CASE v = t
    BY <2>1, <2>2, <1>2 DEF Stamps, TypeOK
  <2>3. CASE v \in pending
    BY <2>1, <2>3, <1>1, <1>2 DEF FIFO, Older, TypeOK
  <2> QED BY <2>2, <2>3
<1> HIDE DEF Q, fut
<1>8. CanSchedule(Q, active, fut)
  BY <1>3, <1>4, <1>6, <1>7 DEF CanSchedule
<1>. Scheduled(Q, active, fut)
  BY <1>2, <1>8, ScheduleReadyKeeps
<1> USE DEF Scheduled
<1>9. TypeOK'
  BY <1>2, <1>3, <1>8 DEF TypeOK, FutureState
<1>10. Places'
  BY <1>1, <1>2, <1>8 DEF Places, TypeOK, Q, fut, Lists
<1>11. NoLostWakeup'
  <2> SUFFICES ASSUME NEW u \in Ticket, pc'[u] = "waiting", granted'[u] = "pending"
               PROVE  u \in pending' /\ Blocked(u, pending, active)'
    BY DEF NoLostWakeup, Blocked
  <2>1. u \in Q
    BY <1>1, <1>2, <1>8 DEF NoLostWakeup, Q, fut, TypeOK
  <2> QED BY <2>1, <1>8
<1> QED BY <1>5, <1>8, <1>9, <1>10, <1>11

(* Leaving: the ticket goes out of its list, and of that list only. *)
LEMMA LeaveInv ==
  ASSUME Inv, NEW t \in Ticket, pc[t] \in {"waiting", "body"}, Leave(t)
  PROVE  Inv' /\ t \notin pending' \cup active'
<1> USE DEF Inv
<1>1. /\ claims' = claims /\ mustCancel' = mustCancel
      /\ arrival' = arrival /\ clock' = clock
      /\ pc' = [pc EXCEPT ![t] = "left"]
  BY DEF Leave
<1>2. Stamps'
  BY <1>1 DEF Stamps, TypeOK
<1>3. \A u, v \in pending : arrival[u] = arrival[v] => u = v
  BY DEF Stamps, Places, TypeOK
<1>4. pending \cap active = {}
  BY DEF Lists
<1>5. ASSUME NEW Q \in SUBSET (pending \ {t}), NEW A \in SUBSET (active \ {t}),
             Q = pending \ {t}, A = active \ {t}, ScheduleReady(Q, A, granted)
      PROVE  Inv' /\ t \notin pending' \cup active'
  <2>1. /\ Q \in SUBSET Ticket /\ A \in SUBSET Ticket
        /\ granted \in [Ticket -> FutureState]
        /\ arrival' \in [Ticket -> Nat]
        /\ Lists(Q, A, granted)
        /\ Compatible(A)
    BY <1>1 DEF TypeOK, FutureState, Lists, Compatible
  <2>2. \A v, u \in Ticket :
          (granted[u] = "done" /\ v \in Q /\ Clash(v, u)) => arrival'[u] < arrival'[v]
    BY <1>1 DEF FIFO, Older
  <2>3. \A u, v \in Q : arrival'[u] = arrival'[v] => u = v
    BY <1>1, <1>3
  <2>. CanSchedule(Q, A, granted)
    BY <2>1, <2>2, <2>3 DEF CanSchedule
  <2>4. Scheduled(Q, A, granted)
    BY <1>1, <1>5, ScheduleReadyKeeps
  <2> USE DEF Scheduled
<2>5. TypeOK'
    BY <2>4, <1>1, <2>1 DEF TypeOK, FutureState
  <2>6. Places'
    BY <2>4, <1>1, <1>5 DEF Places, TypeOK, Lists
  <2>7. NoLostWakeup'
    <3> SUFFICES ASSUME NEW u \in Ticket, pc'[u] = "waiting", granted'[u] = "pending"
                 PROVE  u \in pending' /\ Blocked(u, pending, active)'
      BY DEF NoLostWakeup, Blocked
    <3>1. u \in Q
      BY <1>1, <2>4, <1>5 DEF NoLostWakeup, TypeOK
    <3> QED BY <3>1, <2>4
  <2> QED BY <1>2, <1>5, <2>4, <2>5, <2>6, <2>7
<1>6. CASE t \in pending
  BY <1>4, <1>5, <1>6 DEF Leave, TypeOK
<1>7. CASE t \notin pending /\ t \in active
  <2>1. pending \ {t} = pending /\ ScheduleReady(pending, active \ {t}, granted)
    BY <1>7 DEF Leave
  <2> QED BY <2>1, <1>5
<1>8. CASE t \notin pending \cup active
  <2>1. granted' = granted /\ pending' = pending /\ active' = active
    BY <1>8 DEF Leave, ScheduleReady
  <2>2. \A u, v \in Ticket : Clash(u, v)' <=> Clash(u, v)
    BY <1>1 DEF Clash
  <2>3. TypeOK' /\ Places' /\ Lists(pending, active, granted)'
    BY <1>1, <1>8, <2>1 DEF TypeOK, Places, Lists
  <2>4. Compatible(active)' /\ FIFO(pending, granted)'
    BY <1>1, <2>1, <2>2 DEF Compatible, FIFO, Older, TypeOK
  <2>5. NoLostWakeup'
    BY <1>1, <2>1, <2>2 DEF NoLostWakeup, Older, TypeOK
  <2> QED BY <1>2, <1>8, <2>1, <2>3, <2>4, <2>5
<1> QED BY <1>6, <1>7, <1>8

(* Waking up and being cancelled move no ticket from list to list. *)
LEMMA WaitInv ==
  ASSUME Inv, NEW t \in Ticket, Resume(t) \/ CancelWaiting(t)
  PROVE  Inv'
<1> USE DEF Inv
<1>1. /\ pending' = pending /\ active' = active /\ arrival' = arrival
      /\ clock' = clock /\ claims' = claims
  BY DEF Resume, CancelWaiting
<1>2. \A u, v \in Ticket : Clash(u, v)' <=> Clash(u, v)
  BY <1>1 DEF Clash
<1>3. CASE Resume(t)
  <2>1. /\ pc[t] = "waiting" /\ granted[t] = "done" /\ granted' = granted
        /\ mustCancel' = mustCancel /\ ~ mustCancel[t]
        /\ pc' = [pc EXCEPT ![t] = "body"]
    BY <1>3 DEF Resume
  <2>2. t \in active
    BY <2>1 DEF Places
  <2>3. TypeOK' /\ Stamps' /\ Places'
    BY <1>1, <2>1, <2>2 DEF TypeOK, Stamps, Places, Lists
  <2>4. Lists(pending, active, granted)' /\ Compatible(active)' /\ FIFO(pending, granted)'
    BY <1>1, <1>2, <2>1 DEF Lists, Compatible, FIFO, Older, TypeOK
  <2>5. NoLostWakeup'
    BY <1>1, <1>2, <2>1 DEF NoLostWakeup, Older, TypeOK
  <2> QED BY <2>3, <2>4, <2>5
<1>4. CASE CancelWaiting(t)
  <2>1. /\ pc' = pc /\ pc[t] = "waiting"
        /\ mustCancel' \in [Ticket -> BOOLEAN]
        /\ \/ granted' = granted
           \/ granted[t] = "pending" /\ granted' = [granted EXCEPT ![t] = "cancelled"]
    BY <1>4 DEF CancelWaiting, TypeOK
  <2>2. TypeOK' /\ Stamps' /\ Places'
    BY <1>1, <2>1 DEF TypeOK, Stamps, Places
  <2>3. Lists(pending, active, granted)' /\ Compatible(active)' /\ FIFO(pending, granted)'
    BY <1>1, <1>2, <2>1 DEF Lists, Compatible, FIFO, Older, TypeOK
  <2>4. NoLostWakeup'
    BY <1>1, <1>2, <2>1 DEF NoLostWakeup, Older, TypeOK
  <2> QED BY <2>2, <2>3, <2>4
<1> QED BY <1>3, <1>4

LEMMA NextInv == Inv /\ [Next]_vars => Inv'
<1> SUFFICES ASSUME Inv, [Next]_vars PROVE Inv'
  OBVIOUS
<1>1. CASE UNCHANGED vars
  BY <1>1 DEF vars, Inv, TypeOK, Stamps, Places, Lists, Compatible, FIFO,
              NoLostWakeup, Clash, Older
<1>2. ASSUME NEW t \in Ticket, Enter(t) PROVE Inv'
  BY <1>2, EnterInv
<1>3. ASSUME NEW t \in Ticket, Resume(t) PROVE Inv'
  BY <1>3, WaitInv
<1>4. ASSUME NEW t \in Ticket, CancelWaiting(t) PROVE Inv'
  BY <1>4, WaitInv
<1>5. ASSUME NEW t \in Ticket, Withdraw(t) PROVE Inv'
  BY <1>5, LeaveInv DEF Withdraw
<1>6. ASSUME NEW t \in Ticket, Exit(t) PROVE Inv'
  BY <1>6, LeaveInv DEF Exit
<1>7. CASE AllLeft
  BY <1>1, <1>7 DEF AllLeft
<1> QED BY <1>1, <1>2, <1>3, <1>4, <1>5, <1>6, <1>7 DEF Next

(* Inv is an invariant of the scheduler. *)
THEOREM Invariance == Spec => []Inv
<1>1. Init => Inv
  BY InitInv
<1>2. Inv /\ [Next]_vars => Inv'
  BY NextInv
<1> QED BY <1>1, <1>2, PTL DEF Spec

(* Type correctness of the scheduler's state, for any tickets and claims. *)
THEOREM TypeCorrect == Spec => []TypeOK
<1>1. Inv => TypeOK
  BY DEF Inv
<1> QED BY <1>1, Invariance, PTL

(* Operations whose claims conflict never run at the same time, however     *)
(* many are requested, granted and cancelled, in whatever order.           *)
THEOREM ExclusionHolds == Spec => []Exclusion
<1>1. Inv => Exclusion
  BY DEF Inv, Exclusion, Places, Compatible
<1> QED BY <1>1, Invariance, PTL

(* A grant never overtakes an older request it conflicts with. *)
THEOREM ConflictFIFOHolds == Spec => []ConflictFIFO
<1>1. Inv => ConflictFIFO
  BY DEF Inv, ConflictFIFO, FIFO
<1> QED BY <1>1, Invariance, PTL

(* No request is left asleep when what it waited for has gone. *)
THEOREM NoLostWakeupHolds == Spec => []NoLostWakeup
<1>1. Inv => NoLostWakeup
  BY DEF Inv
<1> QED BY <1>1, Invariance, PTL

(* An operation that has left holds no admission and no place in the queue, *)
(* even when its cancellation raced with its grant.                        *)
THEOREM NoLeakHolds == Spec => []NoLeak
<1>1. Inv => NoLeak
  BY DEF Inv, NoLeak, Places
<1> QED BY <1>1, Invariance, PTL

=============================================================================
