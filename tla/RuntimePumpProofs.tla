------------------------- MODULE RuntimePumpProofs -------------------------
(***************************************************************************)
(* Theorems about RuntimePump for any queue size, limits and bounds: the   *)
(* counters that decide termination are exact, the supervisor stops only a *)
(* quiet run, and the pump implements WorkGraph.                           *)
(*                                                                         *)
(* The invariant Inv adds to TypeOK and CountersExact what ties drains to  *)
(* the supervisor (Ownership), produced commands to started ones           *)
(* (Commands), the generator to the event in its hands (Streaming), the    *)
(* events of a command to their numbers (Order), and errors to their       *)
(* reasons (Faults); Quiet carries QuiescentStop on to the end of the run. *)
(***************************************************************************)
EXTENDS RuntimePump, FiniteSetTheorems, SequenceTheorems, TLAPS

(* The run has failed, or its generator has left the main loop. *)
Broken == supervisorError # {} \/ outcome # "none"

Stopping == supervisor \in {"aborting", "done"}

Ownership ==
  /\ \A d \in Drain :
       /\ drain[d] = "none" <=> steps < d
       /\ drain[d] = "none" => emitted[d] = 0
       /\ d \in Live => d \in tasks
       /\ cancel[d] # "no" => Stopping /\ Broken
  /\ supervisor \in {"created", "done"} => tasks = {}
  /\ supervisor = "created" => steps = 0
  /\ Broken => Stopping
  /\ supervisor = "aborting" => Broken

(* Commands produced and neither started nor lost. *)
Unstarted == InControl("start") + toSend + (IF supervisor = "created" THEN 1 ELSE 0)

Commands ==
  /\ steps <= maxSteps
  /\ steps + Unstarted <= Len(cause)
  /\ outcome = "none" /\ "budget" \notin supervisorError => steps + Unstarted = Len(cause)
  /\ \A c \in DOMAIN cause :
       cause[c] \in {NoEvent, current} \/ cause[c][2] <= delivered[cause[c][1]]

Streaming ==
  /\ outcome = "none" <=> stream \in {"waiting", "sending", "yielded"}
  /\ stream = "sending" => current # NoEvent
  /\ stream \in {"waiting", "yielded"} => current = NoEvent /\ toSend = 0
  /\ current # NoEvent => current[2] = delivered[current[1]] + 1
  /\ outcome # "stopped"

(* Events of d that the generator has taken, the last one put in the inbox. *)
Taken(d) == IF current[1] = d THEN delivered[d] + 1 ELSE delivered[d]
LastPut(d) == IF drain[d] = "putting" THEN emitted[d] - 1 ELSE emitted[d]

(* The inbox holds the events of d from the one after the last taken to the *)
(* last put, in the order of their numbers; only the event of a cancelled  *)
(* put is missing.                                                         *)
Order ==
  /\ \A i, j \in DOMAIN inbox :
       i < j /\ inbox[i][1] = inbox[j][1] => inbox[i][2] < inbox[j][2]
  /\ \A d \in Drain :
       /\ Taken(d) <= LastPut(d)
       /\ \A i \in DOMAIN inbox :
            inbox[i][1] = d => Taken(d) < inbox[i][2] /\ inbox[i][2] <= LastPut(d)
       /\ \A n \in Taken(d) + 1 .. LastPut(d) :
            \/ \E i \in DOMAIN inbox : inbox[i] = <<d, n>>
            \/ n = LastPut(d) /\ drain[d] = "ended" /\ cancel[d] # "no"

Faults ==
  /\ "handler" \in supervisorError => \E d \in Drain : drain[d] = "ended" /\ result[d] = "error"
  /\ \A d \in Drain : drain[d] = "ended" /\ result[d] = "error" =>
                        d \in tasks \/ "handler" \in supervisorError
  /\ "budget" \in supervisorError => steps = maxSteps /\ steps < Len(cause)

Quiet ==
  supervisor = "exiting" \/ (supervisor = "done" /\ ~ Broken) =>
    Live = {} /\ inbox = <<>> /\ control = <<>> /\ stream # "sending"

Inv == TypeOK /\ CountersExact /\ Ownership /\ Commands /\ Streaming /\ Order /\ Faults /\ Quiet

-----------------------------------------------------------------------------
(* Counting the messages of a queue and the drains at a place.              *)

Positions(s, m) == {i \in DOMAIN s : s[i] = m}
Count(s, m) == Cardinality(Positions(s, m))

LEMMA IntervalCount ==
  ASSUME NEW n \in Nat
  PROVE  IsFiniteSet(1 .. n) /\ Cardinality(1 .. n) = n
<1>1. /\ IsFiniteSet(1 .. n)
      /\ Cardinality(1 .. n) = IF 1 > n THEN 0 ELSE n - 1 + 1
  BY FS_Interval
<1> QED
  BY <1>1

LEMMA CountType ==
  ASSUME NEW S, NEW s \in Seq(S), NEW m
  PROVE  /\ IsFiniteSet(Positions(s, m))
         /\ Count(s, m) \in Nat
         /\ Count(s, m) <= Len(s)
<1>1. IsFiniteSet(1 .. Len(s)) /\ Cardinality(1 .. Len(s)) = Len(s)
  <2>1. Len(s) \in Nat
    OBVIOUS
  <2> QED
    BY <2>1, IntervalCount
<1>2. Positions(s, m) \in SUBSET (1 .. Len(s))
  BY DEF Positions
<1> QED
  BY <1>1, <1>2, FS_Subset, FS_CardinalityType DEF Count

LEMMA CountAppend ==
  ASSUME NEW S, NEW s \in Seq(S), NEW e \in S, NEW m
  PROVE  Count(Append(s, e), m) = Count(s, m) + (IF e = m THEN 1 ELSE 0)
<1>1. Positions(Append(s, e), m) =
        IF e = m THEN Positions(s, m) \cup {Len(s) + 1} ELSE Positions(s, m)
  BY DEF Positions
<1>2. Len(s) + 1 \notin Positions(s, m)
  BY DEF Positions
<1>3. IsFiniteSet(Positions(s, m)) /\ Count(s, m) \in Nat
  BY CountType
<1>4. Cardinality(Positions(s, m) \cup {Len(s) + 1}) = Count(s, m) + 1
  BY <1>2, <1>3, FS_AddElement DEF Count
<1> QED
  BY <1>1, <1>3, <1>4 DEF Count

LEMMA CountTail ==
  ASSUME NEW S, NEW s \in Seq(S), s # <<>>, NEW m
  PROVE  Count(Tail(s), m) = Count(s, m) - (IF Head(s) = m THEN 1 ELSE 0)
<1> DEFINE later == Positions(s, m) \ {1}
           shift == [i \in Positions(Tail(s), m) |-> i + 1]
<1>1. IsFiniteSet(Positions(s, m)) /\ IsFiniteSet(Positions(Tail(s), m)) /\ Count(s, m) \in Nat
  BY CountType, HeadTailProperties
<1>2. shift \in Bijection(Positions(Tail(s), m), later)
  <2>1. \A i \in Positions(Tail(s), m) : i + 1 \in later
    BY DEF Positions
  <2>2. \A j \in later : j - 1 \in Positions(Tail(s), m) /\ shift[j - 1] = j
    BY DEF Positions
  <2>3. \A i, j \in Positions(Tail(s), m) : shift[i] = shift[j] => i = j
    BY DEF Positions
  <2> QED
    BY <2>1, <2>2, <2>3 DEF Bijection, Injection, Surjection, IsInjective
<1>3. Cardinality(later) = Count(Tail(s), m)
  BY <1>1, <1>2, FS_Bijection DEF Count, ExistsBijection
<1>4. 1 \in Positions(s, m) <=> Head(s) = m
  BY DEF Positions
<1>5. Cardinality(later) = IF 1 \in Positions(s, m) THEN Count(s, m) - 1 ELSE Count(s, m)
  BY <1>1, FS_RemoveElement DEF Count
<1> HIDE DEF later
<1> QED
  BY <1>1, <1>3, <1>4, <1>5

Working == {"running", "putting", "finishing"}
Messages == {"start", "ack", "fin"}

LEMMA ControlKept ==
  ASSUME UNCHANGED control
  PROVE  \A m : InControl(m)' = InControl(m)
BY DEF InControl

LEMMA ControlCount ==
  ASSUME TypeOK
  PROVE  \A m : InControl(m) \in Nat /\ InControl(m) <= Len(control)
<1>1. \A m : Count(control, m) \in Nat /\ Count(control, m) <= Len(control)
  BY CountType DEF TypeOK
<1> QED
  BY <1>1 DEF InControl, Count, Positions

LEMMA InboxPut ==
  ASSUME TypeOK, NEW e \in Event, HasRoom(inbox), inbox' = Append(inbox, e)
  PROVE  inbox' \in Seq(Event) /\ Len(inbox') <= InboxSize /\ Len(inbox') = Len(inbox) + 1
BY SizeAssumption DEF TypeOK, HasRoom

LEMMA InboxGot ==
  ASSUME TypeOK, inbox # <<>>, inbox' = Tail(inbox)
  PROVE  /\ inbox' \in Seq(Event) /\ Len(inbox') <= InboxSize /\ Len(inbox') = Len(inbox) - 1
         /\ Head(inbox) \in Event
BY SizeAssumption DEF TypeOK

LEMMA ControlPut ==
  ASSUME TypeOK, NEW e \in Messages, HasRoom(control), control' = Append(control, e)
  PROVE  /\ control' \in Seq(Messages) /\ Len(control') <= InboxSize
         /\ \A m : InControl(m)' = InControl(m) + (IF e = m THEN 1 ELSE 0)
<1>1. control \in Seq(Messages)
  BY DEF TypeOK, Messages
<1>2. \A m : Count(Append(control, e), m) = Count(control, m) + (IF e = m THEN 1 ELSE 0)
  BY <1>1, CountAppend
<1>3. control' \in Seq(Messages) /\ Len(control') <= InboxSize
  BY <1>1, SizeAssumption DEF HasRoom
<1> QED
  BY <1>2, <1>3 DEF InControl, Count, Positions

LEMMA ControlGot ==
  ASSUME TypeOK, control # <<>>, control' = Tail(control)
  PROVE  /\ control' \in Seq(Messages) /\ Len(control') <= InboxSize
         /\ \A m : InControl(m)' = InControl(m) - (IF Head(control) = m THEN 1 ELSE 0)
<1>1. control \in Seq(Messages) /\ Len(control) <= InboxSize
  BY DEF TypeOK, Messages
<1>2. \A m : Count(Tail(control), m) = Count(control, m) - (IF Head(control) = m THEN 1 ELSE 0)
  BY <1>1, CountTail
<1>3. control' \in Seq(Messages) /\ Len(control') <= InboxSize
  BY <1>1, SizeAssumption
<1> QED
  BY <1>2, <1>3 DEF InControl, Count, Positions

LEMMA ControlHead ==
  ASSUME TypeOK, control # <<>>
  PROVE  InControl(Head(control)) \in Nat \ {0}
<1>1. control \in Seq(Messages)
  BY DEF TypeOK, Messages
<1>2. IsFiniteSet(Positions(control, Head(control)))
  BY <1>1, CountType
<1>3. 1 \in Positions(control, Head(control))
  BY <1>1 DEF Positions
<1> QED
  BY <1>2, <1>3, ControlCount, FS_EmptySet DEF InControl, Positions

LEMMA DrainCount ==
  ASSUME TypeOK
  PROVE  /\ IsFiniteSet(Live) /\ Cardinality(Live) \in Nat
         /\ IsFiniteSet(Blocked) /\ Cardinality(Blocked) \in Nat
<1>1. IsFiniteSet(Drain)
  BY BoundsAssumption, FS_Interval DEF Drain
<1>2. Live \in SUBSET Drain /\ Blocked \in SUBSET Drain
  BY DEF Live, Blocked
<1> QED
  BY <1>1, <1>2, FS_Subset, FS_CardinalityType

LEMMA DrainsKept ==
  ASSUME UNCHANGED drain
  PROVE  Live' = Live /\ Blocked' = Blocked
BY DEF Live, Blocked

LEMMA DrainMoves ==
  ASSUME TypeOK, NEW d \in Drain, \A e \in Drain \ {d} : drain'[e] = drain[e]
  PROVE  /\ Live' = IF drain'[d] \in Working THEN Live \cup {d} ELSE Live \ {d}
         /\ Cardinality(Live') = Cardinality(Live) + (IF drain'[d] \in Working THEN 1 ELSE 0)
                                                   - (IF drain[d] \in Working THEN 1 ELSE 0)
         /\ Cardinality(Blocked') = Cardinality(Blocked) + (IF drain'[d] = "putting" THEN 1 ELSE 0)
                                                         - (IF drain[d] = "putting" THEN 1 ELSE 0)
<1>1. Live' = IF drain'[d] \in Working THEN Live \cup {d} ELSE Live \ {d}
  BY DEF Live, Working
<1>2. Blocked' = IF drain'[d] = "putting" THEN Blocked \cup {d} ELSE Blocked \ {d}
  BY DEF Blocked
<1>3. (d \in Live <=> drain[d] \in Working) /\ (d \in Blocked <=> drain[d] = "putting")
  BY DEF Live, Blocked, Working
<1>4. /\ Cardinality(Live \cup {d}) = IF d \in Live THEN Cardinality(Live) ELSE Cardinality(Live) + 1
      /\ Cardinality(Live \ {d}) = IF d \in Live THEN Cardinality(Live) - 1 ELSE Cardinality(Live)
      /\ Cardinality(Blocked \cup {d}) = IF d \in Blocked THEN Cardinality(Blocked) ELSE Cardinality(Blocked) + 1
      /\ Cardinality(Blocked \ {d}) = IF d \in Blocked THEN Cardinality(Blocked) - 1 ELSE Cardinality(Blocked)
  BY DrainCount, FS_AddElement, FS_RemoveElement
<1> QED
  BY <1>1, <1>2, <1>3, <1>4, DrainCount

LEMMA InitInv == Init => Inv
<1> SUFFICES ASSUME Init PROVE Inv
  OBVIOUS
<1> USE SizeAssumption, LimitsAssumption, BoundsAssumption DEF Init
<1>1. TypeOK
  BY DEF TypeOK, Drain, Event, NoEvent
<1>2. Live = {} /\ Blocked = {}
  BY DEF Live, Blocked
<1>3. \A m : InControl(m) = 0
  BY FS_EmptySet DEF InControl
<1>4. CountersExact
  BY <1>2, <1>3, FS_EmptySet DEF CountersExact
<1>5. Ownership /\ Streaming /\ Faults /\ Quiet
  BY <1>2 DEF Ownership, Broken, Stopping, Streaming, Faults, Quiet, Drain
<1>6. Commands
  BY <1>3 DEF Commands, Unstarted
<1>7. Order
  BY DEF Order, Taken, LastPut, Drain, NoEvent
<1> QED
  BY <1>1, <1>4, <1>5, <1>6, <1>7 DEF Inv


(* An event of d that joins the inbox is the next one of d. *)
LEMMA OrderPut ==
  ASSUME TypeOK, Order, NEW d \in Drain, drain[d] # "ended",
         LastPut(d) + 1 \in 1 .. MaxEvents,
         inbox' = Append(inbox, <<d, LastPut(d) + 1>>),
         \A e \in Drain : LastPut(e)' = IF e = d THEN LastPut(d) + 1 ELSE LastPut(e),
         \A e \in Drain : Taken(e)' = Taken(e),
         \A e \in Drain \ {d} : drain'[e] = drain[e],
         UNCHANGED cancel
  PROVE  Order'
<1>1. /\ DOMAIN inbox' = 1 .. Len(inbox) + 1 /\ DOMAIN inbox = 1 .. Len(inbox)
      /\ Len(inbox) \in Nat
      /\ inbox'[Len(inbox) + 1] = <<d, LastPut(d) + 1>>
      /\ \A i \in DOMAIN inbox : inbox'[i] = inbox[i] /\ inbox[i] \in Event
  BY DEF TypeOK
<1>2. \A e \in Drain : Taken(e) \in Nat /\ LastPut(e) \in Int
  <2> SUFFICES ASSUME NEW e \in Drain PROVE Taken(e) \in Nat /\ LastPut(e) \in Int
    OBVIOUS
  <2>1. delivered[e] \in Nat /\ emitted[e] \in Nat
    BY BoundsAssumption DEF TypeOK
  <2> QED
    BY <2>1 DEF Taken, LastPut
<1>3. \A i, j \in DOMAIN inbox' :
        i < j /\ inbox'[i][1] = inbox'[j][1] => inbox'[i][2] < inbox'[j][2]
  BY <1>1, <1>2 DEF Order, Event
<1>4. ASSUME NEW e \in Drain
      PROVE  /\ Taken(e)' <= LastPut(e)'
             /\ \A i \in DOMAIN inbox' :
                  inbox'[i][1] = e => Taken(e)' < inbox'[i][2] /\ inbox'[i][2] <= LastPut(e)'
  BY <1>1, <1>2 DEF Order, Event
<1>5. ASSUME NEW e \in Drain, NEW n \in Taken(e)' + 1 .. LastPut(e)'
      PROVE  \/ \E i \in DOMAIN inbox' : inbox'[i] = <<e, n>>
             \/ n = LastPut(e)' /\ drain'[e] = "ended" /\ cancel'[e] # "no"
  <2>1. CASE e = d /\ n = LastPut(d) + 1
    BY <2>1, <1>1
  <2>2. CASE ~ (e = d /\ n = LastPut(d) + 1)
    <3>1. n \in Taken(e) + 1 .. LastPut(e)
      BY <2>2, <1>2
    <3>2. \/ \E i \in DOMAIN inbox : inbox[i] = <<e, n>>
          \/ n = LastPut(e) /\ drain[e] = "ended" /\ cancel[e] # "no"
      BY <3>1 DEF Order
    <3> QED
      BY <3>2, <1>1
  <2> QED
    BY <2>1, <2>2
<1> QED
  BY <1>3, <1>4, <1>5 DEF Order

(* The inbox and the events taken from it stay the same. *)
LEMMA OrderKept ==
  ASSUME TypeOK, Order, UNCHANGED inbox,
         \A d \in Drain : /\ LastPut(d)' = LastPut(d)
                          /\ Taken(d)' = Taken(d)
                          /\ drain[d] = "ended" /\ cancel[d] # "no" =>
                               drain'[d] = "ended" /\ cancel'[d] # "no"
  PROVE  Order'
BY DEF Order

(* The handler of d yields an event and puts it, or blocks. *)
LEMMA EmitInv ==
  ASSUME Inv, NEW d \in Drain, Emit(d)
  PROVE  Inv'
<1> USE DEF Inv, Emit, startVars, groupVars, streamVars
<1>1. Event = Drain \X (1 .. MaxEvents) /\ MaxEvents \in Nat /\ emitted[d] \in 0 .. MaxEvents
  BY BoundsAssumption DEF Event, TypeOK
<1>2. <<d, emitted'[d]>> \in Event /\ emitted' \in [Drain -> 0 .. MaxEvents]
  BY <1>1 DEF TypeOK
<1>3. TypeOK'
  <2>1. inbox' \in Seq(Event) /\ Len(inbox') <= InboxSize
    <3>1. CASE HasRoom(inbox)
      BY <1>2, <3>1, InboxPut
    <3>2. CASE ~ HasRoom(inbox)
      BY <3>2 DEF TypeOK
    <3> QED
      BY <3>1, <3>2
  <2>2. drain' \in [Drain -> {"none", "running", "putting", "finishing", "ended"}]
    BY DEF TypeOK
  <2>3. pendingEvents' \in Nat
    BY DEF TypeOK
  <2> QED
    BY <1>2, <2>1, <2>2, <2>3 DEF TypeOK
<1>4. CountersExact'
  <2>1. InControl("ack")' = InControl("ack") /\ InControl("fin")' = InControl("fin")
    BY ControlKept
  <2>2. InControl("ack") \in Nat /\ InControl("fin") \in Nat /\ Len(inbox) \in Nat
    BY ControlCount DEF TypeOK
  <2>3. CASE HasRoom(inbox)
    <3>1. Live' = Live /\ Blocked' = Blocked /\ Len(inbox') = Len(inbox) + 1
      BY <1>2, <2>3, DrainsKept, InboxPut
    <3> QED
      BY <3>1, <2>1, <2>2, DrainCount DEF CountersExact
  <2>4. CASE ~ HasRoom(inbox)
    <3>1. drain'[d] = "putting" /\ \A e \in Drain \ {d} : drain'[e] = drain[e]
      BY <2>4 DEF TypeOK
    <3>2. /\ Cardinality(Live') = Cardinality(Live)
          /\ Cardinality(Blocked') = Cardinality(Blocked) + 1
      BY <3>1, DrainMoves, DrainCount DEF Working
    <3> QED
      BY <3>2, <2>1, <2>2, <2>4, DrainCount DEF CountersExact
  <2> QED
    BY <2>3, <2>4
<1>5. Ownership'
  BY DEF Ownership, TypeOK, Live, Broken, Stopping
<1>6. Commands'
  BY ControlKept DEF Commands, Unstarted
<1>7. Streaming'
  BY DEF Streaming
<1>8. Order'
  <2>1. \A e \in Drain : Taken(e)' = Taken(e)
    BY DEF Taken
  <2>2. CASE HasRoom(inbox)
    <3>1. \A e \in Drain : LastPut(e)' = IF e = d THEN LastPut(d) + 1 ELSE LastPut(e)
      BY <2>2 DEF LastPut, TypeOK
    <3>2. LastPut(d) + 1 \in 1 .. MaxEvents /\ emitted'[d] = LastPut(d) + 1
      BY <1>1 DEF LastPut, TypeOK
    <3> QED
      BY <2>1, <2>2, <3>1, <3>2, OrderPut
  <2>3. CASE ~ HasRoom(inbox)
    BY <2>1, <2>3, <1>1, OrderKept DEF LastPut, TypeOK
  <2> QED
    BY <2>2, <2>3
<1>9. Faults'
  BY DEF Faults, TypeOK
<1>10. Quiet'
  BY DEF Quiet, Live, TypeOK, Broken
<1> QED
  BY <1>3, <1>4, <1>5, <1>6, <1>7, <1>8, <1>9, <1>10

(* A blocked put completes. *)
LEMMA PutInv ==
  ASSUME Inv, NEW d \in Drain, Put(d)
  PROVE  Inv'
<1> USE DEF Inv, Put, countVars, startVars, groupVars, streamVars
<1>1. /\ emitted[d] \in Nat /\ 1 <= emitted[d] /\ emitted[d] <= MaxEvents
      /\ LastPut(d) = emitted[d] - 1
  BY BoundsAssumption DEF Order, Taken, LastPut, TypeOK
<1>2. <<d, emitted[d]>> \in Event
  BY <1>1, BoundsAssumption DEF Event
<1>3. TypeOK'
  <2>1. inbox' \in Seq(Event) /\ Len(inbox') <= InboxSize
    BY <1>2, InboxPut
  <2> QED
    BY <2>1 DEF TypeOK
<1>4. CountersExact'
  <2>1. InControl("ack")' = InControl("ack") /\ InControl("fin")' = InControl("fin")
    BY ControlKept
  <2>2. InControl("ack") \in Nat /\ InControl("fin") \in Nat /\ Len(inbox) \in Nat
    BY ControlCount DEF TypeOK
  <2>3. Cardinality(Live') = Cardinality(Live) /\ Cardinality(Blocked') = Cardinality(Blocked) - 1
    <3>1. drain'[d] = "running" /\ \A e \in Drain \ {d} : drain'[e] = drain[e]
      BY DEF TypeOK
    <3> QED
      BY <3>1, DrainMoves, DrainCount DEF Working
  <2>4. Len(inbox') = Len(inbox) + 1
    BY <1>2, InboxPut
  <2> QED
    BY <2>1, <2>2, <2>3, <2>4, DrainCount DEF CountersExact
<1>5. Ownership'
  BY DEF Ownership, TypeOK, Live, Broken, Stopping
<1>6. Commands'
  BY ControlKept DEF Commands, Unstarted
<1>7. Streaming' /\ Faults'
  BY DEF Streaming, Faults, TypeOK
<1>8. Order'
  <2>1. \A e \in Drain : Taken(e)' = Taken(e)
    BY DEF Taken
  <2>2. \A e \in Drain : LastPut(e)' = IF e = d THEN LastPut(d) + 1 ELSE LastPut(e)
    BY <1>1 DEF LastPut, TypeOK
  <2>3. LastPut(d) + 1 \in 1 .. MaxEvents /\ emitted[d] = LastPut(d) + 1
    BY <1>1, BoundsAssumption
  <2> QED
    BY <2>1, <2>2, <2>3, OrderPut DEF TypeOK
<1>9. Quiet'
  BY DEF Quiet, Live, Broken
<1> QED
  BY <1>3, <1>4, <1>5, <1>6, <1>7, <1>8, <1>9

(* A cancelled drain ends: the event of a blocked put is uncounted and      *)
(* lost, a DrainFinished not yet sent is not missed.                       *)
LEMMA EndsInv ==
  ASSUME Inv, NEW d \in Drain, d \in Live, cancel[d] # "no",
         NEW r \in {"ok", "error", "cancelled"}, Ends(d, r),
         pendingEvents' = pendingEvents - (IF drain[d] = "putting" THEN 1 ELSE 0)
  PROVE  Inv'
<1> USE DEF Inv, Ends, startVars, groupVars, streamVars, queues
<1>1. Stopping /\ Broken /\ d \in tasks
  BY DEF Ownership
<1>2. CountersExact' /\ pendingEvents' \in Nat
  <2>1. InControl("ack")' = InControl("ack")
    BY ControlKept
  <2>2. InControl("ack") \in Nat /\ Len(inbox) \in Nat
    BY ControlCount DEF TypeOK
  <2>3. /\ Cardinality(Blocked') = Cardinality(Blocked) - (IF drain[d] = "putting" THEN 1 ELSE 0)
        /\ Cardinality(Blocked') \in Nat
    <3>1. d \in Blocked <=> drain[d] = "putting"
      BY DEF Blocked
    <3>2. d \in Blocked => Cardinality(Blocked) # 0
      BY DrainCount, FS_EmptySet
    <3>3. drain'[d] = "ended" /\ \A e \in Drain \ {d} : drain'[e] = drain[e]
      BY DEF TypeOK
    <3> QED
      BY <3>1, <3>2, <3>3, DrainMoves, DrainCount
  <2>4. pendingEvents' = Cardinality(Blocked)' + Len(inbox)' + InControl("ack")'
                           + (IF current' # NoEvent THEN 1 ELSE 0)
    BY <2>1, <2>2, <2>3, DrainCount DEF CountersExact
  <2> QED
    BY <1>1, <2>1, <2>2, <2>3, <2>4 DEF CountersExact, Stopping
<1>3. TypeOK'
  BY <1>2 DEF TypeOK
<1>4. Ownership'
  BY <1>1 DEF Ownership, TypeOK, Live, Broken, Stopping
<1>5. Commands'
  BY ControlKept DEF Commands, Unstarted
<1>6. Streaming'
  BY DEF Streaming
<1>7. Order'
  <2>1. \A e \in Drain : Taken(e)' = Taken(e)
    BY DEF Taken
  <2>2. CASE drain[d] # "putting"
    BY <2>1, <2>2, OrderKept DEF LastPut, TypeOK
  <2>3. CASE drain[d] = "putting"
    <3>1. \A e \in Drain : LastPut(e)' = IF e = d THEN LastPut(d) + 1 ELSE LastPut(e)
      BY <2>3, BoundsAssumption DEF LastPut, TypeOK
    <3>2. \A e \in Drain : Taken(e) \in Int /\ LastPut(e) \in Int
      BY BoundsAssumption DEF Taken, LastPut, TypeOK
    <3>3. \A i \in DOMAIN inbox : inbox[i][2] \in Int
      BY BoundsAssumption DEF TypeOK, Event
    <3>4. drain'[d] = "ended" /\ \A e \in Drain \ {d} : drain'[e] = drain[e]
      BY DEF TypeOK
    <3>5. /\ \A i, j \in DOMAIN inbox' :
               i < j /\ inbox'[i][1] = inbox'[j][1] => inbox'[i][2] < inbox'[j][2]
          /\ \A e \in Drain :
               /\ Taken(e)' <= LastPut(e)'
               /\ \A i \in DOMAIN inbox' :
                    inbox'[i][1] = e => Taken(e)' < inbox'[i][2] /\ inbox'[i][2] <= LastPut(e)'
      BY <2>1, <3>1, <3>2, <3>3 DEF Order
    <3>6. ASSUME NEW e \in Drain, NEW n \in Taken(e)' + 1 .. LastPut(e)'
          PROVE  \/ \E i \in DOMAIN inbox' : inbox'[i] = <<e, n>>
                 \/ n = LastPut(e)' /\ drain'[e] = "ended" /\ cancel'[e] # "no"
      <4>1. CASE e = d /\ n = LastPut(d)'
        BY <3>4, <4>1
      <4>2. CASE ~ (e = d /\ n = LastPut(d)')
        <5>1. n \in Taken(e) + 1 .. LastPut(e) /\ (e = d => drain[d] # "ended")
          BY <2>1, <2>3, <3>1, <3>2, <4>2
        <5> QED
          BY <3>1, <3>4, <4>2, <5>1 DEF Order
      <4> QED
        BY <4>1, <4>2
    <3> QED
      BY <3>5, <3>6 DEF Order
  <2> QED
    BY <2>2, <2>3
<1>8. Faults'
  BY <1>1 DEF Faults, TypeOK, Live
<1>9. Quiet'
  BY <1>1 DEF Quiet, Stopping, Broken
<1> QED
  BY <1>2, <1>3, <1>4, <1>5, <1>6, <1>7, <1>8, <1>9

LEMMA CatchCancelInv ==
  ASSUME Inv, NEW d \in Drain, CatchCancel(d)
  PROVE  Inv'
<1> USE DEF Inv, CatchCancel, queues, countVars, startVars, groupVars, streamVars
<1>1. TypeOK'
  BY DEF TypeOK
<1>2. CountersExact' /\ Quiet'
  BY DrainsKept, ControlKept DEF CountersExact, Quiet, Broken
<1>3. Ownership'
  BY DEF Ownership, TypeOK, Live, Broken, Stopping
<1>4. Commands' /\ Streaming' /\ Faults'
  BY ControlKept DEF Commands, Unstarted, Streaming, Faults
<1>5. Order'
  BY OrderKept DEF LastPut, Taken, TypeOK
<1> QED
  BY <1>1, <1>2, <1>3, <1>4, <1>5

(* A handler that was not cancelled ends, and the drain reports it or waits *)
(* for room to do so.                                                      *)
LEMMA ReportInv ==
  ASSUME Inv, NEW d \in Drain, HandlerEnds(d) \/ FinPut(d)
  PROVE  Inv'
<1> USE DEF Inv
<1>1. /\ UNCHANGED <<inbox, countVars, groupVars, cancel, emitted, streamVars>>
      /\ d \in Live /\ cancel[d] = "no" /\ drain[d] # "putting" /\ drain[d] # "ended"
      /\ result' \in [Drain -> {"none", "ok", "error", "cancelled"}]
      /\ \A e \in Drain \ {d} : result'[e] = result[e]
      /\ \/ /\ HasRoom(control)
            /\ control' = Append(control, "fin")
            /\ drain' = [drain EXCEPT ![d] = "ended"]
         \/ /\ control' = control
            /\ drain' = [drain EXCEPT ![d] = "finishing"]
  <2>1. CASE HandlerEnds(d)
    BY <2>1 DEF HandlerEnds, Live, TypeOK
  <2>2. CASE FinPut(d)
    BY <2>2 DEF FinPut, Live, TypeOK
  <2> QED
    BY <2>1, <2>2
<1> USE DEF countVars, startVars, groupVars, streamVars
<1>2. control' \in Seq(Messages) /\ Len(control') <= InboxSize
  BY <1>1, ControlPut DEF TypeOK, Messages
<1>3. TypeOK'
  BY <1>1, <1>2 DEF TypeOK, Messages
<1>4. /\ InControl("start")' = InControl("start") /\ InControl("ack")' = InControl("ack")
      /\ Cardinality(Live') + InControl("fin")' = Cardinality(Live) + InControl("fin")
      /\ Cardinality(Blocked') = Cardinality(Blocked)
  <2>1. drain[d] \in Working
    BY <1>1 DEF Live, Working
  <2>2. CASE control' = control /\ drain' = [drain EXCEPT ![d] = "finishing"]
    <3>1. drain'[d] = "finishing" /\ \A e \in Drain \ {d} : drain'[e] = drain[e]
      BY <2>2 DEF TypeOK
    <3>2. Cardinality(Blocked') = Cardinality(Blocked) /\ Cardinality(Live') = Cardinality(Live)
      BY <1>1, <2>1, <3>1, DrainMoves, DrainCount DEF Working
    <3> QED
      BY <2>2, <3>2, ControlKept
  <2>3. CASE HasRoom(control) /\ control' = Append(control, "fin") /\ drain' = [drain EXCEPT ![d] = "ended"]
    <3>1. drain'[d] = "ended" /\ \A e \in Drain \ {d} : drain'[e] = drain[e]
      BY <2>3 DEF TypeOK
    <3>2. Cardinality(Blocked') = Cardinality(Blocked) /\ Cardinality(Live') = Cardinality(Live) - 1
      BY <1>1, <2>1, <3>1, DrainMoves, DrainCount DEF Working
    <3>3. \A m : InControl(m)' = InControl(m) + (IF "fin" = m THEN 1 ELSE 0)
      BY <2>3, ControlPut DEF Messages
    <3> QED
      BY <3>2, <3>3, DrainCount, ControlCount
  <2> QED
    BY <1>1, <2>2, <2>3
<1>5. CountersExact'
  BY <1>1, <1>4 DEF CountersExact
<1>6. Ownership'
  BY <1>1 DEF Ownership, TypeOK, Live, Broken, Stopping
<1>7. Commands' /\ Streaming'
  <2>1. Unstarted' = Unstarted
    BY <1>1, <1>4 DEF Unstarted
  <2>2. Commands'
    BY <1>1, <2>1 DEF Commands
  <2>3. Streaming'
    BY <1>1 DEF Streaming
  <2> QED
    BY <2>2, <2>3
<1>8. Order'
  <2>1. \A e \in Drain : LastPut(e)' = LastPut(e) /\ Taken(e)' = Taken(e)
    BY <1>1 DEF LastPut, Taken, TypeOK
  <2>2. \A e \in Drain : drain[e] = "ended" => drain'[e] = "ended" /\ cancel'[e] = cancel[e]
    BY <1>1 DEF TypeOK
  <2> QED
    BY <1>1, <2>1, <2>2, OrderKept
<1>9. Faults'
  BY <1>1 DEF Faults, Ownership, TypeOK
<1>10. Quiet'
  BY <1>1 DEF Quiet, Broken
<1> QED
  BY <1>3, <1>5, <1>6, <1>7, <1>8, <1>9, <1>10

(* The TaskGroup takes notice of a task that has ended. *)
LEMMA TaskDoneInv ==
  ASSUME Inv, NEW d \in Drain, TaskDone(d)
  PROVE  Inv'
<1> USE DEF Inv
<1>1. /\ UNCHANGED <<queues, countVars, drain, result, emitted, streamVars>>
      /\ tasks' = tasks \ {d} /\ d \in tasks /\ drain[d] = "ended"
      /\ supervisor \in {"running", "exiting", "aborting"}
      /\ \/ /\ result[d] # "error"
            /\ UNCHANGED <<supervisor, supervisorError, cancel>>
         \/ /\ result[d] = "error"
            /\ supervisorError' = supervisorError \cup {"handler"} /\ supervisor' = "aborting"
      /\ cancel' \in [Drain -> {"no", "sent", "caught"}]
      /\ \A e \in Drain : drain[e] = "ended" => cancel'[e] = cancel[e]
  BY DEF TaskDone, CancelChildren, Ownership, TypeOK
<1> USE DEF queues, countVars, startVars, streamVars
<1>2. TypeOK'
  BY <1>1 DEF TypeOK, Errors
<1>3. CountersExact'
  BY <1>1, DrainsKept, ControlKept DEF CountersExact
<1>4. Ownership'
  BY <1>1 DEF Ownership, Live, Broken, Stopping
<1>5. Commands' /\ Streaming'
  BY <1>1, ControlKept DEF Commands, Unstarted, Streaming
<1>6. Order'
  BY <1>1, OrderKept DEF LastPut, Taken
<1>7. Faults'
  BY <1>1 DEF Faults
<1>8. Quiet'
  BY <1>1, DrainsKept DEF Quiet, Broken
<1> QED
  BY <1>2, <1>3, <1>4, <1>5, <1>6, <1>7, <1>8

LEMMA DrainStepInv ==
  ASSUME Inv, NEW d \in Drain, DrainStep(d)
  PROVE  Inv'
<1>1. CASE PutCancelled(d)
  BY <1>1, EndsInv DEF PutCancelled, Uncount, Live
<1>2. CASE HandlerEndsCancelled(d)
  <2>1. pendingEvents' = pendingEvents - 0 /\ d \in Live /\ cancel[d] # "no" /\ drain[d] # "putting"
    BY <1>2 DEF HandlerEndsCancelled, Live, Inv, TypeOK
  <2> QED
    BY <1>2, <2>1, EndsInv DEF HandlerEndsCancelled
<1>3. CASE FinCancelled(d)
  <2>1. pendingEvents' = pendingEvents - 0 /\ d \in Live /\ cancel[d] # "no" /\ drain[d] # "putting"
    BY <1>3 DEF FinCancelled, Live, Inv, TypeOK
  <2> QED
    BY <1>3, <2>1, EndsInv DEF FinCancelled
<1> QED
  BY <1>1, <1>2, <1>3, EmitInv, PutInv, CatchCancelInv, ReportInv, TaskDoneInv DEF DrainStep

-----------------------------------------------------------------------------
(* The supervisor and the TaskGroup.                                        *)

(* The next command is started: there is one that was produced and not yet  *)
(* started, so its number is one of a drain that does not exist.           *)
LEMMA StartInv ==
  ASSUME Inv, StartDrain, supervisor \in {"created", "running"}, supervisor' = "running",
         UNCHANGED <<inbox, supervisorError, streamVars>>,
         control' \in Seq(Messages), Len(control') <= InboxSize,
         InControl("ack")' = InControl("ack"), InControl("fin")' = InControl("fin"),
         Unstarted \in Nat \ {0}, Unstarted' = Unstarted - 1
  PROVE  Inv'
<1> USE DEF Inv, StartDrain, streamVars
<1>1. steps \in Nat /\ steps + 1 <= MaxCommands /\ maxSteps \in Nat /\ Len(cause) \in Nat
  BY BoundsAssumption, LimitsAssumption DEF Commands, TypeOK
<1>2. steps' \in Drain /\ drain[steps'] = "none" /\ steps' = steps + 1
  BY <1>1, BoundsAssumption DEF Drain, Ownership
<1>3. /\ drain'[steps'] = "running" /\ \A d \in Drain \ {steps'} : drain'[d] = drain[d]
      /\ ~ Stopping /\ ~ Broken
  BY <1>2 DEF TypeOK, Stopping, Ownership
<1>4. TypeOK'
  BY <1>1, <1>2 DEF TypeOK, Messages
<1>5. CountersExact'
  <2>1. Cardinality(Live') = Cardinality(Live) + 1 /\ Cardinality(Blocked') = Cardinality(Blocked)
    BY <1>2, <1>3, DrainMoves, DrainCount DEF Working
  <2>2. InControl("ack") \in Nat /\ InControl("fin") \in Nat
    BY ControlCount
  <2> QED
    BY <2>1, <2>2, DrainCount DEF CountersExact
<1>6. Ownership'
  BY <1>1, <1>2, <1>3 DEF Ownership, Live, Broken, Stopping, TypeOK, Drain
<1>7. Commands'
  BY <1>1 DEF Commands
<1>8. Streaming'
  BY DEF Streaming
<1>9. Order'
  BY <1>2, <1>3, OrderKept DEF LastPut, Taken
<1>10. Faults' /\ Quiet'
  BY <1>2, <1>3 DEF Faults, Quiet, Broken, TypeOK
<1> QED
  BY <1>4, <1>5, <1>6, <1>7, <1>8, <1>9, <1>10

LEMMA SuperviseInv ==
  ASSUME Inv, Supervise
  PROVE  Inv'
<1>1. /\ control' = control /\ \A m : InControl(m)' = InControl(m)
      /\ \A m : InControl(m) \in Nat
  BY ControlKept, ControlCount DEF Supervise, queues, Inv
<1>2. Unstarted \in Nat \ {0} /\ Unstarted' = Unstarted - 1
  BY <1>1 DEF Supervise, Unstarted, Inv, TypeOK, streamVars
<1> QED
  BY <1>1, <1>2, StartInv DEF Supervise, queues, Inv, TypeOK, Messages

LEMMA GetStartInv ==
  ASSUME Inv, GetStart
  PROVE  Inv'
<1>1. /\ control' \in Seq(Messages) /\ Len(control') <= InboxSize
      /\ \A m : InControl(m)' = InControl(m) - (IF "start" = m THEN 1 ELSE 0)
      /\ \A m : InControl(m) \in Nat
  BY ControlGot, ControlCount DEF GetStart, Get, Inv
<1>2. InControl("start") # 0
  BY ControlHead DEF GetStart, Get, Inv
<1>3. supervisor = "running" /\ supervisor' = "running"
  BY DEF GetStart, Get, StartDrain, ThenTestIdle, Inv, TypeOK
<1>4. Unstarted \in Nat \ {0} /\ Unstarted' = Unstarted - 1
  <2>1. InControl("start") \in Nat \ {0} /\ InControl("start")' = InControl("start") - 1
    BY <1>1, <1>2
  <2>2. toSend' = toSend /\ toSend \in Nat
    BY BoundsAssumption DEF GetStart, Get, Inv, TypeOK, streamVars
  <2> QED
    BY <1>3, <2>1, <2>2 DEF Unstarted
<1> QED
  BY <1>1, <1>3, <1>4, StartInv DEF GetStart, Get

(* The counters read zero only when nothing is left. *)
LEMMA IdleIsQuiet ==
  ASSUME TypeOK', CountersExact', Streaming', supervisor' \in {"running", "exiting"},
         activeTasks' = 0, pendingEvents' = 0, control' = <<>>
  PROVE  Live' = {} /\ inbox' = <<>> /\ stream' # "sending"
<1>1. IsFiniteSet(Drain)
  BY BoundsAssumption, FS_Interval DEF Drain
<1>2. Live' \in SUBSET Drain /\ Blocked' \in SUBSET Drain
  BY DEF Live, Blocked
<1>3. /\ IsFiniteSet(Live') /\ Cardinality(Live') \in Nat
      /\ Cardinality(Blocked') \in Nat /\ Len(inbox') \in Nat
  BY <1>1, <1>2, FS_Subset, FS_CardinalityType DEF TypeOK
<1>4. \A m : InControl(m)' = 0
  BY FS_EmptySet DEF InControl
<1>5. Cardinality(Live') = 0 /\ Len(inbox') = 0 /\ current' = NoEvent
  BY <1>3, <1>4 DEF CountersExact
<1> QED
  BY <1>3, <1>5, FS_EmptySet DEF TypeOK, Streaming

(* An acknowledgement or a DrainFinished is taken, and the run may be over. *)
LEMMA GetDoneInv ==
  ASSUME Inv, GetAck \/ GetFin
  PROVE  Inv'
<1> DEFINE message == IF GetAck THEN "ack" ELSE "fin"
<1> USE DEF Inv
<1>1. /\ UNCHANGED <<inbox, steps, maxSteps, supervisorError, tasks, drainVars, streamVars>>
      /\ supervisor = "running" /\ control # <<>> /\ control' = Tail(control)
      /\ supervisor' = IF activeTasks' = 0 /\ pendingEvents' = 0 /\ control' = <<>>
                       THEN "exiting" ELSE "running"
      /\ \/ /\ Head(control) = "ack"
            /\ pendingEvents' = pendingEvents - 1 /\ activeTasks' = activeTasks
         \/ /\ Head(control) = "fin"
            /\ pendingEvents' = pendingEvents /\ activeTasks' = activeTasks - 1
  BY DEF GetAck, GetFin, Get, Uncount, ThenTestIdle
<1> USE DEF drainVars, streamVars
<1>2. /\ control' \in Seq(Messages) /\ Len(control') <= InboxSize
      /\ \A m : InControl(m)' = InControl(m) - (IF Head(control) = m THEN 1 ELSE 0)
      /\ \A m : InControl(m) \in Nat
  BY <1>1, ControlGot, ControlCount
<1>3. InControl(Head(control)) # 0
  BY <1>1, ControlHead
<1>4. Live' = Live /\ Blocked' = Blocked /\ Len(inbox) \in Nat
  BY <1>1, DrainsKept DEF TypeOK
<1>5. /\ InControl("ack") \in Nat /\ InControl("fin") \in Nat
      /\ pendingEvents \in Nat /\ activeTasks \in Nat
      /\ Cardinality(Live) \in Nat /\ Cardinality(Blocked) \in Nat
  BY <1>2, DrainCount DEF TypeOK
<1>6. CountersExact' /\ pendingEvents' \in Nat /\ activeTasks' \in Nat
  <2> DEFINE held == IF current # NoEvent THEN 1 ELSE 0
  <2>1. held \in Nat /\ held' = held
    BY <1>1
  <2>2. /\ pendingEvents = Cardinality(Blocked) + Len(inbox) + InControl("ack") + held
        /\ activeTasks = Cardinality(Live) + InControl("fin")
    BY <1>1 DEF CountersExact
  <2>3. Len(inbox') = Len(inbox) /\ Cardinality(Live') = Cardinality(Live)
        /\ Cardinality(Blocked') = Cardinality(Blocked)
    BY <1>1, <1>4
  <2> HIDE DEF held
  <2>4. CASE Head(control) = "ack"
    <3>1. InControl("ack")' = InControl("ack") - 1 /\ InControl("fin")' = InControl("fin")
      BY <1>2, <1>5, <2>4
    <3>2. pendingEvents' = pendingEvents - 1 /\ activeTasks' = activeTasks /\ InControl("ack") # 0
      BY <1>1, <1>3, <2>4
    <3>3. pendingEvents' = Cardinality(Blocked') + Len(inbox') + InControl("ack")' + held'
      BY <1>4, <1>5, <2>1, <2>2, <2>3, <3>1, <3>2
    <3>4. activeTasks' = Cardinality(Live') + InControl("fin")'
      BY <1>5, <2>2, <2>3, <3>1, <3>2
    <3>5. pendingEvents' \in Nat /\ activeTasks' \in Nat
      BY <1>4, <1>5, <2>1, <2>2, <3>2
    <3> QED
      BY <3>3, <3>4, <3>5 DEF CountersExact, held
  <2>5. CASE Head(control) = "fin"
    <3>1. InControl("ack")' = InControl("ack") /\ InControl("fin")' = InControl("fin") - 1
      BY <1>2, <1>5, <2>5
    <3>2. pendingEvents' = pendingEvents /\ activeTasks' = activeTasks - 1 /\ InControl("fin") # 0
      BY <1>1, <1>3, <2>5
    <3>3. pendingEvents' = Cardinality(Blocked') + Len(inbox') + InControl("ack")' + held'
      BY <1>4, <1>5, <2>1, <2>2, <2>3, <3>1, <3>2
    <3>4. activeTasks' = Cardinality(Live') + InControl("fin")'
      BY <1>5, <2>2, <2>3, <3>1, <3>2
    <3>5. pendingEvents' \in Nat /\ activeTasks' \in Nat
      BY <1>5, <2>2, <3>2
    <3> QED
      BY <3>3, <3>4, <3>5 DEF CountersExact, held
  <2> QED
    BY <1>1, <2>4, <2>5
<1>7. TypeOK'
  BY <1>1, <1>2, <1>6 DEF TypeOK, Messages
<1>8. Ownership'
  BY <1>1, <1>4 DEF Ownership, Broken, Stopping
<1>9. Commands'
  BY <1>1, <1>2 DEF Commands, Unstarted
<1>10. Streaming' /\ Faults'
  BY <1>1 DEF Streaming, Faults
<1>11. Order'
  BY <1>1, OrderKept DEF LastPut, Taken
<1>12. Quiet'
  BY <1>1, <1>6, <1>7, <1>10, IdleIsQuiet DEF Quiet, Broken
<1> QED
  BY <1>6, <1>7, <1>8, <1>9, <1>10, <1>11, <1>12

LEMMA OverBudgetInv ==
  ASSUME Inv, GetStartOverBudget
  PROVE  Inv'
<1> USE DEF Inv, GetStartOverBudget, Get, countVars, startVars, streamVars
<1>1. /\ control' \in Seq(Messages) /\ Len(control') <= InboxSize
      /\ \A m : InControl(m)' = InControl(m) - (IF "start" = m THEN 1 ELSE 0)
      /\ \A m : InControl(m) \in Nat
  BY ControlGot, ControlCount
<1>2. InControl("start") # 0
  BY ControlHead
<1>3. /\ cancel' \in [Drain -> {"no", "sent", "caught"}]
      /\ \A d \in Drain : drain[d] = "ended" => cancel'[d] = cancel[d]
  BY DEF CancelChildren, TypeOK
<1>4. TypeOK'
  BY <1>1, <1>3 DEF TypeOK, Messages, Errors
<1>5. CountersExact' /\ Quiet'
  BY <1>1, DrainsKept DEF CountersExact, Quiet
<1>6. Ownership'
  BY DrainsKept DEF Ownership, Broken, Stopping
<1>7. steps \in Nat /\ maxSteps \in Nat /\ Len(cause) \in Nat /\ toSend \in Nat
  BY LimitsAssumption, BoundsAssumption DEF TypeOK
<1>8. Commands'
  BY <1>1, <1>7 DEF Commands, Unstarted
<1>9. Streaming'
  BY DEF Streaming
<1>10. Order'
  BY <1>3, OrderKept DEF LastPut, Taken
<1>11. Faults'
  BY <1>1, <1>2, <1>7 DEF Faults, Commands, Unstarted
<1> QED
  BY <1>4, <1>5, <1>6, <1>8, <1>9, <1>10, <1>11

LEMMA SupervisorEndsInv ==
  ASSUME Inv, SupervisorEnds
  PROVE  Inv'
<1> USE DEF Inv, SupervisorEnds, queues, countVars, startVars, drainVars, streamVars
<1>1. TypeOK'
  BY DEF TypeOK
<1>2. CountersExact' /\ Commands'
  BY DrainsKept, ControlKept DEF CountersExact, Commands, Unstarted
<1>3. Ownership' /\ Quiet'
  BY DrainsKept DEF Ownership, Broken, Stopping, Quiet
<1>4. Streaming' /\ Faults'
  BY DEF Streaming, Faults
<1>5. Order'
  BY OrderKept DEF LastPut, Taken
<1> QED
  BY <1>1, <1>2, <1>3, <1>4, <1>5
-----------------------------------------------------------------------------
(* The generator.                                                           *)

(* The event it takes is the next one of its command. *)
LEMMA NextEventFacts ==
  ASSUME Inv, NextEvent
  PROVE  /\ inbox' \in Seq(Event) /\ Len(inbox') <= InboxSize /\ Len(inbox') = Len(inbox) - 1
         /\ current = NoEvent /\ current' \in Event /\ current' # NoEvent
         /\ current'[2] = delivered[current'[1]] + 1
<1> USE DEF Inv, NextEvent
<1>1. /\ inbox' \in Seq(Event) /\ Len(inbox') <= InboxSize /\ Len(inbox') = Len(inbox) - 1
      /\ current' \in Event
  BY InboxGot
<1>2. PICK d \in Drain, n \in 1 .. MaxEvents : current' = <<d, n>>
  BY <1>1 DEF Event
<1>3. current = NoEvent /\ current' # NoEvent /\ Taken(d) = delivered[d] /\ delivered[d] \in Nat
  BY <1>2, BoundsAssumption DEF Streaming, Taken, NoEvent, Drain, TypeOK
<1>4. 1 \in DOMAIN inbox /\ inbox[1] = <<d, n>> /\ \A i \in DOMAIN inbox : i \in Nat /\ 1 <= i
  BY <1>2 DEF TypeOK
<1>5. Taken(d) < n /\ n <= LastPut(d) /\ LastPut(d) \in Int /\ n \in Int
  <2>1. inbox[1][1] = d /\ inbox[1][2] = n
    BY <1>4
  <2>2. Taken(d) < n /\ n <= LastPut(d)
    BY <1>4, <2>1 DEF Order
  <2>3. emitted[d] \in Int /\ n \in Int
    BY BoundsAssumption DEF TypeOK
  <2> QED
    BY <2>2, <2>3 DEF LastPut
<1>6. ASSUME n # delivered[d] + 1 PROVE FALSE
  <2>1. Taken(d) + 1 \in Taken(d) + 1 .. LastPut(d) /\ Taken(d) + 1 # LastPut(d)
    BY <1>3, <1>5, <1>6
  <2>2. PICK i \in DOMAIN inbox : inbox[i] = <<d, Taken(d) + 1>>
    BY <2>1 DEF Order
  <2>3. i # 1 /\ 1 < i
    BY <1>3, <1>4, <1>6, <2>2
  <2>4. inbox[1][1] = inbox[i][1] /\ inbox[1][2] = n /\ inbox[i][2] = Taken(d) + 1
    BY <1>4, <2>2
  <2>5. n < Taken(d) + 1
    BY <1>4, <2>3, <2>4 DEF Order
  <2> QED
    BY <1>3, <1>5, <2>5
<1> QED
  BY <1>1, <1>2, <1>3, <1>6

LEMMA OrderGot ==
  ASSUME Inv, NextEvent, UNCHANGED <<drain, emitted, delivered>>,
         \A d \in Drain : drain[d] = "ended" /\ cancel[d] # "no" => cancel'[d] # "no"
  PROVE  Order'
<1> USE DEF Inv, NextEvent
<1>1. /\ DOMAIN inbox = 1 .. Len(inbox) /\ DOMAIN inbox' = 1 .. Len(inbox) - 1
      /\ Len(inbox) \in Nat /\ 1 \in DOMAIN inbox /\ current' = inbox[1]
      /\ \A i \in DOMAIN inbox' : inbox'[i] = inbox[i + 1] /\ i + 1 \in DOMAIN inbox /\ 1 < i + 1
      /\ \A i \in DOMAIN inbox : inbox[i] \in Event
  BY InboxGot DEF TypeOK
<1>2. current = NoEvent /\ current' \in Event /\ current'[2] = delivered[current'[1]] + 1
  BY NextEventFacts
<1>3. ASSUME NEW d \in Drain
      PROVE  /\ LastPut(d)' = LastPut(d) /\ LastPut(d) \in Int
             /\ Taken(d) \in Nat /\ Taken(d) = delivered[d]
             /\ Taken(d)' = IF inbox[1][1] = d THEN inbox[1][2] ELSE Taken(d)
  <2>1. emitted[d] \in Nat /\ delivered[d] \in Nat
    BY BoundsAssumption DEF TypeOK
  <2>2. current[1] # d
    BY <1>2 DEF NoEvent, Drain
  <2> QED
    BY <1>1, <1>2, <2>1, <2>2 DEF LastPut, Taken
<1>4. \A i, j \in DOMAIN inbox' :
        i < j /\ inbox'[i][1] = inbox'[j][1] => inbox'[i][2] < inbox'[j][2]
  BY <1>1 DEF Order
<1>5. ASSUME NEW d \in Drain
      PROVE  /\ Taken(d)' <= LastPut(d)'
             /\ \A i \in DOMAIN inbox' :
                  inbox'[i][1] = d => Taken(d)' < inbox'[i][2] /\ inbox'[i][2] <= LastPut(d)'
  BY <1>1, <1>3 DEF Order
<1>6. ASSUME NEW d \in Drain, NEW n \in Taken(d)' + 1 .. LastPut(d)'
      PROVE  \/ \E i \in DOMAIN inbox' : inbox'[i] = <<d, n>>
             \/ n = LastPut(d)' /\ drain'[d] = "ended" /\ cancel'[d] # "no"
  <2>1. inbox[1][2] \in Int /\ (inbox[1][1] = d => inbox[1][2] = Taken(d) + 1)
    BY <1>1, <1>2, <1>3, BoundsAssumption DEF Event
  <2>2. n \in Taken(d) + 1 .. LastPut(d) /\ inbox[1] # <<d, n>>
    BY <1>3, <2>1
  <2>3. CASE n = LastPut(d) /\ drain[d] = "ended" /\ cancel[d] # "no"
    BY <1>3, <2>3
  <2>4. CASE \E i \in DOMAIN inbox : inbox[i] = <<d, n>>
    <3>1. PICK i \in DOMAIN inbox : inbox[i] = <<d, n>>
      BY <2>4
    <3>2. i - 1 \in DOMAIN inbox' /\ (i - 1) + 1 = i
      BY <1>1, <2>2, <3>1
    <3> QED
      BY <1>1, <3>1, <3>2
  <2> QED
    BY <2>2, <2>3, <2>4 DEF Order
<1> QED
  BY <1>4, <1>5, <1>6 DEF Order

(* The generator goes into its finally block, perhaps with an event in its  *)
(* hands: its reactions raised, or it was taken as the task was cancelled. *)
LEMMA FinallyInv ==
  ASSUME Inv, NEW o \in {"raised", "finished", "closed"}, Finally(o),
         stream \in {"waiting", "sending", "yielded"},
         NextEvent \/ UNCHANGED <<inbox, current>>
  PROVE  Inv'
<1> USE DEF Inv, Finally, countVars, startVars
<1>1. /\ cancel' \in [Drain -> {"no", "sent", "caught"}]
      /\ \A d \in Drain : drain[d] = "ended" => cancel'[d] = cancel[d]
      /\ supervisor' \in {"aborting", "done"}
      /\ supervisor' = "done" => supervisor \in {"created", "done"}
  BY DEF CancelSupervisor, CancelChildren, TypeOK
<1>2. /\ inbox' \in Seq(Event) /\ Len(inbox') <= InboxSize
      /\ current' \in Event \cup {NoEvent}
      /\ current' # NoEvent => current'[2] = delivered[current'[1]] + 1
      /\ current \in {NoEvent, current'}
      /\ Len(inbox) \in Nat /\ Len(inbox') \in Nat
      /\ Len(inbox') + (IF current' # NoEvent THEN 1 ELSE 0)
           = Len(inbox) + (IF current # NoEvent THEN 1 ELSE 0)
  <2>1. CASE NextEvent
    BY <2>1, NextEventFacts DEF TypeOK
  <2>2. CASE UNCHANGED <<inbox, current>>
    BY <2>2 DEF TypeOK, Streaming
  <2> QED
    BY <2>1, <2>2
<1>3. TypeOK'
  BY <1>1, <1>2 DEF TypeOK
<1>4. CountersExact'
  <2>1. InControl("ack")' = InControl("ack") /\ InControl("ack") \in Nat
    BY ControlKept, ControlCount
  <2>2. Blocked' = Blocked /\ Cardinality(Blocked) \in Nat
    BY DrainsKept, DrainCount
  <2>3. pendingEvents' = pendingEvents /\ activeTasks' = activeTasks
    OBVIOUS
  <2>4. CountersExact
    OBVIOUS
  <2> HIDE DEF Inv, Finally
  <2> QED
    BY <1>1, <1>2, <2>1, <2>2, <2>3, <2>4 DEF CountersExact
<1>5. Ownership'
  BY <1>1, DrainsKept DEF Ownership, Broken, Stopping
<1>6. Commands'
  <2>1. InControl("start")' = InControl("start") /\ InControl("start") \in Nat
    BY ControlKept, ControlCount
  <2>2. Unstarted \in Nat /\ Unstarted' \in Nat /\ Unstarted' <= Unstarted
    BY <1>1, <2>1, BoundsAssumption DEF Unstarted, TypeOK
  <2>3. steps \in Nat /\ Len(cause) \in Nat
    BY BoundsAssumption DEF TypeOK
  <2>4. /\ steps' = steps /\ maxSteps' = maxSteps /\ cause' = cause /\ delivered' = delivered
        /\ outcome' # "none"
    OBVIOUS
  <2>5. steps <= maxSteps /\ steps + Unstarted <= Len(cause)
    BY DEF Commands
  <2>6. \A c \in DOMAIN cause : \/ cause[c] \in {NoEvent, current'}
                                \/ cause[c][2] <= delivered[cause[c][1]]
    BY <1>2 DEF Commands
  <2>7. steps + Unstarted' <= Len(cause)
    BY <2>2, <2>3, <2>5
  <2> HIDE DEF Inv, Finally
  <2> QED
    BY <2>4, <2>5, <2>6, <2>7 DEF Commands
<1>7. Streaming'
  BY <1>2 DEF Streaming
<1>8. Order'
  <2>1. CASE NextEvent
    BY <1>1, <2>1, OrderGot
  <2>2. CASE UNCHANGED <<inbox, current>>
    BY <1>1, <2>2, OrderKept DEF LastPut, Taken
  <2> QED
    BY <2>1, <2>2
<1>9. Faults'
  BY DEF Faults
<1>10. Quiet'
  BY <1>1 DEF Quiet, Broken
<1> QED
  BY <1>3, <1>4, <1>5, <1>6, <1>7, <1>8, <1>9, <1>10

LEMMA ReactInv ==
  ASSUME Inv, React
  PROVE  Inv'
<1> USE DEF Inv, React, countVars, startVars, groupVars, drainVars
<1>1. /\ inbox' \in Seq(Event) /\ Len(inbox') <= InboxSize /\ Len(inbox') = Len(inbox) - 1
      /\ current = NoEvent /\ current' \in Event /\ current' # NoEvent
      /\ current'[2] = delivered[current'[1]] + 1
      /\ Len(inbox) \in Nat
  BY NextEventFacts DEF TypeOK
<1>2. stream = "waiting" /\ toSend = 0 /\ inbox # <<>> /\ Len(cause) \in Nat
  BY DEF NextEvent, Streaming, TypeOK
<1>3. PICK n \in 0 .. MaxCommands - Len(cause) : toSend' = n /\ cause' = cause \o Caused(current', n)
  OBVIOUS
<1>4. /\ cause' \in Seq(Event \cup {NoEvent}) /\ Len(cause') = Len(cause) + n
      /\ \A c \in DOMAIN cause' :
           IF c \in DOMAIN cause THEN cause'[c] = cause[c] ELSE cause'[c] = current'
  <2>1. /\ n \in Nat /\ Caused(current', n) \in Seq(Event \cup {NoEvent})
        /\ Len(Caused(current', n)) = n
        /\ \A k \in 1 .. n : Caused(current', n)[k] = current'
    BY <1>1, <1>2, BoundsAssumption DEF Caused
  <2> QED
    BY <1>2, <1>3, <2>1 DEF TypeOK
<1>5. TypeOK'
  <2>1. Len(cause') <= MaxCommands /\ toSend' \in 0 .. MaxCommands
    BY <1>2, <1>3, <1>4, BoundsAssumption DEF TypeOK
  <2> QED
    BY <1>1, <1>4, <2>1 DEF TypeOK
<1>6. CountersExact'
  <2>1. InControl("ack")' = InControl("ack") /\ InControl("fin")' = InControl("fin")
        /\ InControl("ack") \in Nat
    BY ControlKept, ControlCount
  <2>2. Live' = Live /\ Blocked' = Blocked /\ Cardinality(Blocked) \in Nat
    BY DrainsKept, DrainCount
  <2> QED
    BY <1>1, <2>1, <2>2 DEF CountersExact
<1>7. Ownership'
  BY DrainsKept DEF Ownership, Broken, Stopping
<1>8. Commands'
  <2>1. InControl("start")' = InControl("start") /\ InControl("start") \in Nat
    BY ControlKept, ControlCount
  <2>2. Unstarted \in Nat /\ Unstarted' = Unstarted + n /\ n \in Nat /\ steps \in Nat
    BY <1>2, <1>3, <2>1, BoundsAssumption DEF Unstarted, TypeOK
  <2>3. \A c \in DOMAIN cause' :
          cause'[c] \in {NoEvent, current'} \/ cause'[c][2] <= delivered'[cause'[c][1]]
    BY <1>1, <1>4 DEF Commands
  <2>4. /\ steps <= maxSteps /\ steps + Unstarted <= Len(cause)
        /\ outcome = "none" /\ "budget" \notin supervisorError => steps + Unstarted = Len(cause)
    BY DEF Commands
  <2>5. /\ steps + Unstarted' <= Len(cause')
        /\ outcome = "none" /\ "budget" \notin supervisorError => steps + Unstarted' = Len(cause')
    BY <1>2, <1>4, <2>2, <2>4
  <2> QED
    BY <2>3, <2>4, <2>5 DEF Commands
<1>9. Streaming'
  BY <1>1 DEF Streaming, NextEvent
<1>10. Order'
  BY OrderGot
<1>11. Faults'
  BY <1>2, <1>3, <1>4 DEF Faults, TypeOK
<1>12. Quiet'
  BY <1>2 DEF Quiet, Broken
<1> QED
  BY <1>5, <1>6, <1>7, <1>8, <1>9, <1>10, <1>11, <1>12

LEMMA SendStartInv ==
  ASSUME Inv, SendStart
  PROVE  Inv'
<1> USE DEF Inv, SendStart, countVars, startVars, groupVars, drainVars
<1>1. /\ control' \in Seq(Messages) /\ Len(control') <= InboxSize
      /\ \A m : InControl(m)' = InControl(m) + (IF "start" = m THEN 1 ELSE 0)
      /\ \A m : InControl(m) \in Nat
  BY ControlPut, ControlCount DEF Messages
<1>2. toSend \in Nat /\ toSend' \in 0 .. MaxCommands
  BY BoundsAssumption DEF TypeOK
<1>3. TypeOK'
  BY <1>1, <1>2 DEF TypeOK, Messages
<1>4. CountersExact'
  BY <1>1, DrainsKept DEF CountersExact
<1>5. Ownership'
  BY DrainsKept DEF Ownership, Broken, Stopping
<1>6. Commands'
  <2>1. Unstarted' = Unstarted
    BY <1>1, <1>2 DEF Unstarted
  <2> QED
    BY <2>1 DEF Commands
<1>7. Streaming' /\ Faults' /\ Quiet'
  BY DEF Streaming, Faults, Quiet, Broken
<1>8. Order'
  BY OrderKept DEF LastPut, Taken
<1> QED
  BY <1>3, <1>4, <1>5, <1>6, <1>7, <1>8

LEMMA SendAckInv ==
  ASSUME Inv, SendAck
  PROVE  Inv'
<1> USE DEF Inv, SendAck, countVars, startVars, groupVars, drainVars
<1>1. /\ control' \in Seq(Messages) /\ Len(control') <= InboxSize
      /\ \A m : InControl(m)' = InControl(m) + (IF "ack" = m THEN 1 ELSE 0)
      /\ \A m : InControl(m) \in Nat
  BY ControlPut, ControlCount DEF Messages
<1>2. PICK d \in Drain, n \in 1 .. MaxEvents : current = <<d, n>>
  BY DEF Streaming, TypeOK, Event
<1>3. n = delivered[d] + 1 /\ \A e \in Drain : delivered[e] \in Nat
  BY <1>2, BoundsAssumption DEF Streaming, TypeOK, NoEvent
<1>4. /\ delivered' \in [Drain -> 0 .. MaxEvents]
      /\ \A e \in Drain : delivered'[e] = IF e = d THEN n ELSE delivered[e]
  BY <1>2, <1>3 DEF TypeOK
<1>5. TypeOK'
  BY <1>1, <1>4 DEF TypeOK, Messages
<1>6. CountersExact'
  <2>1. current # NoEvent /\ Len(inbox) \in Nat
    BY DEF Streaming, TypeOK
  <2>2. InControl("ack")' = InControl("ack") + 1 /\ InControl("fin")' = InControl("fin")
        /\ InControl("ack") \in Nat
    BY <1>1
  <2>3. Live' = Live /\ Blocked' = Blocked /\ Cardinality(Blocked) \in Nat
    BY DrainsKept, DrainCount
  <2>4. pendingEvents = Cardinality(Blocked) + Len(inbox) + InControl("ack") + 1
    BY <2>1 DEF CountersExact
  <2>5. pendingEvents' = Cardinality(Blocked') + Len(inbox') + InControl("ack")'
    BY <2>1, <2>2, <2>3, <2>4
  <2> QED
    BY <2>1, <2>2, <2>3, <2>5 DEF CountersExact
<1>7. Ownership'
  BY DrainsKept DEF Ownership, Broken, Stopping
<1>8. Commands'
  <2>1. Unstarted' = Unstarted
    BY <1>1 DEF Unstarted
  <2>2. ASSUME NEW c \in DOMAIN cause
        PROVE  cause[c] = NoEvent \/ cause[c][2] <= delivered'[cause[c][1]]
    <3>1. cause[c] \in Event \cup {NoEvent}
      BY DEF TypeOK
    <3>2. CASE cause[c] = current
      BY <1>2, <1>4, <3>2
    <3>3. CASE cause[c] # current /\ cause[c] # NoEvent
      BY <1>3, <1>4, <3>1, <3>3, BoundsAssumption DEF Commands, Event
    <3> QED
      BY <3>2, <3>3
  <2> QED
    BY <2>1, <2>2 DEF Commands
<1>9. Streaming'
  BY DEF Streaming
<1>10. Order'
  <2>1. \A e \in Drain : Taken(e)' = Taken(e) /\ LastPut(e)' = LastPut(e)
    BY <1>2, <1>3, <1>4 DEF Taken, LastPut, NoEvent, Drain
  <2> QED
    BY <2>1, OrderKept
<1>11. Faults' /\ Quiet'
  BY DEF Faults, Quiet, Broken
<1> QED
  BY <1>5, <1>6, <1>7, <1>8, <1>9, <1>10, <1>11

(* The generator is asked again, or its supervisor is gone and it ends.     *)
LEMMA PullOrEndInv ==
  ASSUME Inv, Pull \/ StreamEnds
  PROVE  Inv'
<1> USE DEF Inv
<1>1. /\ UNCHANGED <<queues, countVars, groupVars, drainVars, current, toSend, delivered, outcome, cause>>
      /\ \/ stream = "yielded" /\ stream' = "waiting"
         \/ stream = "closing" /\ stream' = "ended"
  BY DEF Pull, StreamEnds
<1> USE DEF queues, countVars, startVars, groupVars, drainVars
<1>2. TypeOK'
  BY <1>1 DEF TypeOK
<1>3. CountersExact' /\ Quiet'
  BY <1>1, DrainsKept, ControlKept DEF CountersExact, Quiet, Broken
<1>4. Ownership'
  BY <1>1, DrainsKept DEF Ownership, Broken, Stopping
<1>5. Commands'
  BY <1>1, ControlKept DEF Commands, Unstarted
<1>6. Streaming' /\ Faults'
  BY <1>1 DEF Streaming, Faults
<1>7. Order'
  BY <1>1, OrderKept DEF LastPut, Taken
<1> QED
  BY <1>2, <1>3, <1>4, <1>5, <1>6, <1>7

(* The supervisor is found gone with control full only after a failure: a   *)
(* run that ended by itself has left control empty.                        *)
LEMMA RefusedRaises ==
  ASSUME Inv, SendRefused
  PROVE  supervisorError # {}
<1>1. Len(control) # 0 /\ outcome = "none"
  BY SizeAssumption DEF Inv, SendRefused, TypeOK, HasRoom, Streaming
<1> QED
  BY <1>1 DEF Inv, Quiet, Broken, SendRefused

LEMMA NextInv == Inv /\ [Next]_vars => Inv'
<1> SUFFICES ASSUME Inv, [Next]_vars PROVE Inv'
  OBVIOUS
<1>1. CASE \E d \in Drain : DrainStep(d)
  BY <1>1, DrainStepInv
<1>2. CASE SupervisorStep
  BY <1>2, SuperviseInv, GetStartInv, OverBudgetInv, GetDoneInv, SupervisorEndsInv DEF SupervisorStep
<1>3. CASE StreamStep
  <2>1. CASE ReactionFails
    BY <2>1, FinallyInv DEF ReactionFails, NextEvent
  <2>2. CASE StreamStops
    BY <2>2, FinallyInv DEF StreamStops, RaisesOr
  <2>3. CASE SendRefused
    BY <2>3, RefusedRaises, FinallyInv DEF SendRefused, RaisesOr
  <2> QED
    BY <1>3, <2>1, <2>2, <2>3, ReactInv, SendStartInv, SendAckInv, PullOrEndInv DEF StreamStep
<1>4. CASE CloseAtYield \/ Interrupt
  BY <1>4, FinallyInv DEF CloseAtYield, Interrupt, NextEvent
<1>5. CASE Pull
  BY <1>5, PullOrEndInv
<1>6. CASE UNCHANGED vars
  <2> USE <1>6 DEF vars, queues, countVars, startVars, groupVars, drainVars, streamVars, Inv
  <2>1. TypeOK'
    BY DEF TypeOK
  <2>2. CountersExact' /\ Quiet'
    BY DrainsKept, ControlKept DEF CountersExact, Quiet, Broken
  <2>3. Ownership'
    BY DrainsKept DEF Ownership, Broken, Stopping
  <2>4. Commands'
    BY ControlKept DEF Commands, Unstarted
  <2>5. Streaming' /\ Faults'
    BY DEF Streaming, Faults
  <2>6. Order'
    BY OrderKept DEF LastPut, Taken
  <2> QED
    BY <2>1, <2>2, <2>3, <2>4, <2>5, <2>6
<1> QED
  BY <1>1, <1>2, <1>3, <1>4, <1>5, <1>6 DEF Next, Ended

-----------------------------------------------------------------------------
(* Every reachable state satisfies the inductive invariant: its drains,     *)
(* queues, counters and produced commands fit together (run_envelope).     *)
THEOREM Invariance == Spec => []Inv
<1> QED
  BY InitInv, NextInv, PTL DEF Spec

(* The variables keep their types: no queue outgrows inbox_size, and neither *)
(* pending_events nor active_tasks ever falls below zero.                   *)
THEOREM TypeCorrect == Spec => []TypeOK
<1>1. Inv => TypeOK
  BY DEF Inv
<1> QED
  BY <1>1, Invariance, PTL

(* pending_events counts exactly the events between their emission and their *)
(* acknowledgement, active_tasks exactly the commands between their start   *)
(* and the taking of their DrainFinished, wherever cancellation strikes.    *)
THEOREM CountersAreExact == Spec => []CountersExact
<1>1. Inv => CountersExact
  BY DEF Inv
<1> QED
  BY <1>1, Invariance, PTL

(* supervise ends a run on its own only when no handler, event or produced  *)
(* command is left that could add to it.                                   *)
THEOREM StopsWhenQuiescent == Spec => []QuiescentStop
<1>1. Inv => QuiescentStop
  BY DEF Inv, Quiet, QuiescentStop
<1> QED
  BY <1>1, Invariance, PTL

(* "runtime supervisor stopped before accepting control" (runtime.py:285)   *)
(* is never raised without an error of the supervisor: send_control always *)
(* finds either room or a failure to report.                               *)
THEOREM NeverStoppedWithoutError == Spec => [](outcome # "stopped")
<1>1. Inv => outcome # "stopped"
  BY DEF Inv, Streaming
<1> QED
  BY <1>1, Invariance, PTL

-----------------------------------------------------------------------------
(* The pump implements WorkGraph, for any queue size, limits and bounds:    *)
(* queues, counters, tasks and cancellation do not show in what a consumer *)
(* of the stream is promised.  Graph, in RuntimePump, is the refinement    *)
(* mapping; every step is a step of the work graph or leaves it alone.     *)

Failed == {d \in Drain : drain[d] = "ended" /\ result[d] = "error"}

(* What a step that the work graph does not see leaves alone. *)
LEMMA Unseen ==
  ASSUME UNCHANGED <<maxSteps, cause, steps, emitted, delivered, current, outcome>>,
         Live' = Live, Failed' = Failed, (stream = "ended") <=> (stream' = "ended")
  PROVE  UNCHANGED Graph!vars
BY DEF Graph!vars, Failed

LEMMA InitRefines == Init => Graph!Init
<1> SUFFICES ASSUME Init PROVE Graph!Init
  OBVIOUS
<1>1. Live = {} /\ Failed = {}
  BY DEF Init, Live, Failed
<1> QED
  BY <1>1, LimitsAssumption DEF Init, Graph!Init, Graph!Command, Graph!NoEvent, NoEvent, Drain, Failed

(* The handler of d ends, and with it what its command can emit. *)
LEMMA EndRefines ==
  ASSUME TypeOK, NEW d \in Live, drain' = [drain EXCEPT ![d] = "ended"],
         \A e \in Drain \ {d} : result'[e] = result[e],
         UNCHANGED <<maxSteps, cause, steps, emitted, delivered, current, outcome, stream>>
  PROVE  Graph!End(d)
<1>1. d \in Drain /\ drain'[d] = "ended" /\ \A e \in Drain \ {d} : drain'[e] = drain[e]
  BY DEF Live, TypeOK
<1>2. Live' = Live \ {d}
  BY <1>1 DEF Live
<1>3. Failed' \in {Failed, Failed \cup {d}}
  <2>1. Failed' = Failed \/ Failed' = Failed \cup {d}
    BY <1>1 DEF Failed, Live
  <2> QED
    BY <2>1
<1> QED
  BY <1>2, <1>3 DEF Graph!End, Failed

LEMMA DrainStepRefines ==
  ASSUME Inv, NEW d \in Drain, DrainStep(d)
  PROVE  Graph!Emit(d) \/ Graph!End(d) \/ UNCHANGED Graph!vars
<1> USE DEF Inv, queues, startVars, countVars, groupVars, drainVars, streamVars
<1>1. CASE Emit(d)
  <2>1. d \in Live /\ Live' = Live /\ Failed' = Failed
    BY <1>1 DEF Emit, Live, Failed, TypeOK
  <2> QED
    BY <1>1, <2>1 DEF Emit, Graph!Emit, Failed
<1>2. CASE Put(d) \/ CatchCancel(d) \/ TaskDone(d)
  <2>1. Live' = Live /\ Failed' = Failed
    BY <1>2 DEF Put, CatchCancel, TaskDone, Live, Failed, TypeOK
  <2> QED
    BY <1>2, <2>1, Unseen DEF Put, CatchCancel, TaskDone
<1>3. CASE PutCancelled(d) \/ HandlerEndsCancelled(d) \/ FinCancelled(d)
  BY <1>3, EndRefines DEF PutCancelled, HandlerEndsCancelled, FinCancelled, Ends, Uncount, Live, TypeOK
<1>4. CASE HandlerEnds(d) \/ FinPut(d)
  <2>1. /\ UNCHANGED <<maxSteps, cause, steps, emitted, delivered, current, outcome, stream>>
        /\ d \in Live /\ drain[d] # "ended" /\ \A e \in Drain \ {d} : result'[e] = result[e]
        /\ \/ drain' = [drain EXCEPT ![d] = "ended"]
           \/ drain' = [drain EXCEPT ![d] = "finishing"]
    BY <1>4 DEF HandlerEnds, FinPut, Live, TypeOK
  <2>2. CASE drain' = [drain EXCEPT ![d] = "ended"]
    BY <2>1, <2>2, EndRefines
  <2>3. CASE drain' = [drain EXCEPT ![d] = "finishing"]
    <3>1. drain'[d] = "finishing" /\ \A e \in Drain \ {d} : drain'[e] = drain[e]
      BY <2>3 DEF TypeOK
    <3>2. Live' = Live /\ Failed' = Failed
      BY <2>1, <3>1 DEF Live, Failed
    <3> QED
      BY <2>1, <3>2, Unseen
  <2> QED
    BY <2>1, <2>2, <2>3
<1> QED
  BY <1>1, <1>2, <1>3, <1>4 DEF DrainStep

(* Commands start one by one while there are some that were produced. *)
LEMMA StartRefines ==
  ASSUME Inv, StartDrain, supervisor \in {"created", "running"}, Unstarted \in Nat \ {0},
         UNCHANGED streamVars
  PROVE  Graph!Start
<1> USE DEF Inv, StartDrain, streamVars
<1>1. /\ steps \in Nat /\ maxSteps \in Nat /\ Len(cause) \in Nat /\ Len(cause) <= MaxCommands
      /\ steps < Len(cause) /\ steps < maxSteps
  BY BoundsAssumption, LimitsAssumption DEF Commands, TypeOK
<1>2. steps' \in Drain /\ drain[steps'] = "none" /\ steps' = steps + 1
  BY <1>1, BoundsAssumption DEF Drain, Ownership
<1>3. drain'[steps'] = "running" /\ \A d \in Drain \ {steps'} : drain'[d] = drain[d]
  BY <1>2 DEF TypeOK
<1>4. Live' = Live \cup {steps'} /\ Failed' = Failed
  BY <1>2, <1>3 DEF Live, Failed
<1>5. outcome = "none"
  BY DEF Ownership, Stopping, Broken
<1> QED
  BY <1>1, <1>2, <1>4, <1>5 DEF Graph!Start, Failed

LEMMA SupervisorStepRefines ==
  ASSUME Inv, SupervisorStep
  PROVE  Graph!Start \/ UNCHANGED Graph!vars
<1> USE DEF Inv
<1>1. \A m : InControl(m) \in Nat
  BY ControlCount
<1>2. CASE Supervise
  <2>1. Unstarted \in Nat \ {0}
    BY <1>1, <1>2 DEF Supervise, Unstarted, TypeOK
  <2> QED
    BY <1>2, <2>1, StartRefines DEF Supervise
<1>3. CASE GetStart
  <2>1. InControl("start") # 0
    BY <1>3, ControlHead DEF GetStart, Get
  <2>2. Unstarted \in Nat \ {0}
    BY <1>1, <2>1 DEF Unstarted, TypeOK
  <2> QED
    BY <1>3, <2>2, StartRefines DEF GetStart, Get
<1>4. CASE GetStartOverBudget \/ GetAck \/ GetFin \/ SupervisorEnds
  <2>1. UNCHANGED <<maxSteps, steps, emitted, streamVars, drain, result>>
    BY <1>4 DEF GetStartOverBudget, GetAck, GetFin, SupervisorEnds, Get, Uncount,
                countVars, startVars, drainVars
  <2>2. Live' = Live /\ Failed' = Failed
    BY <2>1 DEF Live, Failed
  <2> QED
    BY <2>1, <2>2, Unseen DEF streamVars
<1> QED
  BY <1>2, <1>3, <1>4 DEF SupervisorStep

-----------------------------------------------------------------------------
(* The generator.                                                           *)

(* The event taken is the next of a command whose own cause was shown. *)
LEMMA NextEventIsNext ==
  ASSUME Inv, NextEvent
  PROVE  /\ current' \in Event /\ current = NoEvent /\ outcome = "none"
         /\ Graph!IsNext(current')
<1> USE DEF Inv
<1>1. /\ current' \in Event /\ current = NoEvent /\ outcome = "none"
      /\ current'[2] = delivered[current'[1]] + 1
  BY NextEventFacts DEF NextEvent, Streaming
<1>2. PICK d \in Drain, n \in 1 .. MaxEvents : current' = <<d, n>>
  BY <1>1 DEF Event
<1>3. n = delivered[d] + 1 /\ 1 <= n /\ n <= emitted[d]
  <2>1. 1 \in DOMAIN inbox /\ inbox[1][1] = d /\ inbox[1][2] = n
    BY <1>2 DEF NextEvent, TypeOK
  <2>2. n <= LastPut(d)
    BY <2>1 DEF Order
  <2>3. emitted[d] \in Nat
    BY BoundsAssumption DEF TypeOK
  <2> QED
    BY <1>1, <1>2, <2>2, <2>3, BoundsAssumption DEF LastPut
<1>4. /\ steps \in Nat /\ Len(cause) \in Nat /\ d \in Nat /\ 1 <= d
      /\ steps <= Len(cause) /\ drain[d] # "none"
  <2>1. steps \in Nat /\ Len(cause) \in Nat /\ d \in Nat /\ 1 <= d /\ toSend \in Nat
    BY BoundsAssumption DEF TypeOK, Drain
  <2>2. InControl("start") \in Nat
    BY ControlCount
  <2>3. steps <= Len(cause)
    BY <2>1, <2>2 DEF Commands, Unstarted
  <2>4. drain[d] # "none"
    BY <1>3 DEF Ownership
  <2> QED
    BY <2>1, <2>3, <2>4
<1>5. d \in 1 .. steps /\ d \in DOMAIN cause
  BY <1>4 DEF Ownership, TypeOK
<1>6. cause[d] # NoEvent => cause[d][2] <= delivered[cause[d][1]]
  BY <1>1, <1>5 DEF Commands
<1> QED
  BY <1>1, <1>2, <1>3, <1>5, <1>6 DEF Graph!IsNext, Graph!NoEvent, NoEvent

(* The stream takes an event, and reacts to it or leaves its loop at once. *)
LostEvent == NextEvent /\ Finally("closed")

LEMMA ReactRefines ==
  ASSUME Inv, React \/ ReactionFails \/ LostEvent
  PROVE  Graph!React(current')
<1>1. /\ current = NoEvent /\ outcome = "none" /\ Graph!IsNext(current')
      /\ stream = "waiting"
  BY NextEventIsNext DEF React, ReactionFails, LostEvent, NextEvent
<1>2. /\ UNCHANGED <<maxSteps, steps, drain, result, emitted, delivered>>
      /\ stream' # "ended"
  BY DEF React, ReactionFails, LostEvent, Finally, countVars, startVars, drainVars
<1>3. Live' = Live /\ Failed' = Failed
  BY <1>2 DEF Live, Failed
<1>4. \/ /\ \E n \in 0 .. MaxCommands - Len(cause) : cause' = cause \o [i \in 1 .. n |-> current']
         /\ outcome' = outcome
      \/ outcome' \in {"raised", "closed"} /\ cause' = cause
  BY DEF React, ReactionFails, LostEvent, Finally, Caused
<1> QED
  BY <1>1, <1>2, <1>3, <1>4 DEF Graph!React, Graph!NoEvent, NoEvent, Failed

(* The supervisor has gone without an error: nothing of the graph is left. *)
LEMMA FinishedWhole ==
  ASSUME Inv, StreamStops, supervisorError = {}
  PROVE  /\ outcome = "none" /\ current = NoEvent
         /\ steps = Len(cause) /\ Live = {} /\ Failed = {} /\ delivered = emitted
<1> USE DEF Inv, StreamStops
<1>1. outcome = "none" /\ current = NoEvent /\ toSend = 0 /\ ~ Broken
  BY DEF Streaming, Broken
<1>2. Live = {} /\ inbox = <<>> /\ control = <<>>
  BY <1>1 DEF Quiet
<1>3. steps = Len(cause)
  <2>1. InControl("start") = 0
    BY <1>2, FS_EmptySet DEF InControl
  <2>2. steps \in Nat
    BY BoundsAssumption DEF TypeOK
  <2> QED
    BY <1>1, <2>1, <2>2 DEF Commands, Unstarted
<1>4. Failed = {}
  BY DEF Failed, Faults, Ownership
<1>5. ASSUME NEW d \in Drain PROVE delivered[d] = emitted[d]
  <2>1. delivered[d] \in Nat /\ emitted[d] \in Nat
    BY BoundsAssumption DEF TypeOK
  <2>2. Taken(d) = delivered[d] /\ LastPut(d) = emitted[d]
    BY <1>1, <1>2 DEF Taken, LastPut, NoEvent, Drain, Live
  <2>3. cancel[d] = "no" /\ DOMAIN inbox = {}
    BY <1>1, <1>2 DEF Ownership
  <2>4. \A n : n \notin delivered[d] + 1 .. emitted[d]
    BY <2>2, <2>3 DEF Order
  <2>5. delivered[d] <= emitted[d] /\ delivered[d] + 1 \notin delivered[d] + 1 .. emitted[d]
    BY <2>2, <2>4 DEF Order
  <2> QED
    BY <2>1, <2>5
<1>6. delivered = emitted
  BY <1>5 DEF TypeOK
<1> QED
  BY <1>1, <1>2, <1>3, <1>4, <1>6

(* The generator leaves its main loop with outcome o. *)
LEMMA FinallySeen ==
  ASSUME NEW o, Finally(o)
  PROVE  /\ UNCHANGED <<maxSteps, cause, steps, emitted, delivered>>
         /\ Live' = Live /\ Failed' = Failed
         /\ outcome' = o /\ stream' # "ended"
BY DEF Finally, countVars, startVars, Live, Failed

LEMMA RaiseRefines ==
  ASSUME Inv, StreamStops \/ SendRefused, supervisorError # {}
  PROVE  Graph!Raise
<1> USE DEF Inv
<1>1. /\ Finally("raised") /\ UNCHANGED current
      /\ stream \in {"waiting", "sending"}
  BY DEF StreamStops, SendRefused, RaisesOr
<1>2. outcome = "none"
  BY <1>1 DEF Streaming
<1>3. Failed # {} \/ (steps = maxSteps /\ maxSteps < Len(cause))
  BY DEF Failed, Faults, TypeOK, Errors
<1> QED
  BY <1>1, <1>2, <1>3, FinallySeen DEF Graph!Raise, Failed

LEMMA StreamStepRefines ==
  ASSUME Inv, StreamStep \/ Pull \/ CloseAtYield \/ Interrupt
  PROVE  Graph!Next \/ UNCHANGED Graph!vars
<1> USE DEF Inv
<1>1. CASE React \/ ReactionFails \/ LostEvent
  <2>1. current' \in Graph!Command \X (1 .. MaxEvents)
    BY <1>1, NextEventIsNext DEF React, ReactionFails, LostEvent, Event, Drain, Graph!Command
  <2> QED
    BY <1>1, <2>1, ReactRefines DEF Graph!Next
<1>2. CASE (StreamStops \/ SendRefused) /\ supervisorError # {}
  BY <1>2, RaiseRefines DEF Graph!Next
<1>3. CASE StreamStops /\ supervisorError = {}
  <2>1. Graph!Finish
    BY <1>3, FinishedWhole, FinallySeen
       DEF StreamStops, RaisesOr, Graph!Finish, Graph!NoEvent, NoEvent, Failed
  <2> QED
    BY <2>1 DEF Graph!Next
<1>4. CASE SendStart \/ Pull
  <2>1. Live' = Live /\ Failed' = Failed
    BY <1>4 DEF SendStart, Pull, drainVars, Live, Failed
  <2> QED
    BY <1>4, <2>1, Unseen DEF SendStart, Pull, countVars, startVars, drainVars
<1>5. CASE SendAck
  <2>1. Live' = Live /\ Failed' = Failed
    BY <1>5 DEF SendAck, drainVars, Live, Failed
  <2>2. Graph!Show
    BY <1>5, <2>1
       DEF SendAck, Streaming, countVars, startVars, drainVars, Graph!Show, Graph!NoEvent, NoEvent, Failed
  <2> QED
    BY <2>2 DEF Graph!Next
<1>6. CASE (CloseAtYield \/ Interrupt) /\ ~ LostEvent
  <2>1. Finally("closed") /\ UNCHANGED current /\ outcome = "none" /\ stream # "ended"
    BY <1>6 DEF CloseAtYield, Interrupt, LostEvent, Streaming
  <2>2. Graph!Close
    BY <2>1, FinallySeen DEF Graph!Close, Failed
  <2> QED
    BY <2>2 DEF Graph!Next
<1>7. CASE StreamEnds
  <2>1. Live' = Live /\ Failed' = Failed /\ Live = {} /\ outcome # "none"
    BY <1>7 DEF StreamEnds, drainVars, Live, Failed, Ownership, Streaming
  <2>2. Graph!Leave
    BY <1>7, <2>1 DEF StreamEnds, countVars, startVars, drainVars, Graph!Leave, Failed
  <2> QED
    BY <2>2 DEF Graph!Next
<1>8. CASE SendRefused /\ supervisorError = {}
  BY <1>8, RefusedRaises
<1> QED
  BY <1>1, <1>2, <1>3, <1>4, <1>5, <1>6, <1>7, <1>8 DEF StreamStep

LEMMA NextRefines == Inv /\ [Next]_vars => [Graph!Next]_Graph!vars
<1> SUFFICES ASSUME Inv, [Next]_vars PROVE Graph!Next \/ UNCHANGED Graph!vars
  OBVIOUS
<1>1. CASE \E d \in Drain : DrainStep(d)
  BY <1>1, DrainStepRefines DEF Graph!Next, Graph!Command, Drain
<1>2. CASE SupervisorStep
  BY <1>2, SupervisorStepRefines DEF Graph!Next
<1>3. CASE StreamStep \/ Pull \/ CloseAtYield \/ Interrupt
  BY <1>3, StreamStepRefines
<1>4. CASE UNCHANGED vars
  <2>1. UNCHANGED <<maxSteps, cause, steps, emitted, delivered, current, outcome, stream>>
        /\ Live' = Live /\ Failed' = Failed
    BY <1>4 DEF vars, countVars, startVars, drainVars, streamVars, Live, Failed
  <2> QED
    BY <2>1, Unseen
<1> QED
  BY <1>1, <1>2, <1>3, <1>4 DEF Next, Ended

(* RuntimePump.run_envelope keeps WorkGraph: commands start in order and    *)
(* within max_steps, reactions are serialized and follow causes, a stream  *)
(* that finishes has run every command and handed out every event, one     *)
(* that raises has a failure or the budget as its reason, and no handler   *)
(* is left however it ends.                                                *)
THEOREM PumpImplementsWorkGraph == Spec => ImplementsWorkGraph
  BY InitRefines, NextRefines, Invariance, PTL DEF Spec, ImplementsWorkGraph, Graph!Spec

=============================================================================
