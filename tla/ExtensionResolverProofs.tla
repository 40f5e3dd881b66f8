----------------------- MODULE ExtensionResolverProofs -----------------------
(***************************************************************************)
(* Theorems about ExtensionResolver for any set of extension ids: what     *)
(* TopologicalExtensionResolver.resolve returns or raises is right.        *)
(*                                                                         *)
(* The invariant Inv has one part per phase of the call: what the input    *)
(* is, what Kahn's algorithm has done so far (Kahn), and what the search   *)
(* for a cycle has visited (Searching).                                    *)
(***************************************************************************)
EXTENDS ExtensionResolver, ActivationOrderProofs

Input ==
  /\ specs \in SUBSET Id
  /\ duplicates \in SUBSET specs
  /\ requires \in [specs -> SUBSET Id]

(* The ids of S hold each other up. *)
Tangled(S) == \A i \in S : requires[i] \cap S # {}

(* The ids placed are complete with their requirements, each id remembers   *)
(* those of its requirements that have no place, and the ids that remember *)
(* none are the ones in the heap.                                          *)
Kahn ==
  /\ ordered \in Seq(specs)
  /\ NoRepetition(ordered)
  /\ remaining = [i \in specs |-> requires[i] \ Range(ordered)]
  /\ \A i \in Range(ordered) : requires[i] \subseteq Range(ordered)
  /\ ready = {i \in specs \ Range(ordered) : remaining[i] = {}}
  /\ \A S \in SUBSET specs : Tangled(S) => S \cap Range(ordered) = {}

(* The path visits ids left over, each required by the one before. *)
Searching ==
  /\ path \in Seq(Unplaced) /\ path # <<>>
  /\ NoRepetition(path)
  /\ \A k \in 1 .. Len(path) - 1 : path[k + 1] \in requires[path[k]]

Inv ==
  /\ Input
  /\ at \in {"call", "ordering", "visiting"} \cup Verdict
  /\ at \in {"call", "duplicate", "missing"} =>
       remaining = requires /\ ready = {} /\ ordered = <<>> /\ path = <<>>
  /\ at = "duplicate" => duplicates # {}
  /\ at = "missing" => duplicates = {} /\ Missing # {}
  /\ at \in {"ordering", "ordered", "visiting", "cycle"} =>
       duplicates = {} /\ Missing = {} /\ Kahn
  /\ at \in {"ordering", "ordered"} => path = <<>>
  /\ at = "ordered" => Range(ordered) = specs
  /\ at \in {"visiting", "cycle"} => ready = {} /\ Unplaced # {} /\ Searching
  /\ CycleIsReal

-----------------------------------------------------------------------------
LEMMA SpecsFinite ==
  ASSUME Input
  PROVE  IsFiniteSet(specs) /\ specs \in SUBSET Nat
BY IdAssumption, FS_Subset DEF Input

(* As many places are taken as there are extensions when all have one. *)
LEMMA AllPlaced ==
  ASSUME Input, Kahn
  PROVE  Len(ordered) = Cardinality(specs) <=> Range(ordered) = specs
<1>1. Range(ordered) \in SUBSET specs
  BY RangeOfSeq DEF Kahn
<1>2. Cardinality(Range(ordered)) = Len(ordered)
  BY NoRepetitionCount DEF Kahn
<1> QED
  BY <1>1, <1>2, SpecsFinite, FS_Subset

(* An id left over requires another one, once the heap is empty. *)
LEMMA LeftOver ==
  ASSUME Input, Kahn, Missing = {}, ready = {}, NEW i \in Unplaced
  PROVE  Followed(i) # {}
BY DEF Input, Kahn, Missing, Unplaced, Followed

-----------------------------------------------------------------------------
LEMMA InitInv == Init => Inv
BY DEF Init, Inv, Input, CycleIsReal

LEMMA BeginOrderInv ==
  ASSUME Inv, BeginOrder
  PROVE  Inv'
<1> USE DEF Inv, BeginOrder, input
<1>1. Input' /\ Missing' = {} /\ duplicates' = {}
  BY DEF Input, Missing
<1>2. ordered' = <<>> /\ Range(ordered') = {}
  BY DEF Range
<1>3. Kahn'
  BY <1>2 DEF Kahn, Input, NoRepetition
<1> QED
  BY <1>1, <1>3 DEF CycleIsReal

LEMMA PlaceInv ==
  ASSUME Inv, Place
  PROVE  Inv'
<1> USE DEF Inv, input
<1> DEFINE i == Min(ready)
           dependents == {d \in specs : i \in requires[d]}
<1>1. /\ at = "ordering" /\ ready # {}
      /\ ordered' = Append(ordered, i)
      /\ remaining' = [d \in specs |-> IF d \in dependents THEN remaining[d] \ {i} ELSE remaining[d]]
      /\ ready' = (ready \ {i}) \cup {d \in dependents : remaining'[d] = {}}
      /\ UNCHANGED <<specs, duplicates, requires, path, at, found>>
  BY DEF Place, Popped, NowReady
<1>2. ready \in SUBSET Nat
  BY <1>1, SpecsFinite DEF Kahn
<1>3. i \in ready
  BY <1>1, <1>2, MinIs
<1> HIDE DEF i
<1>4. /\ i \in specs /\ i \notin Range(ordered) /\ requires[i] \subseteq Range(ordered)
      /\ ordered \in Seq(specs)
  BY <1>1, <1>3 DEF Kahn
<1>5. Range(ordered') = Range(ordered) \cup {i}
  BY <1>1, <1>4, RangeAppend
<1>6. Input' /\ Missing' = {} /\ duplicates' = {}
  BY <1>1 DEF Input, Missing
<1>7. remaining' = [d \in specs |-> requires[d] \ Range(ordered')]
  BY <1>1, <1>5 DEF Kahn
<1>8. \A d \in Range(ordered') : requires[d] \subseteq Range(ordered')
  BY <1>1, <1>4, <1>5 DEF Kahn
<1>9. ready' = {d \in specs \ Range(ordered') : remaining'[d] = {}}
  <2>1. \A d \in dependents : d \notin Range(ordered') /\ d \in specs
    BY <1>1, <1>4, <1>5 DEF Kahn
  <2>2. \A d \in specs \ dependents : remaining'[d] = remaining[d]
    BY <1>1
  <2>3. \A d \in ready \ {i} : d \in specs \ Range(ordered') /\ remaining'[d] = {}
    BY <1>1, <1>5 DEF Kahn
  <2>4. \A d \in specs \ Range(ordered') : remaining'[d] = {} => d \in dependents \/ d \in ready \ {i}
    BY <1>1, <1>5, <2>2 DEF Kahn
  <2> QED
    BY <1>1, <2>1, <2>3, <2>4
<1>10. ASSUME NEW S \in SUBSET specs, Tangled(S)
       PROVE  S \cap Range(ordered') = {}
  BY <1>1, <1>4, <1>5, <1>10 DEF Kahn, Tangled
<1>11. ordered' \in Seq(specs) /\ NoRepetition(ordered')
  BY <1>1, <1>4, NoRepetitionAppend DEF Kahn
<1>12. Kahn'
  <2>1. specs' = specs /\ requires' = requires
    BY <1>1
  <2>2. \A S \in SUBSET specs' : Tangled(S)' => S \cap Range(ordered') = {}
    BY <1>10, <2>1 DEF Tangled
  <2> QED
    BY <1>7, <1>8, <1>9, <1>11, <2>1, <2>2 DEF Kahn
<1> QED
  BY <1>1, <1>6, <1>12 DEF CycleIsReal

LEMMA ReturnOrderInv ==
  ASSUME Inv, ReturnOrder
  PROVE  Inv'
<1> USE DEF Inv, ReturnOrder, input
<1>1. Input' /\ Missing' = {} /\ duplicates' = {} /\ Kahn'
  BY DEF Input, Missing, Kahn, Tangled
<1>2. Range(ordered') = specs'
  BY AllPlaced
<1> QED
  BY <1>1, <1>2 DEF CycleIsReal, Verdict

LEMMA BeginCycleInv ==
  ASSUME Inv, BeginCycle
  PROVE  Inv'
<1> USE DEF Inv, BeginCycle, input
<1>1. Input' /\ Missing' = {} /\ duplicates' = {} /\ Kahn' /\ Unplaced' = Unplaced
  BY DEF Input, Missing, Kahn, Tangled, Unplaced
<1>2. Unplaced # {} /\ Unplaced \in SUBSET Nat
  <2>1. Range(ordered) # specs
    BY AllPlaced
  <2>2. Range(ordered) \in SUBSET specs
    BY RangeOfSeq DEF Kahn
  <2> QED
    BY <2>1, <2>2, SpecsFinite DEF Unplaced
<1>3. Min(Unplaced) \in Unplaced
  BY <1>2, MinIs
<1>4. Searching'
  BY <1>1, <1>3 DEF Searching, CycleStart, NoRepetition
<1> QED
  BY <1>1, <1>2, <1>4 DEF CycleIsReal
(* The part of the path that a visited id closes is a cycle. *)
LEMMA ClosedPartIsCycle ==
  ASSUME Input, Searching, NEW i \in Range(path), i \in requires[path[Len(path)]]
  PROVE  LET c == ClosedPart(i) IN
           /\ Len(c) > 1 /\ c[1] = c[Len(c)]
           /\ Cardinality(Range(c)) = Len(c) - 1
           /\ \A k \in 1 .. Len(c) - 1 : c[k + 1] \in requires[c[k]]
<1> DEFINE start == CHOOSE k \in DOMAIN path : path[k] = i
           part == SubSeq(path, start, Len(path))
           n == Len(path) - start + 1
<1>1. /\ DOMAIN path = 1 .. Len(path) /\ Len(path) \in Nat
      /\ \A k \in 1 .. Len(path) : path[k] \in Unplaced
  BY DEF Searching
<1>2. start \in DOMAIN path /\ path[start] = i
  BY DEF Range
<1> HIDE DEF start
<1>3. /\ start \in Nat /\ 1 <= start /\ start <= Len(path) /\ n \in Nat /\ n >= 1
      /\ Len(path) = start + n - 1
  BY <1>1, <1>2
<1>4. /\ part \in Seq(Unplaced) /\ Len(part) = n
      /\ \A k \in 1 .. n : part[k] = path[start + k - 1]
  BY <1>1, <1>3, SubSeqProperties
<1>5. NoRepetition(part)
  <2> SUFFICES ASSUME NEW j \in DOMAIN part, NEW k \in DOMAIN part, part[j] = part[k]
               PROVE  j = k
    BY DEF NoRepetition
  <2>1. j \in 1 .. n /\ k \in 1 .. n
    BY <1>4
  <2>2. path[start + j - 1] = path[start + k - 1]
    BY <1>4, <2>1
  <2>3. start + j - 1 \in DOMAIN path /\ start + k - 1 \in DOMAIN path
    BY <1>1, <1>3, <2>1
  <2>4. start + j - 1 = start + k - 1
    BY <2>2, <2>3 DEF Searching, NoRepetition
  <2> QED
    BY <1>3, <2>1, <2>4
<1>6. i \in Unplaced /\ part[1] = i /\ 1 \in DOMAIN part /\ part[n] = path[Len(path)]
  BY <1>1, <1>2, <1>3, <1>4
<1>7. ClosedPart(i) = Append(part, i)
  BY DEF ClosedPart, start
<1> HIDE DEF part, n
<1>8. /\ Len(Append(part, i)) = n + 1 /\ Append(part, i)[n + 1] = i
      /\ \A k \in 1 .. n : Append(part, i)[k] = part[k]
  BY <1>4, <1>6
<1>9. Cardinality(Range(Append(part, i))) = n
  <2>1. i \in Range(part)
    BY <1>6 DEF Range
  <2>2. Range(Append(part, i)) = Range(part) \cup {i}
    BY <1>4, <1>6, RangeAppend
  <2>3. Range(Append(part, i)) = Range(part)
    BY <2>1, <2>2
  <2> QED
    BY <1>4, <1>5, <2>3, NoRepetitionCount
<1>10. ASSUME NEW k \in 1 .. n
      PROVE  Append(part, i)[k + 1] \in requires[Append(part, i)[k]]
  <2>1. CASE k = n
    BY <1>3, <1>6, <1>8, <2>1
  <2>2. CASE k # n
    <3>1. k + 1 \in 1 .. n /\ start + k - 1 \in 1 .. Len(path) - 1
      BY <1>1, <1>3, <2>2
    <3>2. part[k] = path[start + k - 1] /\ part[k + 1] = path[start + (k + 1) - 1]
      BY <1>4, <3>1
    <3>3. start + (k + 1) - 1 = (start + k - 1) + 1
      BY <1>3
    <3> QED
      BY <1>8, <3>1, <3>2, <3>3 DEF Searching
  <2> QED
    BY <2>1, <2>2
<1> QED
  BY <1>3, <1>6, <1>7, <1>8, <1>9, <1>10

LEMMA VisitInv ==
  ASSUME Inv, Visit
  PROVE  Inv'
<1> USE DEF Inv, input
<1> DEFINE next == Min(Followed(path[Len(path)]))
<1>1. /\ at = "visiting"
      /\ UNCHANGED <<specs, duplicates, requires, remaining, ready, ordered>>
      /\ \/ next \in Range(path) /\ found' = ClosedPart(next) /\ at' = "cycle" /\ path' = path
         \/ next \notin Range(path) /\ path' = Append(path, next) /\ at' = at /\ found' = found
  BY DEF Visit
<1>2. Input' /\ Missing' = {} /\ duplicates' = {} /\ Kahn' /\ Unplaced' = Unplaced
  BY <1>1 DEF Input, Missing, Kahn, Tangled, Unplaced
<1>3. Len(path) \in 1 .. Len(path) /\ path[Len(path)] \in Unplaced /\ path \in Seq(Unplaced)
  BY <1>1 DEF Searching
<1>4. Followed(path[Len(path)]) \in SUBSET Nat /\ Followed(path[Len(path)]) # {}
  BY <1>1, <1>3, LeftOver, SpecsFinite DEF Followed, Unplaced
<1>5. next \in Unplaced /\ next \in requires[path[Len(path)]]
  BY <1>4, MinIs DEF Followed
<1> HIDE DEF next
<1>6. CASE next \in Range(path) /\ found' = ClosedPart(next) /\ at' = "cycle" /\ path' = path
  <2>1. Searching'
    BY <1>1, <1>2, <1>6 DEF Searching, NoRepetition
  <2>2. CycleIsReal'
    BY <1>1, <1>5, <1>6, ClosedPartIsCycle DEF CycleIsReal
  <2> QED
    BY <1>1, <1>2, <1>6, <2>1, <2>2 DEF Verdict
<1>7. CASE next \notin Range(path) /\ path' = Append(path, next) /\ at' = at /\ found' = found
  <2>1. /\ path' \in Seq(Unplaced) /\ path' # <<>>
        /\ Len(path') = Len(path) + 1 /\ path'[Len(path) + 1] = next
        /\ \A k \in 1 .. Len(path) : path'[k] = path[k]
    BY <1>3, <1>5, <1>7
  <2>2. NoRepetition(path')
    BY <1>1, <1>3, <1>5, <1>7, NoRepetitionAppend DEF Searching
  <2>3. ASSUME NEW k \in 1 .. Len(path') - 1
        PROVE  path'[k + 1] \in requires[path'[k]]
    <3>1. k \in 1 .. Len(path) /\ Len(path) \in Nat
      BY <1>3, <2>1
    <3>2. CASE k = Len(path)
      BY <1>5, <2>1, <3>1, <3>2
    <3>3. CASE k # Len(path)
      BY <1>1, <2>1, <3>1, <3>3 DEF Searching
    <3> QED
      BY <3>2, <3>3
  <2>4. Searching'
    BY <1>1, <1>2, <2>1, <2>2, <2>3 DEF Searching
  <2> QED
    BY <1>1, <1>2, <1>7, <2>4 DEF CycleIsReal
<1> QED
  BY <1>1, <1>6, <1>7

LEMMA NextInv == Inv /\ [Next]_vars => Inv'
<1> SUFFICES ASSUME Inv, [Next]_vars PROVE Inv'
  OBVIOUS
<1>1. CASE RaiseDuplicate
  BY <1>1 DEF RaiseDuplicate, Inv, Input, input, CycleIsReal, Verdict
<1>2. CASE RaiseMissing
  BY <1>2 DEF RaiseMissing, NoDuplicate, Missing, Inv, Input, input, CycleIsReal, Verdict
<1>3. CASE Over \/ UNCHANGED vars
  BY <1>3 DEF Over, vars, Inv, Input, Missing, Kahn, Tangled, Searching, NoRepetition, Unplaced,
              CycleIsReal
<1> QED
  BY <1>1, <1>2, <1>3, BeginOrderInv, PlaceInv, ReturnOrderInv, BeginCycleInv, VisitInv DEF Next

-----------------------------------------------------------------------------
(* Every reachable state of a call satisfies the inductive invariant.       *)
THEOREM Invariance == Spec => []Inv
<1> QED
  BY InitInv, NextInv, PTL DEF Spec

(* What the call keeps, has placed and visits are always extensions given,  *)
(* and the heap never holds an extension that has its place.               *)
THEOREM TypeCorrect == Spec => []TypeOK
<1>1. Inv => TypeOK
  <2> SUFFICES ASSUME Inv PROVE TypeOK
    OBVIOUS
  <2>1. Range(<<>>) = {}
    BY DEF Range
  <2>2. Kahn => Range(ordered) \in SUBSET specs
    BY RangeOfSeq DEF Kahn
  <2>3. Searching => Range(path) \in SUBSET Unplaced
    BY RangeOfSeq DEF Searching
  <2> QED
    BY <2>1, <2>2, <2>3 DEF Inv, Input, Kahn, TypeOK, Unplaced, Verdict
<1> QED
  BY <1>1, Invariance, PTL

(* resolve returns an order exactly for the extension sets that have one,   *)
(* and refuses the others with the first error in the documented sequence: *)
(* duplicate ids, missing requirements, a cycle.                           *)
THEOREM RightVerdictHolds == Spec => []RightVerdict
<1>1. Inv => RightVerdict
  <2> SUFFICES ASSUME Inv, at \in Verdict PROVE RightVerdict
    BY DEF RightVerdict
  <2>1. ASSUME at = "ordered" PROVE ~ Cyclic
    <3> SUFFICES ASSUME NEW S \in SUBSET specs, S # {}, \A i \in S : requires[i] \cap S # {}
                 PROVE  FALSE
      BY DEF Cyclic
    <3>1. S \cap Range(ordered) = {} /\ Range(ordered) = specs
      BY <2>1 DEF Inv, Kahn, Tangled
    <3> QED
      BY <3>1
  <2>2. ASSUME at = "cycle" PROVE Cyclic
    <3>1. Unplaced \in SUBSET specs /\ Unplaced # {}
      BY <2>2 DEF Inv, Unplaced
    <3>2. \A i \in Unplaced : requires[i] \cap Unplaced # {}
      BY <2>2, LeftOver DEF Inv, Followed
    <3> QED
      BY <3>1, <3>2 DEF Cyclic
  <2> QED
    BY <2>1, <2>2 DEF RightVerdict, Inv, Verdict
<1> QED
  BY <1>1, Invariance, PTL

(* The cycle that ExtensionDependencyCycleError names is one: closed, no    *)
(* extension twice, each requiring the next.                               *)
THEOREM CycleIsRealHolds == Spec => []CycleIsReal
<1>1. Inv => CycleIsReal
  BY DEF Inv
<1> QED
  BY <1>1, Invariance, PTL

(* "dependency graph was cyclic but no cycle was found" (extensions.py:161) *)
(* is never raised: the search always has an id to visit next.             *)
THEOREM NoDeadEndHolds == Spec => []NoDeadEnd
<1>1. Inv => NoDeadEnd
  <2> SUFFICES ASSUME Inv, at = "visiting" PROVE Followed(path[Len(path)]) # {}
    BY DEF NoDeadEnd
  <2>1. path[Len(path)] \in Unplaced
    BY DEF Inv, Searching
  <2> QED
    BY <2>1, LeftOver DEF Inv
<1> QED
  BY <1>1, Invariance, PTL

-----------------------------------------------------------------------------
(* What has been placed, followed by what the definition of the order makes *)
(* of the rest, is the promised order.                                     *)
Following ==
  at \in {"ordering", "ordered"} =>
    LeastOrder(specs, requires) = ordered \o From(specs, requires)[Range(ordered)]

LEMMA FollowingInit == Init => Following
BY DEF Init, Following

LEMMA FollowingNext ==
  ASSUME Inv, Following, [Next]_vars
  PROVE  Following'
<1>1. CASE BeginOrder
  <2>1. ordered' = <<>> /\ Range(ordered') = {} /\ specs' = specs /\ requires' = requires
    BY <1>1 DEF BeginOrder, Inv, Range, input
  <2>2. Input /\ IsFiniteSet(specs) /\ specs \in SUBSET Nat
    BY SpecsFinite DEF Inv
  <2>3. From(specs, requires)[{}] \in Seq(specs)
    BY <2>2, FromType
  <2>4. LeastOrder(specs, requires) = <<>> \o From(specs, requires)[{}]
    BY <2>3, LeastOrderIs
  <2> QED
    BY <2>1, <2>4 DEF Following
<1>2. CASE Place
  <2> DEFINE i == Min(ready)
             F == From(specs, requires)
  <2>1. /\ at = "ordering" /\ ready # {} /\ ordered' = Append(ordered, i)
        /\ specs' = specs /\ requires' = requires /\ at' = at
    BY <1>2 DEF Place, Popped, input
  <2>2. Input /\ Kahn /\ IsFiniteSet(specs) /\ specs \in SUBSET Nat
    BY <2>1, SpecsFinite DEF Inv
  <2>3. ready = Could(specs, requires, Range(ordered))
    <3> DEFINE rest == specs \ Range(ordered)
    <3>1. ready = {d \in rest : remaining[d] = {}}
      BY <2>2 DEF Kahn
    <3>2. \A d \in rest : remaining[d] = requires[d] \ Range(ordered)
      BY <2>2 DEF Kahn
    <3>3. \A d \in rest : remaining[d] = {} <=> requires[d] \subseteq Range(ordered)
      BY <3>2
    <3> QED
      BY <3>1, <3>3 DEF Could
  <2>4. i \in specs /\ Range(ordered) \in SUBSET specs /\ ordered \in Seq(specs)
    <3>1. ordered \in Seq(specs) /\ ready \subseteq specs
      BY <2>2 DEF Kahn
    <3>2. i \in ready
      BY <2>1, <2>2, <3>1, MinIs
    <3> QED
      BY <3>1, <3>2, RangeOfSeq
  <2>5. Range(ordered') = Range(ordered) \cup {i}
    BY <2>1, <2>4, RangeAppend
  <2>6. F[Range(ordered)] = <<i>> \o F[Range(ordered')]
    <3>1. F[Range(ordered)] = Unfold(specs, requires, F, Range(ordered))
      BY <2>2, <2>4, FromIs
    <3> HIDE DEF F
    <3> QED
      BY <2>1, <2>3, <2>5, <3>1 DEF Unfold
  <2>7. F[Range(ordered')] \in Seq(specs)
    BY <2>2, <2>4, <2>5, FromType
  <2> HIDE DEF F, i
  <2>8. ordered \o (<<i>> \o F[Range(ordered')]) = Append(ordered, i) \o F[Range(ordered')]
    <3> DEFINE t == F[Range(ordered')]
    <3>1. t \in Seq(specs)
      BY <2>7
    <3> HIDE DEF t
    <3>2. <<i>> \in Seq(specs) /\ Append(ordered, i) = ordered \o <<i>>
      BY <2>4, AppendIsConcat
    <3>3. (ordered \o <<i>>) \o t = ordered \o (<<i>> \o t)
      BY <2>4, <3>1, <3>2, ConcatAssociative
    <3> QED
      BY <3>2, <3>3 DEF t
  <2>9. LeastOrder(specs, requires) = ordered' \o F[Range(ordered')]
    BY <2>1, <2>6, <2>8 DEF Following, F
  <2> QED
    BY <2>1, <2>9 DEF Following, F
<1>3. CASE ReturnOrder \/ Over \/ UNCHANGED vars
  BY <1>3 DEF ReturnOrder, Over, vars, input, Following, Verdict
<1>4. CASE RaiseDuplicate \/ RaiseMissing \/ BeginCycle \/ Visit
  BY <1>4 DEF RaiseDuplicate, RaiseMissing, BeginCycle, Visit, Following
<1> QED
  BY <1>1, <1>2, <1>3, <1>4 DEF Next

(* Kahn's algorithm with a heap returns the promised order: "dependencies   *)
(* before dependents with lexical ordering for otherwise independent       *)
(* extensions" (README.md:89-91), of every extension.                      *)
THEOREM LeastTopologicalOrderHolds == Spec => []LeastTopologicalOrder
<1>1. Init => Inv /\ Following
  BY InitInv, FollowingInit
<1>2. Inv /\ Following /\ [Next]_vars => (Inv /\ Following)'
  BY NextInv, FollowingNext
<1>3. Inv /\ Following => LeastTopologicalOrder
  <2> SUFFICES ASSUME Inv, Following, at = "ordered" 
               PROVE  ordered = LeastOrder(specs, requires) /\ Range(ordered) = specs
    BY DEF LeastTopologicalOrder
  <2>1. Input /\ Kahn /\ Range(ordered) = specs /\ IsFiniteSet(specs) /\ specs \in SUBSET Nat
    BY SpecsFinite DEF Inv
  <2>2. From(specs, requires)[specs] = <<>>
    <3>1. Could(specs, requires, specs) = {}
      BY DEF Could
    <3> QED
      BY <2>1, <3>1, FromIs DEF Unfold
  <2>3. ordered \o <<>> = ordered
    BY <2>1 DEF Kahn
  <2> QED
    BY <2>1, <2>2, <2>3 DEF Following
<1> QED
  BY <1>1, <1>2, <1>3, PTL DEF Spec

=============================================================================
