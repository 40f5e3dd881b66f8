-------------------------- MODULE ExtensionResolver --------------------------
(***************************************************************************)
(* kernel/extensions.py: TopologicalExtensionResolver.resolve, one call.   *)
(*                                                                         *)
(* Extension ids are compared by their string values only, so they are     *)
(* numbers here.  The call checks for duplicate ids, then for missing      *)
(* dependencies, then runs Kahn's algorithm with a heap of ready ids; if   *)
(* that leaves ids over, _find_cycle follows requirements to a cycle.      *)
(***************************************************************************)
EXTENDS ActivationOrder

CONSTANT Id   (* the extension ids, known or only required                 *)

ASSUME IdAssumption == Id \subseteq Nat /\ IsFiniteSet(Id)

VARIABLES
  specs,       (* ids of the extensions given (by_id)                      *)
  duplicates,  (* the ids given more than once (duplicate_ids)             *)
  requires,    (* requirements of each id, of its first spec               *)
  remaining,   (* remaining_requirements                                   *)
  ready,       (* the heap                                                 *)
  ordered,     (* ordered_ids                                              *)
  path,        (* the path of _find_cycle                                  *)
  at,          (* how far the call is, or how it ended                     *)
  found        (* what the error names                                     *)

vars == <<specs, duplicates, requires, remaining, ready, ordered, path, at, found>>
input == <<specs, duplicates, requires>>


Init ==
  /\ specs \in SUBSET Id
  /\ duplicates \in SUBSET specs
  /\ requires \in [specs -> SUBSET Id]
  /\ remaining = requires
  /\ ready = {}
  /\ ordered = <<>>
  /\ path = <<>>
  /\ at = "call"
  /\ found = <<>>

-----------------------------------------------------------------------------
Missing == {i \in specs : ~ requires[i] \subseteq specs}

RaiseDuplicate ==
  /\ at = "call"
  /\ duplicates # {}
  /\ at' = "duplicate"
  /\ found' = <<Min(duplicates)>>
  /\ UNCHANGED <<input, remaining, ready, ordered, path>>

(* Mutant: missing requirements are looked for before duplicate ids. *)
NoEarlierError == TRUE

(* The check for missing requirements is reached. *)
NoDuplicate == duplicates = {}

RaiseMissing ==
  /\ at = "call"
  /\ NoDuplicate /\ Missing # {}
  /\ at' = "missing"
  /\ found' = <<Min(Missing), Min(requires[Min(Missing)] \ specs)>>
  /\ UNCHANGED <<input, remaining, ready, ordered, path>>

(* heapify: the ids that require nothing are ready. *)
BeginOrder ==
  /\ at = "call"
  /\ duplicates = {} /\ Missing = {}
  /\ at' = "ordering"
  /\ ready' = {i \in specs : requires[i] = {}}
  /\ UNCHANGED <<input, remaining, ordered, path, found>>

(* Mutants: the greatest ready id is taken; every dependent becomes ready. *)
Greatest(heap) == Max(heap)

AllDependents(dependents) == dependents

(* heappop. *)
Popped(heap) == Min(heap)

(* The dependents that have lost their last requirement. *)
NowReady(dependents) == {d \in dependents : remaining'[d] = {}}

(* The least ready id gets the next place; its dependents lose a            *)
(* requirement, and those that lose their last one become ready.           *)
Place ==
  /\ at = "ordering"
  /\ ready # {}
  /\ LET i == Popped(ready)
         dependents == {d \in specs : i \in requires[d]}
     IN  /\ ordered' = Append(ordered, i)
         /\ remaining' = [d \in specs |-> IF d \in dependents THEN remaining[d] \ {i} ELSE remaining[d]]
         /\ ready' = (ready \ {i}) \cup NowReady(dependents)
  /\ UNCHANGED <<input, path, at, found>>

ReturnOrder ==
  /\ at = "ordering"
  /\ ready = {}
  /\ Len(ordered) = Cardinality(specs)
  /\ at' = "ordered"
  /\ UNCHANGED <<input, remaining, ready, ordered, path, found>>

Unplaced == specs \ Range(ordered)

(* Mutant: the search starts at any id. *)
StartAnywhere == Min(specs)

CycleStart == Min(Unplaced)

(* _find_cycle starts at the least id left over ... *)
BeginCycle ==
  /\ at = "ordering"
  /\ ready = {}
  /\ Len(ordered) # Cardinality(specs)
  /\ at' = "visiting"
  /\ path' = <<CycleStart>>
  /\ UNCHANGED <<input, remaining, ready, ordered, found>>

Followed(i) == requires[i] \cap Unplaced

(* Mutant: the whole path is reported. *)
WholePath(i) == Append(path, i)

(* The part of the path that i closes. *)
ClosedPart(i) ==
  LET start == CHOOSE k \in DOMAIN path : path[k] = i
  IN  Append(SubSeq(path, start, Len(path)), i)

(* ... and visits the least requirement of the last id that is left over    *)
(* too.  visit() would go on to the next one if that visit found nothing;  *)
(* NoDeadEnd states that it never has to.                                  *)
Visit ==
  /\ at = "visiting"
  /\ LET next == Min(Followed(path[Len(path)]))
     IN  \/ /\ next \in Range(path)
            /\ found' = ClosedPart(next)
            /\ at' = "cycle"
            /\ UNCHANGED path
         \/ /\ next \notin Range(path)
            /\ path' = Append(path, next)
            /\ UNCHANGED <<at, found>>
  /\ UNCHANGED <<input, remaining, ready, ordered>>

Verdict == {"duplicate", "missing", "cycle", "ordered"}

(* The call has returned or raised. *)
Over ==
  /\ at \in Verdict
  /\ UNCHANGED vars

Next ==
  \/ RaiseDuplicate \/ RaiseMissing \/ BeginOrder \/ Place \/ ReturnOrder \/ BeginCycle \/ Visit
  \/ Over

Spec == Init /\ [][Next]_vars

-----------------------------------------------------------------------------
TypeOK ==
  /\ requires \in [specs -> SUBSET Id] /\ remaining \in [specs -> SUBSET Id]
  /\ ready \subseteq specs \ Range(ordered)
  /\ Range(ordered) \subseteq specs /\ Range(path) \subseteq specs
  /\ at \in {"call", "ordering", "visiting"} \cup Verdict

(* Kahn's algorithm with a heap returns the promised order, of every        *)
(* extension, however the heap and the sets it runs over grow and shrink.  *)
LeastTopologicalOrder ==
  at = "ordered" => ordered = LeastOrder(specs, requires) /\ Range(ordered) = specs

(* An extension set that can be ordered is never refused, and one that      *)
(* cannot is refused with the first error in the documented sequence:      *)
(* duplicates, missing requirements, cycles.                               *)
Cyclic == \E S \in SUBSET specs : S # {} /\ \A i \in S : requires[i] \cap S # {}
RightVerdict ==
  at \in Verdict =>
    at = CASE duplicates # {} -> "duplicate"
           [] duplicates = {} /\ Missing # {} -> "missing"
           [] duplicates = {} /\ Missing = {} /\ Cyclic -> "cycle"
           [] OTHER -> "ordered"

(* The cycle reported is a cycle: it is closed, visits no extension twice   *)
(* and each extension on it requires the next.                             *)
CycleIsReal ==
  at = "cycle" =>
    /\ Len(found) > 1
    /\ found[1] = found[Len(found)]
    /\ Cardinality(Range(found)) = Len(found) - 1
    /\ \A k \in 1 .. Len(found) - 1 : found[k + 1] \in requires[found[k]]

(* "dependency graph was cyclic but no cycle was found" (extensions.py:161) *)
(* is never raised, and the depth-first search never turns back: an id     *)
(* that is left over requires another one that is.                         *)
NoDeadEnd == at = "visiting" => Followed(path[Len(path)]) # {}

=============================================================================
