--------------------------- MODULE ActivationOrder ---------------------------
(***************************************************************************)
(* The order that TopologicalExtensionResolver promises (README.md:89-91): *)
(* "dependencies before dependents with lexical ordering for otherwise     *)
(* independent extensions", as a function of the dependency graph.  Module *)
(* ExtensionResolver shows that the resolver computes it; ExtensionHost    *)
(* installs extensions by it.                                              *)
(***************************************************************************)
EXTENDS Naturals, Sequences, FiniteSets, FiniteSetsExt, SequencesExt

(* Mutant: requirements are ignored. *)
LexicalOrder(ids, requires) == SetToSortSeq(ids, <)

(* Every place is taken by the least id whose requirements all have theirs; *)
(* ids on a cycle, and ids that depend on one, get none.                   *)
LeastOrder(ids, requires) ==
  LET From[placed \in SUBSET ids] ==
        LET could == {i \in ids \ placed : requires[i] \subseteq placed}
        IN  IF could = {} THEN <<>>
            ELSE <<Min(could)>> \o From[placed \cup {Min(could)}]
  IN  From[{}]

=============================================================================
