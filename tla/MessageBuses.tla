---------------------------- MODULE MessageBuses ----------------------------
(***************************************************************************)
(* kernel/runtime.py: what InMemoryEventBus and InMemoryCommandBus keep,   *)
(* and how they answer publish and dispatch with it.  A handler is named   *)
(* by its owner: whoever registered it.                                    *)
(***************************************************************************)
EXTENDS Naturals, Sequences, SequencesExt

CONSTANTS
  Owner,         (* who registers handlers                                 *)
  CommandType,   (* matched exactly: a dictionary key                      *)
  EventType,     (* matched by isinstance                                  *)
  SuperTypes     (* the types an event of each type is an instance of      *)

VARIABLES
  subscriptions,   (* the list _subscriptions, as [type, owner]            *)
  bindings         (* the dictionary _bindings: command type to owner      *)

Init ==
  /\ subscriptions = <<>>
  /\ bindings = << >>

(* subscribe(event_type, handler). *)
Subscribe(type, owner) ==
  /\ subscriptions' = Append(subscriptions, [type |-> type, owner |-> owner])
  /\ UNCHANGED bindings

(* Mutant of IsBound: a second binding replaces the first. *)
NeverBound(type) == FALSE

IsBound(type) == type \in DOMAIN bindings

(* bind(command_type, binding), which raises DuplicateCommandBindingError   *)
(* for a type that is bound.                                               *)
Bind(type, owner) ==
  /\ ~ IsBound(type)
  /\ bindings' = [t \in DOMAIN bindings \cup {type} |-> IF t = type THEN owner ELSE bindings[t]]
  /\ UNCHANGED subscriptions

(* publish(event) goes through the list: the positions of the subscriptions *)
(* that react to it.                                                       *)
Reactors(event) == {k \in DOMAIN subscriptions : subscriptions[k].type \in SuperTypes[event]}

TypeOK ==
  /\ subscriptions \in Seq([type : EventType, owner : Owner])
  /\ DOMAIN bindings \subseteq CommandType
  /\ \A t \in DOMAIN bindings : bindings[t] \in Owner

=============================================================================
