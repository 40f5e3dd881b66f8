-------------------------- MODULE EntryPointSource --------------------------
(***************************************************************************)
(* kernel/extension_host.py: EntryPointExtensionSource, its constructor    *)
(* and its load().  Module ExtensionHost composes its actions.             *)
(*                                                                         *)
(* How many entry points have a name, and what loading one of them does,   *)
(* are inputs.  Names are compared as strings only, so they are numbers.   *)
(***************************************************************************)
EXTENDS Naturals, Sequences, FiniteSets, SequencesExt

CONSTANTS
  Name,             (* names of entry points and of required extensions    *)
  MaxRequirements   (* bound: ExtensionRequirements given                  *)

VARIABLES
  given,         (* the requirements given to the constructor              *)
  taken,         (* how many of them it has gone through                   *)
  requiredById,  (* self._required_by_id                                   *)
  entryPoints,   (* number of entry points of each name: 2 stands for more *)
  names,         (* the names load() has not come to yet                   *)
  extensions,    (* names of the extensions loaded, in order               *)
  failures,      (* the failures reported, in order                        *)
  at             (* "constructing", "loading" or "returned"                *)

Requirement == [id : Name, required : BOOLEAN]

FailureKind == {"missing", "load", "invalid"}

Failure == [name : Name, required : BOOLEAN, kind : FailureKind]

Init ==
  /\ given \in SeqOf(Requirement, MaxRequirements)
  /\ taken = 0
  /\ requiredById = << >>
  /\ entryPoints = [n \in Name |-> 0]
  /\ names = {}
  /\ extensions = <<>>
  /\ failures = <<>>
  /\ at = "constructing"

-----------------------------------------------------------------------------
(* required_by_id.get(id, False). *)
Required(id) == id \in DOMAIN requiredById /\ requiredById[id]

(* Mutant: the last requirement for an id decides. *)
LastOf(r) == r.required

Merged(r) == Required(r.id) \/ r.required

(* The constructor merges the requirements that have the same id. *)
Require ==
  /\ at = "constructing"
  /\ taken < Len(given)
  /\ taken' = taken + 1
  /\ LET r == given[taken'] IN
       requiredById' = [id \in DOMAIN requiredById \cup {r.id} |->
                          IF id = r.id THEN Merged(r) ELSE requiredById[id]]
  /\ UNCHANGED <<given, entryPoints, names, extensions, failures, at>>

(* load() begins: it reads the entry points and collects the names.  It     *)
(* sorts entry points too, which matters only among those of one name, and *)
(* these are never loaded.  Every call starts from empty lists.            *)
Discover ==
  /\ taken = Len(given)
  /\ entryPoints' \in [Name -> 0 .. 2]
  /\ names' = {n \in Name : entryPoints'[n] > 0} \cup DOMAIN requiredById
  /\ extensions' = <<>>
  /\ failures' = <<>>
  /\ at' = "loading"
  /\ UNCHANGED <<given, taken, requiredById>>

(* _load_entry_point, by what the entry point, the factory it gives and the *)
(* object that one returns turn out to be.                                 *)
LoadEntryPoint(target) ==
  CASE target \in {"load raises", "factory raises"} -> "load"
    [] target \in {"not callable", "not an extension", "other id"} -> "invalid"
    [] target = "extension" -> "none"

Target == {"load raises", "factory raises", "not callable", "not an extension", "other id", "extension"}

(* What loading a name can come to: the kind of its failure, or "none". *)
OutcomesOf(name) ==
  CASE entryPoints[name] = 0 -> {"missing"}
    [] entryPoints[name] = 1 -> {LoadEntryPoint(target) : target \in Target}
    [] OTHER -> {"invalid"}

(* The next name gives an extension or a failure. *)
LoadName ==
  /\ at = "loading"
  /\ names # {}
  /\ LET name == Min(names) IN
       /\ names' = names \ {name}
       /\ \E kind \in OutcomesOf(name) :
            \/ /\ kind = "none"
               /\ extensions' = Append(extensions, name)
               /\ UNCHANGED failures
            \/ /\ kind # "none"
               /\ failures' = Append(failures, [name |-> name, required |-> Required(name), kind |-> kind])
               /\ UNCHANGED extensions
  /\ UNCHANGED <<given, taken, requiredById, entryPoints, at>>

Return ==
  /\ at = "loading"
  /\ names = {}
  /\ at' = "returned"
  /\ UNCHANGED <<given, taken, requiredById, entryPoints, names, extensions, failures>>

-----------------------------------------------------------------------------
Failed == {failures[k].name : k \in DOMAIN failures}
Loaded == Range(extensions)

TypeOK ==
  /\ at \in {"constructing", "loading", "returned"}
  /\ taken \in 0 .. Len(given)
  /\ DOMAIN requiredById \subseteq Name
  /\ \A id \in DOMAIN requiredById : requiredById[id] \in BOOLEAN
  /\ names \subseteq Name \ (Failed \cup Loaded)
  /\ failures \in Seq(Failure)

=============================================================================
