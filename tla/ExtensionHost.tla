---------------------------- MODULE ExtensionHost ----------------------------
(***************************************************************************)
(* kernel/extension_host.py: DefaultExtensionHost, its start() and stop(), *)
(* composed with a static source, an entry point source, the order of the  *)
(* resolver and a registrar that passes registrations on to the buses.     *)
(*                                                                         *)
(* start() awaits nothing, so calls do not interleave; what makes it hard  *)
(* is code it does not own, which can fail half-way: the sources, the      *)
(* resolver, the install() of every extension, and the registrar that the  *)
(* staged registrations are replayed into.  One action is one call of such *)
(* code.  Failing means raising an Exception.                              *)
(***************************************************************************)
EXTENDS ActivationOrder

CONSTANTS
  Extension,         (* extension ids                                      *)
  CommandType, EventType, SuperTypes,   (* see module MessageBuses          *)
  MaxRequirements,   (* bound: requirements given to the entry point source *)
  MaxRegistrations,  (* bound: registrations of one install()              *)
  MaxCalls,          (* bound: calls of start() and stop()                 *)
  None               (* no report                                          *)

ASSUME ExtensionAssumption == Extension \subseteq Nat /\ IsFiniteSet(Extension)
ASSUME TypesAssumption == \A e \in EventType : e \in SuperTypes[e] /\ SuperTypes[e] \subseteq EventType
ASSUME BoundsAssumption == {MaxRequirements, MaxRegistrations, MaxCalls} \subseteq Nat

VARIABLES
  state,       (* self._state                                              *)
  report,      (* self._report                                             *)
  at,          (* where start() is, or "idle" between calls                *)
  requires,    (* requirements of the extensions resolved                  *)
  resolved,    (* the order they were resolved in                          *)
  toInstall,   (* the rest of it, not yet installed                        *)
  staged,      (* staged registrations                                     *)
  replayed,    (* number of them that the registrar has accepted           *)
  installs,    (* times install() of each extension was called             *)
  answer,      (* what the last call returned or raised                    *)
  calls,       (* number of calls made                                     *)
  subscriptions, bindings,
  given, taken, requiredById, entryPoints, names, extensions, failures, sourceAt

Source == INSTANCE EntryPointSource WITH Name <- Extension, at <- sourceAt
Buses == INSTANCE MessageBuses WITH Owner <- Extension

sourceVars == <<given, taken, requiredById, entryPoints, names, extensions, failures, sourceAt>>
busVars == <<subscriptions, bindings>>
orderVars == <<requires, resolved>>
installVars == <<toInstall, installs>>
callVars == <<answer, calls>>
vars == <<state, report, at, staged, replayed, orderVars, installVars, callVars, busVars, sourceVars>>

(* What install() can ask its registrar to do: subscribe(), or handle(). *)
Contribution ==
  [operation : {"subscribe"}, type : EventType] \cup [operation : {"handle"}, type : CommandType]

(* _StagingRegistrar: registrations get the name of their owner. *)
Owned(owner, new) ==
  [k \in DOMAIN new |-> [owner |-> owner, operation |-> new[k].operation, type |-> new[k].type]]

(* What start() raises; the first three come from the sources, from the     *)
(* policy about their failures and from the resolver.                      *)
Error ==
  {"load error", "required extension", "resolution error",
   "install error", "registration error", "state error"}

Init ==
  /\ Source!Init /\ Buses!Init
  /\ state = "created" /\ report = None /\ at = "idle"
  /\ requires = << >> /\ resolved = <<>> /\ toInstall = <<>>
  /\ staged = <<>> /\ replayed = 0
  /\ installs = [e \in Extension |-> 0]
  /\ answer = "none" /\ calls = 0

-----------------------------------------------------------------------------
(* The entry point source is constructed before the host is used. *)
Construct ==
  /\ Source!Require
  /\ UNCHANGED <<state, report, at, staged, replayed, orderVars, installVars, callVars, busVars>>

Call ==
  /\ sourceAt # "constructing" \/ taken = Len(given)
  /\ at = "idle" /\ calls < MaxCalls
  /\ calls' = calls + 1

(* start() of a started host gives the same report again; that of a failed  *)
(* or stopped host raises ExtensionHostStateError.                         *)
StartAgain ==
  /\ Call
  /\ state # "created"
  /\ answer' = IF state = "started" THEN "report" ELSE "state error"
  /\ UNCHANGED <<state, report, at, staged, replayed, orderVars, installVars, busVars, sourceVars>>

(* Mutant: the state is left as it was. *)
StillCreated == "created"

AfterFailure == "failed"

(* Any exception inside start(). *)
Fails(error) ==
  /\ state' = AfterFailure
  /\ at' = "idle"
  /\ answer' = error
  /\ UNCHANGED <<report, staged, replayed, orderVars, calls, busVars>>

(* The first start(): the sources are asked to load. *)
Start ==
  /\ Call
  /\ state = "created"
  /\ Source!Discover
  /\ at' = "loading"
  /\ staged' = <<>> /\ replayed' = 0
  /\ UNCHANGED <<state, report, answer, orderVars, installVars, busVars>>

LoadName ==
  /\ at = "loading"
  /\ Source!LoadName
  /\ UNCHANGED <<state, report, at, staged, replayed, orderVars, installVars, callVars, busVars>>

(* A source raises. *)
LoadRaises ==
  /\ at = "loading"
  /\ Fails("load error")
  /\ UNCHANGED <<installVars, sourceVars>>

(* load() returns, and any failure of a required extension aborts, even if  *)
(* the other source holds that extension.                                  *)
ApplyPolicy ==
  /\ at = "loading"
  /\ Source!Return
  /\ \/ /\ \E k \in DOMAIN failures : failures[k].required
        /\ Fails("required extension")
     \/ /\ \A k \in DOMAIN failures : ~ failures[k].required
        /\ at' = "resolving"
        /\ UNCHANGED <<state, report, staged, replayed, orderVars, callVars, busVars>>
  /\ UNCHANGED installVars

(* The resolver orders what the two sources have loaded ... *)
Resolve ==
  /\ at = "resolving"
  /\ \E bundled \in SUBSET (Extension \ Source!Loaded) :
       LET ids == bundled \cup Source!Loaded IN
       /\ requires' \in [ids -> SUBSET ids]
       /\ resolved' = LeastOrder(ids, requires')
       /\ Range(resolved') = ids
  /\ toInstall' = resolved'
  /\ at' = "installing"
  /\ UNCHANGED <<state, report, staged, replayed, installs, callVars, busVars, sourceVars>>

(* ... or raises: a duplicate, a missing requirement, a cycle. *)
ResolveRaises ==
  /\ at = "resolving"
  /\ Fails("resolution error")
  /\ UNCHANGED <<installVars, sourceVars>>

(* install() of the next extension makes its registrations with the staging *)
(* registrar ...                                                           *)
Install ==
  /\ at = "installing"
  /\ toInstall # <<>>
  /\ toInstall' = Tail(toInstall)
  /\ installs' = [installs EXCEPT ![Head(toInstall)] = @ + 1]
  /\ \E new \in SeqOf(Contribution, MaxRegistrations) :
       staged' = staged \o Owned(Head(toInstall), new)
  /\ UNCHANGED <<state, report, at, replayed, orderVars, callVars, busVars, sourceVars>>

(* ... or raises, after some of them: nothing reads the list then. *)
InstallRaises ==
  /\ at = "installing"
  /\ toInstall # <<>>
  /\ toInstall' = Tail(toInstall)
  /\ installs' = [installs EXCEPT ![Head(toInstall)] = @ + 1]
  /\ Fails("install error")
  /\ UNCHANGED sourceVars

(* Mutant: registrations are replayed as soon as there are some. *)
SomeStaged == staged # <<>>

AllStaged == toInstall = <<>>

Installed ==
  /\ at = "installing"
  /\ AllStaged
  /\ at' = "replaying"
  /\ UNCHANGED <<state, report, staged, replayed, orderVars, installVars, callVars, busVars, sourceVars>>

(* The registrar, which passes a registration on to the buses. *)
Register(r) ==
  \/ r.operation = "subscribe" /\ Buses!Subscribe(r.type, r.owner)
  \/ r.operation = "handle" /\ Buses!Bind(r.type, r.owner)

(* _replay: the registrar accepts the next staged registration ... *)
Replay ==
  /\ at = "replaying"
  /\ replayed < Len(staged)
  /\ replayed' = replayed + 1
  /\ Register(staged[replayed'])
  /\ UNCHANGED <<state, report, at, staged, orderVars, installVars, callVars, sourceVars>>

(* ... or raises: it does when a command type is bound already, and may     *)
(* have other reasons.                                                     *)
ReplayRaises ==
  /\ at = "replaying"
  /\ replayed < Len(staged)
  /\ Fails("registration error")
  /\ UNCHANGED <<installVars, sourceVars>>

(* Mutant: one registration is enough. *)
SomeReplayed == staged # <<>> => replayed > 0

AllReplayed == replayed = Len(staged)

(* The report names what was resolved, in order, and the optional           *)
(* extensions that could not be loaded.                                    *)
Started ==
  /\ at = "replaying"
  /\ AllReplayed
  /\ at' = "idle"
  /\ state' = "started"
  /\ report' = [installed |-> resolved, skipped |-> Source!Failed]
  /\ answer' = "report"
  /\ UNCHANGED <<staged, replayed, calls, orderVars, installVars, busVars, sourceVars>>

(* Mutant: a stopped host keeps its report. *)
KeptReport == report

NoReport == None

(* stop(), in any state; the registrations stay where they are. *)
Stop ==
  /\ Call
  /\ state' = "stopped"
  /\ report' = NoReport
  /\ answer' = "stopped"
  /\ UNCHANGED <<at, staged, replayed, orderVars, installVars, busVars, sourceVars>>

Next ==
  \/ Construct
  \/ Start \/ StartAgain \/ LoadName \/ LoadRaises \/ ApplyPolicy \/ Resolve \/ ResolveRaises
  \/ Install \/ InstallRaises \/ Installed \/ Replay \/ ReplayRaises \/ Started
  \/ Stop

Spec == Init /\ [][Next]_vars

-----------------------------------------------------------------------------
Report == [installed : Seq(Extension), skipped : SUBSET Extension]

TypeOK ==
  /\ state \in {"created", "started", "stopped", "failed"}
  /\ IF state = "started" THEN report \in Report ELSE report = None
  /\ at \in {"idle", "loading", "resolving", "installing", "replaying"}
  /\ Source!TypeOK /\ Buses!TypeOK
  /\ resolved \in Seq(Extension)
  /\ \E n \in 0 .. Len(resolved) : toInstall = SubSeq(resolved, n + 1, Len(resolved))
  /\ requires \in [Range(resolved) -> SUBSET Extension]
  /\ staged \in Seq([owner : Extension, operation : {"subscribe", "handle"}, type : CommandType \cup EventType])
  /\ replayed \in 0 .. Len(staged)
  /\ installs \in [Extension -> Nat]
  /\ answer \in {"none", "report", "stopped"} \cup Error

(* Where the first n staged registrations have a subscription or a handler. *)
Places(operation, n) == {k \in 1 .. n : staged[k].operation = operation}

(* The event bus holds the subscriptions among the first n staged           *)
(* registrations, in their order, and nothing else.                        *)
Subscribed(n) ==
  LET places == Places("subscribe", n) IN
  /\ Len(subscriptions) = Cardinality(places)
  /\ \A k \in places :
       subscriptions[Cardinality(Places("subscribe", k))] = [type |-> staged[k].type, owner |-> staged[k].owner]

(* The buses see nothing before every install() has returned, and then the  *)
(* registrations in the order they were staged, those of a start() that    *)
(* fails included.                                                         *)
StagedFirst ==
  /\ replayed > 0 => toInstall = <<>> /\ \A e \in Range(resolved) : installs[e] = 1
  /\ Subscribed(replayed)
  /\ DOMAIN bindings = {staged[k].type : k \in Places("handle", replayed)}

(* A host reports success only if every extension it names, and no other,   *)
(* was installed, and every registration they staged has its own entry in a *)
(* bus: each subscription a place in the list, in their order, each handler *)
(* a command type that nobody else staged one for.                         *)
StartedComplete ==
  state = "started" \/ answer = "report" =>
    LET handlers == Places("handle", Len(staged)) IN
    /\ state = "started"
    /\ Range(report.installed) = {e \in Extension : installs[e] = 1}
    /\ Subscribed(Len(staged))
    /\ DOMAIN bindings = {staged[k].type : k \in handlers}
    /\ \A j, k \in handlers : staged[j].type = staged[k].type => j = k

(* "Immutable intent routed to exactly one command handler"                 *)
(* (contracts.py:48): in a started host a command goes to the one extension*)
(* that staged a handler for it.                                           *)
RoutedToItsOwner ==
  state = "started" =>
    \A k \in DOMAIN staged :
      staged[k].operation = "handle" =>
        staged[k].type \in DOMAIN bindings /\ bindings[staged[k].type] = staged[k].owner

(* Resolved order, staging and registration order together: whatever is     *)
(* published, an extension reacts after the ones it requires.              *)
DependenciesReactFirst ==
  \A event \in EventType :
    \A i, j \in Buses!Reactors(event) :
      subscriptions[j].owner \in requires[subscriptions[i].owner] => j < i

(* "optional load failures are reported and required failures abort         *)
(* startup" (README.md:94-95): a host that has started has installed every *)
(* extension that any requirement called required, and accounts for all    *)
(* the others that were installed as entry points or asked for.            *)
RequiredInstalled ==
  state = "started" =>
    LET installed == Range(report.installed) IN
    /\ \A j \in DOMAIN given : given[j].required => given[j].id \in installed
    /\ {n \in Extension : entryPoints[n] > 0} \cup {given[j].id : j \in DOMAIN given}
         \subseteq installed \cup report.skipped

(* However often start() and stop() are called, in whatever state, no       *)
(* extension is installed twice by one host.                               *)
InstallOnce == \A e \in Extension : installs[e] <= 1

(* "Load, resolve, stage and atomically replay" (extension_host.py:262): a  *)
(* start() that fails leaves nothing behind on the buses.                  *)
AtomicReplay == state = "failed" => subscriptions = <<>> /\ DOMAIN bindings = {}

=============================================================================
