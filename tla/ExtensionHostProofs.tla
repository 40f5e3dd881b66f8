------------------------- MODULE ExtensionHostProofs -------------------------
(***************************************************************************)
(* Theorems about ExtensionHost for any set of extensions, any message     *)
(* types and any bounds: its safety properties, as invariants.             *)
(*                                                                         *)
(* The invariant Inv says, phase by phase of start(), what has been done   *)
(* (Phases), what the entry point source has accounted for (Sourced), that *)
(* the order respects the requirements (Ordered), how far install() has    *)
(* gone through it (Installing), that staged registrations follow it       *)
(* (Staging) and that the buses hold the first of them (Registering).      *)
(***************************************************************************)
EXTENDS ExtensionHost, ActivationOrderProofs

Registration ==
  [owner : Extension, operation : {"subscribe"}, type : EventType]
    \cup [owner : Extension, operation : {"handle"}, type : CommandType]

(* The source's lists and dictionaries. *)
SourceTyped ==
  /\ given \in Seq(Source!Requirement) /\ taken \in 0 .. Len(given)
  /\ DOMAIN requiredById \subseteq Extension
  /\ \A id \in DOMAIN requiredById : requiredById[id] \in BOOLEAN
  /\ entryPoints \in [Extension -> 0 .. 2]
  /\ names \subseteq Extension
  /\ extensions \in Seq(Extension) /\ failures \in Seq(Source!Failure)
  /\ sourceAt \in {"constructing", "loading", "returned"}

Typed ==
  /\ state \in {"created", "started", "stopped", "failed"}
  /\ IF state = "started" THEN report = [installed |-> resolved, skipped |-> Source!Failed] ELSE report = None
  /\ at \in {"idle", "loading", "resolving", "installing", "replaying"}
  /\ answer \in {"none", "report", "stopped"} \cup Error
  /\ resolved \in Seq(Extension) /\ requires \in [Range(resolved) -> SUBSET Extension]
  /\ staged \in Seq(Registration) /\ replayed \in 0 .. Len(staged)
  /\ Buses!TypeOK

(* What a call has not come to has not been touched. *)
Phases ==
  /\ at # "idle" => state = "created"
  /\ answer = "report" => state = "started"
  /\ state = "created" /\ at \in {"idle", "loading", "resolving"} => resolved = <<>> /\ staged = <<>>
  /\ state = "created" /\ at # "replaying" => replayed = 0
  /\ state = "created" /\ at = "idle" => sourceAt = "constructing"
  /\ at = "loading" => sourceAt = "loading"
  /\ at = "replaying" \/ state = "started" \/ replayed > 0 => toInstall = <<>>
  /\ state = "started" => replayed = Len(staged)

(* The source remembers for each id if any requirement called it required,  *)
(* and every name is still to come, loaded or among the failures.          *)
Sourced ==
  /\ DOMAIN requiredById = {given[j].id : j \in 1 .. taken}
  /\ \A j \in 1 .. taken : given[j].required => requiredById[given[j].id]
  /\ sourceAt = "constructing" => names = {} /\ extensions = <<>> /\ failures = <<>>
  /\ sourceAt # "constructing" =>
       /\ taken = Len(given)
       /\ names \cup Source!Loaded \cup Source!Failed =
            {n \in Extension : entryPoints[n] > 0} \cup DOMAIN requiredById
  /\ names \cap (Source!Loaded \cup Source!Failed) = {}
  /\ \A k \in DOMAIN failures : failures[k].required = Source!Required(failures[k].name)
  /\ at \in {"resolving", "installing", "replaying"} \/ state = "started" =>
       /\ sourceAt = "returned" /\ names = {}
       /\ \A k \in DOMAIN failures : ~ failures[k].required
  /\ at \in {"installing", "replaying"} \/ state = "started" => Source!Loaded \subseteq Range(resolved)

(* The extensions that an install() has been called for. *)
Done == Len(resolved) - Len(toInstall)

Ordered ==
  /\ NoRepetition(resolved)
  /\ \A k \in DOMAIN resolved : requires[resolved[k]] \subseteq {resolved[j] : j \in 1 .. k - 1}

Installing ==
  /\ toInstall \in Seq(Extension) /\ Len(toInstall) <= Len(resolved)
  /\ \A k \in 1 .. Len(toInstall) : toInstall[k] = resolved[Done + k]
  /\ installs \in [Extension -> {0, 1}]
  /\ \A e \in Extension : installs[e] = 1 <=> \E k \in 1 .. Done : resolved[k] = e

(* Extension b has no place before extension a. *)
NotBefore(a, b) ==
  \A m, n \in DOMAIN resolved : resolved[m] = a /\ resolved[n] = b => m <= n

Staging ==
  /\ \A k \in DOMAIN staged : \E n \in 1 .. Done : staged[k].owner = resolved[n]
  /\ \A j, k \in DOMAIN staged : j <= k => NotBefore(staged[j].owner, staged[k].owner)

Registering ==
  /\ Subscribed(replayed)
  /\ \A i \in DOMAIN subscriptions : \E k \in 1 .. replayed : staged[k].owner = subscriptions[i].owner
  /\ \A i, j \in DOMAIN subscriptions : i <= j => NotBefore(subscriptions[i].owner, subscriptions[j].owner)
  /\ DOMAIN bindings = {staged[k].type : k \in Places("handle", replayed)}
  /\ \A k \in Places("handle", replayed) : bindings[staged[k].type] = staged[k].owner
  /\ \A j, k \in Places("handle", replayed) : staged[j].type = staged[k].type => j = k

Inv ==
  /\ SourceTyped /\ Typed /\ Phases /\ Sourced /\ Ordered /\ Installing /\ Staging /\ Registering

-----------------------------------------------------------------------------
(* The operators that the source has taken from the community modules. *)
LEMMA SourceMinIs ==
  ASSUME NEW S \in SUBSET Extension, S # {}
  PROVE  Source!Min(S) \in S
<1>1. S \in SUBSET Nat
  BY ExtensionAssumption
<1>2. Source!Min(S) = Min(S)
  BY DEF Source!Min, Min
<1> QED
  BY <1>1, <1>2, MinIs

LEMMA SourceLoaded == Source!Loaded = Range(extensions)
BY DEF Source!Loaded, Source!Range, Range

LEMMA InitInv == Init => Inv
<1> SUFFICES ASSUME Init PROVE Inv
  OBVIOUS
<1> USE DEF Init, Source!Init, Buses!Init
<1>1. given \in Seq(Source!Requirement)
  BY DEF Source!SeqOf
<1>2. SourceTyped
  BY <1>1 DEF SourceTyped
<1>3. Range(resolved) = {}
  BY DEF Range
<1>4. Typed
  BY <1>3 DEF Typed, Buses!TypeOK
<1>5. Phases
  BY DEF Phases
<1>6. Sourced
  BY <1>1, SourceLoaded DEF Sourced, Source!Failed, Range
<1>7. Ordered
  BY DEF Ordered, NoRepetition
<1>8. Installing
  BY DEF Installing, Done
<1>9. Staging
  BY DEF Staging
<1>10. Places("subscribe", replayed) = {} /\ Places("handle", replayed) = {}
  BY DEF Places
<1>11. Registering
  <2>1. Subscribed(replayed)
    BY <1>10, FS_EmptySet DEF Subscribed
  <2> QED
    BY <1>10, <2>1 DEF Registering
<1> QED
  BY <1>2, <1>4, <1>5, <1>6, <1>7, <1>8, <1>9, <1>11 DEF Inv

-----------------------------------------------------------------------------
(* A part of the invariant is kept by what leaves its variables alone. *)
LEMMA Kept ==
  ASSUME Inv
  PROVE  /\ UNCHANGED sourceVars => SourceTyped'
         /\ UNCHANGED orderVars => Ordered'
         /\ UNCHANGED <<resolved, installVars>> => Installing'
         /\ UNCHANGED <<resolved, toInstall, staged>> => Staging'
         /\ UNCHANGED <<resolved, staged, replayed, busVars>> => Registering'
         /\ UNCHANGED busVars => (Buses!TypeOK)'
<1> USE DEF Inv
<1>1. UNCHANGED sourceVars => SourceTyped'
  BY DEF sourceVars, SourceTyped
<1>2. UNCHANGED orderVars => Ordered'
  BY DEF orderVars, Ordered, NoRepetition
<1>3. UNCHANGED <<resolved, installVars>> => Installing'
  BY DEF installVars, Installing, Done
<1>4. UNCHANGED <<resolved, toInstall, staged>> => Staging'
  BY DEF Staging, Done, NotBefore
<1>5. UNCHANGED <<resolved, staged, replayed, busVars>> => Registering'
  <2> SUFFICES ASSUME UNCHANGED <<resolved, staged, replayed, busVars>> PROVE Registering'
    OBVIOUS
  <2>1. Subscribed(replayed)'
    BY DEF busVars, Registering, Subscribed, Places
  <2>2. Places("handle", replayed)' = Places("handle", replayed)
    BY DEF Places
  <2> QED
    BY <2>1, <2>2 DEF busVars, Registering, NotBefore
<1>6. UNCHANGED busVars => (Buses!TypeOK)'
  BY DEF busVars, Buses!TypeOK, Typed
<1> QED
  BY <1>1, <1>2, <1>3, <1>4, <1>5, <1>6

LEMMA ConstructInv ==
  ASSUME Inv, Construct
  PROVE  Inv'
<1> USE DEF Construct, Source!Require
<1>1. Typed' /\ Phases'
  BY DEF Inv, Typed, Phases, busVars, orderVars, installVars, callVars, Buses!TypeOK, Source!Failed, Error
<1>2. Ordered' /\ Installing' /\ Staging' /\ Registering'
  BY Kept DEF busVars, orderVars, installVars
<1> DEFINE r == given[taken + 1]
<1>3. /\ sourceAt = "constructing" /\ taken < Len(given) /\ taken' = taken + 1
      /\ requiredById' = [id \in DOMAIN requiredById \cup {r.id} |->
                            IF id = r.id THEN Source!Merged(r) ELSE requiredById[id]]
      /\ UNCHANGED <<given, entryPoints, names, extensions, failures, sourceAt, at, state, resolved>>
  BY DEF orderVars
<1>4. SourceTyped /\ Sourced
  BY DEF Inv
<1>5. taken + 1 \in 1 .. Len(given) /\ r \in Source!Requirement /\ taken \in Nat
  BY <1>3, <1>4 DEF SourceTyped
<1>6. r.id \in Extension /\ r.required \in BOOLEAN
  BY <1>5 DEF Source!Requirement
<1> HIDE DEF Construct, Source!Require, r
<1>7. Source!Merged(r) \in BOOLEAN
  BY DEF Source!Merged
<1>8. SourceTyped'
  BY <1>3, <1>4, <1>5, <1>6, <1>7 DEF SourceTyped
<1>9. \A j : j \in 1 .. taken + 1 <=> j \in 1 .. taken \/ j = taken + 1
  BY <1>5
<1>10. DOMAIN requiredById' = {given[j].id : j \in 1 .. taken + 1}
  BY <1>3, <1>4, <1>9 DEF Sourced, r
<1>11. ASSUME NEW j \in 1 .. taken + 1, given[j].required
       PROVE  requiredById'[given[j].id]
  <2>1. CASE given[j].id = r.id
    <3>1. requiredById'[given[j].id] = Source!Merged(r)
      BY <1>3, <2>1
    <3>2. ASSUME j \in 1 .. taken
          PROVE  r.id \in DOMAIN requiredById /\ requiredById[r.id]
      <4>1. r.id \in DOMAIN requiredById
        BY <1>4, <2>1, <3>2 DEF Sourced
      <4>2. requiredById[given[j].id]
        BY <1>4, <1>11, <3>2, Zenon DEF Sourced
      <4> QED
        BY <2>1, <4>1, <4>2, Zenon
    <3>3. j = taken + 1 => r.required
      BY <1>11 DEF r
    <3>4. Source!Merged(r)
      <4>1. CASE j \in 1 .. taken
        BY <3>2, <4>1, Zenon DEF Source!Merged, Source!Required
      <4>2. CASE j = taken + 1
        BY <3>3, <4>2, Zenon DEF Source!Merged
      <4> QED
        BY <1>9, <4>1, <4>2
    <3> QED
      BY <3>1, <3>4
  <2>2. CASE given[j].id # r.id
    <3>1. j \in 1 .. taken
      BY <1>9, <2>2 DEF r
    <3>2. given[j].id \in DOMAIN requiredById /\ requiredById[given[j].id]
      BY <1>4, <1>11, <3>1 DEF Sourced
    <3>3. requiredById'[given[j].id] = requiredById[given[j].id]
      BY <1>3, <2>2, <3>2
    <3> QED
      BY <3>2, <3>3
  <2> QED
    BY <2>1, <2>2
<1>12. at = "idle" /\ state # "started"
  BY <1>3 DEF Inv, Typed, Phases, Sourced
<1>13. Sourced'
  <2>1. names' = {} /\ extensions' = <<>> /\ failures' = <<>> /\ sourceAt' = "constructing"
    BY <1>3, <1>4 DEF Sourced
  <2>2. at' = "idle" /\ state' # "started"
    BY <1>3, <1>12
  <2> QED
    <3>1. DOMAIN requiredById' = {given'[j].id : j \in 1 .. taken'}
      BY <1>3, <1>10
    <3>2. \A j \in 1 .. taken' : given'[j].required => requiredById'[given'[j].id]
      BY <1>3, <1>11, Zenon
    <3>3. DOMAIN failures' = {}
      BY <2>1
    <3> QED
      BY <2>1, <2>2, <3>1, <3>2, <3>3, Zenon DEF Sourced
<1> QED
  BY <1>1, <1>2, <1>8, <1>13 DEF Inv

LEMMA StartInv ==
  ASSUME Inv, Start
  PROVE  Inv'
<1>1. /\ state = "created" /\ at = "idle" /\ at' = "loading" /\ sourceAt' = "loading"
      /\ staged' = <<>> /\ replayed' = 0 /\ replayed = 0 /\ staged = <<>> /\ resolved = <<>>
      /\ UNCHANGED <<state, report, answer, orderVars, installVars, busVars>>
  BY DEF Start, Call, Source!Discover, Inv, Phases
<1>2. Ordered' /\ Installing' /\ Staging' /\ Registering' /\ (Buses!TypeOK)'
  BY <1>1, Kept DEF orderVars, installVars
<1>3. Typed' /\ Phases'
  BY <1>1, <1>2 DEF Inv, Typed, Phases, orderVars, installVars, Error
<1>4. /\ taken = Len(given) /\ entryPoints' \in [Extension -> 0 .. 2]
      /\ names' = {n \in Extension : entryPoints'[n] > 0} \cup DOMAIN requiredById
      /\ extensions' = <<>> /\ failures' = <<>> /\ UNCHANGED <<given, taken, requiredById>>
  BY DEF Start, Source!Discover
<1>5. SourceTyped'
  BY <1>1, <1>4 DEF Inv, SourceTyped
<1>6. Range(extensions') = {}
  BY <1>4 DEF Range
<1>7. Sourced'
  <2>1. (Source!Loaded)' = {} /\ (Source!Failed)' = {}
    BY <1>4, <1>6 DEF Source!Loaded, Source!Range, Range, Source!Failed
  <2> QED
    BY <1>1, <1>4, <2>1 DEF Inv, Sourced
<1> QED
  BY <1>2, <1>3, <1>5, <1>7 DEF Inv

LEMMA LoadNameInv ==
  ASSUME Inv, LoadName
  PROVE  Inv'
<1> DEFINE name == Source!Min(names)
<1>1. PICK kind \in Source!OutcomesOf(name) :
        \/ kind = "none" /\ extensions' = Append(extensions, name) /\ UNCHANGED failures
        \/ /\ kind # "none"
           /\ failures' = Append(failures, [name |-> name, required |-> Source!Required(name), kind |-> kind])
           /\ UNCHANGED extensions
  BY DEF LoadName, Source!LoadName
<1>2. /\ at = "loading" /\ sourceAt = "loading" /\ names # {} /\ names' = names \ {name}
      /\ UNCHANGED <<given, taken, requiredById, entryPoints, sourceAt>>
      /\ UNCHANGED <<state, report, at, staged, replayed, orderVars, installVars, callVars, busVars>>
  BY DEF LoadName, Source!LoadName
<1>3. SourceTyped /\ Sourced /\ state = "created"
  BY <1>2 DEF Inv, Phases
<1>4. name \in names /\ name \in Extension
  BY <1>2, <1>3, SourceMinIs DEF SourceTyped
<1> HIDE DEF name
<1>5. kind # "none" => kind \in Source!FailureKind
  BY <1>1 DEF Source!OutcomesOf, Source!LoadEntryPoint, Source!Target, Source!FailureKind
<1>6. Typed' /\ Phases'
  BY <1>2, <1>3 DEF Inv, Typed, Phases, orderVars, installVars, callVars, busVars, Buses!TypeOK, Error
<1>7. Ordered' /\ Installing' /\ Staging' /\ Registering'
  BY <1>2, Kept DEF orderVars, installVars
<1>8. Source!Required(name) \in BOOLEAN
  BY DEF Source!Required
<1> DEFINE failure == [name |-> name, required |-> Source!Required(name), kind |-> kind]
<1>9. CASE kind = "none"
  <2>1. extensions' = Append(extensions, name) /\ UNCHANGED failures
    BY <1>1, <1>9
  <2>2. SourceTyped'
    BY <1>2, <1>3, <1>4, <2>1 DEF SourceTyped
  <2>3. Range(extensions') = Range(extensions) \cup {name}
    BY <1>3, <1>4, <2>1, RangeAppend DEF SourceTyped
  <2>4. (Source!Loaded)' = Source!Loaded \cup {name} /\ (Source!Failed)' = Source!Failed
    BY <2>1, <2>3 DEF Source!Loaded, Source!Range, Range, Source!Failed
  <2>5. Sourced'
    BY <1>2, <1>3, <1>4, <2>1, <2>4 DEF Sourced, Source!Required
  <2> QED
    BY <1>6, <1>7, <2>2, <2>5 DEF Inv
<1>10. CASE kind # "none"
  <2>1. failures' = Append(failures, failure) /\ UNCHANGED extensions
    BY <1>1, <1>10
  <2>2. failure \in Source!Failure
    BY <1>4, <1>5, <1>8, <1>10 DEF Source!Failure
  <2> HIDE DEF failure
  <2>3. SourceTyped'
    BY <1>2, <1>3, <2>1, <2>2 DEF SourceTyped
  <2>4. /\ Len(failures) \in Nat /\ DOMAIN failures = 1 .. Len(failures)
        /\ DOMAIN failures' = 1 .. Len(failures) + 1
        /\ failures'[Len(failures) + 1] = failure
        /\ \A k \in 1 .. Len(failures) : failures'[k] = failures[k]
    BY <1>3, <2>1, <2>2 DEF SourceTyped
  <2>5. \A k : k \in 1 .. Len(failures) + 1 <=> k \in 1 .. Len(failures) \/ k = Len(failures) + 1
    BY <2>4
  <2>6. failure.name = name /\ failure.required = Source!Required(name)
    BY DEF failure
  <2>7. (Source!Failed)' = Source!Failed \cup {name} /\ (Source!Loaded)' = Source!Loaded
    BY <2>1, <2>4, <2>5, <2>6 DEF Source!Failed, Source!Loaded, Source!Range
  <2>8. \A k \in DOMAIN failures' : failures'[k].required = Source!Required(failures'[k].name)
    BY <1>3, <2>4, <2>5, <2>6 DEF Sourced
  <2>9. Sourced'
    BY <1>2, <1>3, <1>4, <2>7, <2>8 DEF Sourced, Source!Required
  <2> QED
    BY <1>6, <1>7, <2>3, <2>9 DEF Inv
<1> QED
  BY <1>9, <1>10

(* What an exception in start() does is the same wherever it is raised. *)
LEMMA FailsInv ==
  ASSUME Inv, at # "idle", NEW error \in Error, Fails(error), UNCHANGED toInstall \/ at = "installing"
  PROVE  /\ Typed' /\ Phases' /\ Ordered' /\ Registering'
         /\ state' = "failed" /\ at' = "idle" /\ UNCHANGED staged
<1> USE DEF Fails, AfterFailure
<1>1. Ordered' /\ Registering' /\ (Buses!TypeOK)'
  BY Kept DEF orderVars
<1>2. state = "created" /\ report' = None
  BY DEF Inv, Phases, Typed
<1>3. replayed > 0 => toInstall = <<>> /\ toInstall' = <<>>
  BY <1>2 DEF Inv, Phases
<1>4. error # "report"
  BY DEF Error
<1>5. Typed'
  BY <1>1, <1>2 DEF Inv, Typed, orderVars
<1>6. Phases'
  BY <1>3, <1>4 DEF Phases
<1> QED
  BY <1>1, <1>5, <1>6

LEMMA RaisesInv ==
  ASSUME Inv, LoadRaises \/ ResolveRaises \/ ReplayRaises
  PROVE  Inv'
<1>1. at # "idle" /\ UNCHANGED <<installVars, sourceVars, resolved>>
  BY DEF LoadRaises, ResolveRaises, ReplayRaises, Fails, orderVars
<1>2. PICK error \in Error : Fails(error)
  BY DEF LoadRaises, ResolveRaises, ReplayRaises, Error
<1>3. UNCHANGED toInstall
  BY <1>1 DEF installVars
<1>4. Typed' /\ Phases' /\ Ordered' /\ Registering' /\ state' = "failed" /\ at' = "idle" /\ UNCHANGED staged
  BY <1>1, <1>2, <1>3, FailsInv
<1>5. SourceTyped' /\ Installing' /\ Staging'
  BY <1>1, <1>3, <1>4, Kept
<1>6. Sourced'
  BY <1>1, <1>4 DEF Inv, Sourced, sourceVars, Source!Loaded, Source!Range, Source!Failed, Source!Required
<1> QED
  BY <1>4, <1>5, <1>6 DEF Inv

LEMMA ApplyPolicyInv ==
  ASSUME Inv, ApplyPolicy
  PROVE  Inv'
<1>1. /\ at = "loading" /\ names = {} /\ sourceAt' = "returned" /\ sourceAt = "loading"
      /\ UNCHANGED <<given, taken, requiredById, entryPoints, names, extensions, failures, installVars>>
  BY DEF ApplyPolicy, Source!Return
<1>2. SourceTyped'
  BY <1>1 DEF Inv, SourceTyped
<1>3. /\ (Source!Loaded)' = Source!Loaded /\ (Source!Failed)' = Source!Failed
      /\ \A n : Source!Required(n)' = Source!Required(n)
  BY <1>1 DEF Source!Loaded, Source!Range, Source!Failed, Source!Required
<1>4. CASE Fails("required extension")
  <2>1. "required extension" \in Error /\ UNCHANGED <<toInstall, resolved>> /\ at # "idle"
    BY <1>1, <1>4 DEF Error, installVars, Fails, orderVars
  <2>2. Typed' /\ Phases' /\ Ordered' /\ Registering' /\ state' = "failed" /\ at' = "idle" /\ UNCHANGED staged
    BY <1>4, <2>1, FailsInv
  <2>3. Installing' /\ Staging'
    BY <1>1, <2>1, <2>2, Kept
  <2>4. Sourced'
    BY <1>1, <1>3, <2>2 DEF Inv, Sourced
  <2> QED
    BY <1>2, <2>2, <2>3, <2>4 DEF Inv
<1>5. CASE /\ \A k \in DOMAIN failures : ~ failures[k].required
           /\ at' = "resolving"
           /\ UNCHANGED <<state, report, staged, replayed, orderVars, callVars, busVars>>
  <2>1. UNCHANGED <<resolved, toInstall, installs, answer>>
    BY <1>1, <1>5 DEF orderVars, installVars, callVars
  <2>2. Ordered' /\ Installing' /\ Staging' /\ Registering' /\ (Buses!TypeOK)'
    BY <1>1, <1>5, <2>1, Kept
  <2>3. Typed'
    BY <1>1, <1>3, <1>5, <2>1, <2>2 DEF Inv, Typed, orderVars
  <2>4. Phases'
    BY <1>1, <1>5, <2>1 DEF Inv, Phases
  <2>5. Sourced'
    BY <1>1, <1>3, <1>5 DEF Inv, Phases, Sourced
  <2> QED
    BY <1>2, <2>2, <2>3, <2>4, <2>5 DEF Inv
<1> QED
  BY <1>4, <1>5 DEF ApplyPolicy

(* The calls that do not run start(), and the steps of start() that change  *)
(* no more than how far it is.                                             *)
LEMMA CallInv ==
  ASSUME Inv, StartAgain \/ Stop
  PROVE  Inv'
<1>1. /\ at = "idle" /\ UNCHANGED <<at, staged, replayed, resolved, requires, toInstall, installs, busVars, sourceVars>>
      /\ orderVars' = orderVars /\ installVars' = installVars
  BY DEF StartAgain, Stop, Call, orderVars, installVars
<1>2. SourceTyped' /\ Ordered' /\ Installing' /\ Staging' /\ Registering' /\ (Buses!TypeOK)'
  BY <1>1, Kept
<1>3. /\ (Source!Loaded)' = Source!Loaded /\ (Source!Failed)' = Source!Failed
      /\ \A n : Source!Required(n)' = Source!Required(n)
      /\ UNCHANGED <<given, taken, requiredById, entryPoints, names, extensions, failures, sourceAt>>
  BY <1>1 DEF sourceVars, Source!Loaded, Source!Range, Source!Failed, Source!Required
<1>4. \/ state' = "stopped" /\ report' = None /\ answer' = "stopped"
      \/ /\ state # "created" /\ UNCHANGED <<state, report>>
         /\ answer' = IF state = "started" THEN "report" ELSE "state error"
  BY DEF StartAgain, Stop, NoReport
<1>5. Typed'
  BY <1>1, <1>2, <1>3, <1>4 DEF Inv, Typed, Error
<1>6. Phases'
  BY <1>1, <1>3, <1>4 DEF Inv, Phases
<1>7. Sourced'
  BY <1>1, <1>3, <1>4 DEF Inv, Sourced
<1> QED
  BY <1>2, <1>5, <1>6, <1>7 DEF Inv

LEMMA ProgressInv ==
  ASSUME Inv, Installed \/ Started
  PROVE  Inv'
<1>1. /\ UNCHANGED <<staged, replayed, resolved, requires, toInstall, installs, busVars, sourceVars>>
      /\ orderVars' = orderVars /\ installVars' = installVars
  BY DEF Installed, Started, orderVars, installVars
<1>2. SourceTyped' /\ Ordered' /\ Installing' /\ Staging' /\ Registering' /\ (Buses!TypeOK)'
  BY <1>1, Kept
<1>3. /\ (Source!Loaded)' = Source!Loaded /\ (Source!Failed)' = Source!Failed
      /\ \A n : Source!Required(n)' = Source!Required(n)
      /\ UNCHANGED <<given, taken, requiredById, entryPoints, names, extensions, failures, sourceAt>>
  BY <1>1 DEF sourceVars, Source!Loaded, Source!Range, Source!Failed, Source!Required
<1>4. \/ /\ at = "installing" /\ at' = "replaying" /\ toInstall = <<>>
         /\ UNCHANGED <<state, report, answer>>
      \/ /\ at = "replaying" /\ at' = "idle" /\ replayed = Len(staged)
         /\ state' = "started" /\ answer' = "report"
         /\ report' = [installed |-> resolved, skipped |-> Source!Failed]
  BY DEF Installed, Started, AllStaged, AllReplayed, callVars
<1>5. Typed'
  BY <1>1, <1>2, <1>3, <1>4 DEF Inv, Typed, Phases, Error
<1>6. Phases'
  BY <1>1, <1>3, <1>4 DEF Inv, Phases
<1>7. Sourced'
  BY <1>1, <1>3, <1>4 DEF Inv, Phases, Sourced
<1> QED
  BY <1>2, <1>5, <1>6, <1>7 DEF Inv

LEMMA ResolveInv ==
  ASSUME Inv, Resolve
  PROVE  Inv'
<1>1. /\ at = "resolving" /\ at' = "installing" /\ toInstall' = resolved'
      /\ UNCHANGED <<state, report, staged, replayed, installs, answer, busVars, sourceVars>>
  BY DEF Resolve, callVars
<1>2. PICK bundled \in SUBSET (Extension \ Source!Loaded) :
        LET ids == bundled \cup Source!Loaded IN
        requires' \in [ids -> SUBSET ids] /\ resolved' = LeastOrder(ids, requires') /\ Range(resolved') = ids
  BY DEF Resolve
<1> DEFINE ids == bundled \cup Source!Loaded
<1>3. SourceTyped /\ Typed /\ Phases /\ Sourced /\ Installing /\ Staging /\ Registering /\ state = "created"
  BY <1>1 DEF Inv, Phases
<1>4. Source!Loaded \subseteq Extension
  BY <1>3, SourceLoaded, RangeOfSeq DEF SourceTyped
<1>5. ids \in SUBSET Extension /\ Range(resolved') = ids /\ Source!Loaded \subseteq ids
      /\ requires' \in [ids -> SUBSET ids] /\ resolved' = LeastOrder(ids, requires')
  BY <1>2, <1>4
<1> HIDE DEF ids
<1>6. ids \in SUBSET Nat /\ IsFiniteSet(ids)
  BY <1>5, ExtensionAssumption, FS_Subset
<1>7. Respects(ids, requires', {}, resolved')
  BY <1>5, <1>6, LeastOrderRespects
<1>8. Ordered'
  BY <1>7 DEF Respects, Ordered, NoRepetition
<1>9. resolved' \in Seq(Extension) /\ requires' \in [Range(resolved') -> SUBSET Extension]
  BY <1>5, <1>7 DEF Respects
<1>10. resolved = <<>> /\ staged = <<>> /\ replayed = 0
  BY <1>1, <1>3 DEF Phases
<1>11. Done = 0 /\ Done' = 0
  <2>1. Len(resolved') \in Nat /\ Done' = Len(resolved') - Len(resolved')
    BY <1>1, <1>9 DEF Done
  <2>2. Len(toInstall) = 0 /\ Len(resolved) = 0
    BY <1>3, <1>10 DEF Installing
  <2> QED
    BY <2>1, <2>2 DEF Done
<1>12. Installing'
  <2>1. \A e \in Extension : installs[e] # 1
    BY <1>3, <1>11 DEF Installing
  <2>2. installs' \in [Extension -> {0, 1}]
    BY <1>1, <1>3 DEF Installing
  <2>3. Len(resolved') \in Nat
    BY <1>9
  <2> QED
    BY <1>1, <1>9, <1>11, <2>1, <2>2, <2>3 DEF Installing
<1>13. Staging'
  BY <1>1, <1>10 DEF Staging
<1>14. subscriptions = <<>> /\ bindings' = bindings /\ subscriptions' = subscriptions
  <2>1. Places("subscribe", 0) = {}
    BY DEF Places
  <2>2. Len(subscriptions) = 0 /\ subscriptions \in Seq([type : EventType, owner : Extension])
    BY <1>3, <1>10, <2>1, FS_EmptySet DEF Registering, Subscribed, Typed, Buses!TypeOK
  <2> QED
    BY <1>1, <2>2 DEF busVars
<1>15. Registering'
  <2>1. /\ Subscribed(replayed)' /\ DOMAIN bindings' = {staged'[k].type : k \in Places("handle", replayed)'}
        /\ \A k \in Places("handle", replayed)' : bindings'[staged'[k].type] = staged'[k].owner
    BY <1>1, <1>3, <1>14 DEF Registering, Subscribed, Places
  <2>2. DOMAIN subscriptions' = {}
    BY <1>14
  <2>3. Places("handle", replayed)' = {}
    BY <1>1, <1>10 DEF Places
  <2> QED
    BY <2>1, <2>2, <2>3 DEF Registering
<1>16. SourceTyped' /\ (Buses!TypeOK)'
  BY <1>1, Kept
<1>17. /\ (Source!Loaded)' = Source!Loaded /\ (Source!Failed)' = Source!Failed
       /\ \A n : Source!Required(n)' = Source!Required(n)
       /\ UNCHANGED <<given, taken, requiredById, entryPoints, names, extensions, failures, sourceAt>>
  BY <1>1 DEF sourceVars, Source!Loaded, Source!Range, Source!Failed, Source!Required
<1>18. Typed'
  BY <1>1, <1>3, <1>9, <1>16 DEF Typed
<1>19. Phases'
  BY <1>1, <1>3, <1>10, <1>17 DEF Phases
<1>20. Sourced'
  BY <1>1, <1>3, <1>5, <1>17 DEF Sourced
<1> QED
  BY <1>8, <1>12, <1>13, <1>15, <1>16, <1>18, <1>19, <1>20 DEF Inv

(* install() of the next extension in the order has been called. *)
LEMMA OneMoreInstalled ==
  ASSUME Inv, toInstall # <<>>, toInstall' = Tail(toInstall), resolved' = resolved,
         installs' = [installs EXCEPT ![Head(toInstall)] = @ + 1]
  PROVE  /\ Installing'
         /\ Done \in Nat /\ Done' = Done + 1 /\ Done + 1 \in DOMAIN resolved
         /\ Head(toInstall) = resolved[Done + 1] /\ resolved[Done + 1] \in Extension
<1> DEFINE e == Head(toInstall)
<1>1. /\ toInstall \in Seq(Extension) /\ Len(toInstall) <= Len(resolved) /\ resolved \in Seq(Extension)
      /\ \A k \in 1 .. Len(toInstall) : toInstall[k] = resolved[Done + k]
      /\ installs \in [Extension -> {0, 1}]
      /\ \A x \in Extension : installs[x] = 1 <=> \E k \in 1 .. Done : resolved[k] = x
      /\ NoRepetition(resolved)
  BY DEF Inv, Installing, Typed, Ordered
<1>2. Len(toInstall) \in Nat /\ Len(toInstall) > 0 /\ Len(resolved) \in Nat /\ DOMAIN resolved = 1 .. Len(resolved)
  BY <1>1
<1>3. /\ Tail(toInstall) \in Seq(Extension) /\ Len(Tail(toInstall)) = Len(toInstall) - 1
      /\ \A k \in 1 .. Len(toInstall) - 1 : Tail(toInstall)[k] = toInstall[k + 1]
      /\ e = toInstall[1]
  BY <1>1, <1>2
<1>4. Done \in Nat /\ Done' = Done + 1 /\ Done + 1 \in DOMAIN resolved
  BY <1>1, <1>2, <1>3 DEF Done
<1>5. e = resolved[Done + 1] /\ e \in Extension
  BY <1>1, <1>2, <1>3, <1>4
<1> HIDE DEF e
<1>6. ASSUME NEW k \in 1 .. Len(toInstall')
      PROVE  toInstall'[k] = resolved'[Done' + k]
  <2>1. k + 1 \in 1 .. Len(toInstall) /\ toInstall'[k] = toInstall[k + 1]
    BY <1>2, <1>3
  <2>2. toInstall[k + 1] = resolved[Done + (k + 1)]
    BY <1>1, <2>1
  <2>3. Done + (k + 1) = Done' + k
    BY <1>4
  <2> QED
    BY <2>1, <2>2, <2>3
<1>7. installs[e] = 0
  <2>1. ASSUME NEW k \in 1 .. Done, resolved[k] = e PROVE FALSE
    <3>1. k \in DOMAIN resolved /\ k # Done + 1
      BY <1>2, <1>4
    <3> QED
      BY <1>1, <1>4, <1>5, <2>1, <3>1 DEF NoRepetition
  <2> QED
    BY <1>1, <1>5, <2>1
<1>8. /\ installs' \in [Extension -> {0, 1}] /\ installs'[e] = 1
      /\ \A x \in Extension \ {e} : installs'[x] = installs[x]
  BY <1>1, <1>5, <1>7 DEF e
<1>9. ASSUME NEW x \in Extension
      PROVE  installs'[x] = 1 <=> \E k \in 1 .. Done' : resolved'[k] = x
  <2>1. \A k : k \in 1 .. Done' <=> k \in 1 .. Done \/ k = Done + 1
    BY <1>4
  <2>2. CASE x = e
    BY <1>4, <1>5, <1>8, <2>1, <2>2
  <2>3. CASE x # e
    BY <1>1, <1>5, <1>8, <2>1, <2>3
  <2> QED
    BY <2>2, <2>3
<1>10. Len(toInstall') <= Len(resolved')
  BY <1>1, <1>2, <1>3
<1>11. Installing'
  BY <1>3, <1>6, <1>8, <1>9, <1>10 DEF Installing
<1> QED
  BY <1>4, <1>5, <1>11 DEF e

LEMMA InstallInv ==
  ASSUME Inv, Install
  PROVE  Inv'
<1> DEFINE e == Head(toInstall)
<1>1. PICK new \in SeqOf(Contribution, MaxRegistrations) : staged' = staged \o Owned(e, new)
  BY DEF Install
<1>2. /\ at = "installing" /\ toInstall # <<>> /\ toInstall' = Tail(toInstall)
      /\ installs' = [installs EXCEPT ![e] = @ + 1]
      /\ UNCHANGED <<state, report, at, replayed, resolved, requires, answer, busVars, sourceVars>>
      /\ orderVars' = orderVars
  BY DEF Install, orderVars, callVars
<1>3. /\ Installing' /\ Done \in Nat /\ Done' = Done + 1 /\ Done + 1 \in DOMAIN resolved
      /\ e = resolved[Done + 1] /\ e \in Extension
  BY <1>2, OneMoreInstalled
<1> HIDE DEF e
<1>4. /\ Typed /\ Phases /\ Sourced /\ Staging /\ Registering /\ NoRepetition(resolved)
      /\ state = "created" /\ replayed = 0
  BY <1>2 DEF Inv, Phases, Ordered
<1> DEFINE added == Owned(e, new)
<1>5. new \in Seq(Contribution)
  BY DEF SeqOf
<1>6. /\ added \in Seq(Registration) /\ Len(added) = Len(new)
      /\ \A k \in 1 .. Len(added) : added[k].owner = e
  BY <1>3, <1>5 DEF Owned, Contribution, Registration
<1> HIDE DEF added
<1>7. staged \in Seq(Registration) /\ DOMAIN staged = 1 .. Len(staged) /\ Len(staged) \in Nat
  BY <1>4 DEF Typed
<1>8. /\ staged' \in Seq(Registration) /\ Len(staged') = Len(staged) + Len(added)
      /\ \A k \in 1 .. Len(staged) : staged'[k] = staged[k]
      /\ \A k \in Len(staged) + 1 .. Len(staged) + Len(added) : staged'[k] = added[k - Len(staged)]
      /\ Len(added) \in Nat
  <2>1. staged' = staged \o added
    BY <1>1 DEF added
  <2>2. added \in Seq(Registration) /\ Len(added) \in Nat
    BY <1>6
  <2>3. staged \o added \in Seq(Registration) /\ Len(staged \o added) = Len(staged) + Len(added)
    BY <1>7, <2>2
  <2>4. \A k \in 1 .. Len(staged) + Len(added) :
          (staged \o added)[k] = IF k <= Len(staged) THEN staged[k] ELSE added[k - Len(staged)]
    BY <1>7, <2>2
  <2> HIDE <1>1
  <2>5. \A k \in 1 .. Len(staged) : (staged \o added)[k] = staged[k]
    BY <1>7, <2>2, <2>4
  <2>6. \A k \in Len(staged) + 1 .. Len(staged) + Len(added) : (staged \o added)[k] = added[k - Len(staged)]
    BY <1>7, <2>2, <2>4
  <2> QED
    BY <2>1, <2>2, <2>3, <2>5, <2>6
<1>9. \A k \in DOMAIN staged' :
        \/ k \in DOMAIN staged /\ staged'[k] = staged[k]
        \/ k \notin DOMAIN staged /\ staged'[k].owner = e
  <2> TAKE k \in DOMAIN staged'
  <2>1. k \in 1 .. Len(staged) + Len(added)
    BY <1>8
  <2>2. CASE k \in 1 .. Len(staged)
    <3>1. staged'[k] = staged[k] /\ k \in DOMAIN staged
      BY <1>7, <1>8, <2>2
    <3> QED
      BY <3>1
  <2>3. CASE k \notin 1 .. Len(staged)
    <3>1. k \in Len(staged) + 1 .. Len(staged) + Len(added) /\ k - Len(staged) \in 1 .. Len(added)
      BY <1>7, <1>8, <2>1, <2>3
    <3>2. staged'[k] = added[k - Len(staged)]
      BY <1>8, <3>1
    <3>3. added[k - Len(staged)].owner = e
      BY <1>6, <3>1
    <3> QED
      BY <1>7, <2>3, <3>2, <3>3
  <2> QED
    BY <2>2, <2>3
<1>10. NotBefore(e, e) /\ \A k \in DOMAIN staged : NotBefore(staged[k].owner, e)
  <2>1. \A m \in DOMAIN resolved : resolved[m] = e => m = Done + 1
    BY <1>3, <1>4 DEF NoRepetition
  <2>2. DOMAIN resolved = 1 .. Len(resolved) /\ Len(resolved) \in Nat
    BY <1>4 DEF Typed
  <2>3. NotBefore(e, e)
    BY <1>3, <2>1 DEF NotBefore
  <2>4. ASSUME NEW k \in DOMAIN staged PROVE NotBefore(staged[k].owner, e)
    <3>1. PICK n \in 1 .. Done : staged[k].owner = resolved[n]
      BY <1>4 DEF Staging
    <3>2. n \in DOMAIN resolved /\ n <= Done + 1
      BY <1>3, <2>2
    <3>3. \A m \in DOMAIN resolved : resolved[m] = staged[k].owner => m = n
      BY <1>4, <3>1, <3>2 DEF NoRepetition
    <3> QED
      BY <2>1, <3>2, <3>3 DEF NotBefore
  <2> QED
    BY <2>3, <2>4
<1>11. Staging'
  <2>1. ASSUME NEW k \in DOMAIN staged' PROVE \E n \in 1 .. Done' : staged'[k].owner = resolved'[n]
    <3>1. CASE k \in DOMAIN staged /\ staged'[k] = staged[k]
      <4>1. PICK n \in 1 .. Done : staged[k].owner = resolved[n]
        BY <1>4, <3>1 DEF Staging
      <4>2. n \in 1 .. Done'
        BY <1>3
      <4> QED
        BY <1>2, <3>1, <4>1, <4>2
    <3>2. CASE staged'[k].owner = e
      <4>1. Done + 1 \in 1 .. Done'
        BY <1>3
      <4> QED
        BY <1>2, <1>3, <3>2, <4>1
    <3> QED
      BY <1>9, <3>1, <3>2
  <2>2. ASSUME NEW j \in DOMAIN staged', NEW k \in DOMAIN staged', j <= k
        PROVE  NotBefore(staged[j].owner, staged[k].owner)'
    <3>1. CASE k \in DOMAIN staged /\ staged'[k] = staged[k]
      <4>1. j \in DOMAIN staged
        BY <1>7, <1>8, <2>2, <3>1
      <4>2. NotBefore(staged[j].owner, staged[k].owner) /\ staged'[j] = staged[j]
        BY <1>4, <1>9, <2>2, <3>1, <4>1 DEF Staging
      <4> QED
        BY <1>2, <3>1, <4>2 DEF NotBefore
    <3>2. CASE staged'[k].owner = e
      <4>1. NotBefore(staged'[j].owner, e)
        BY <1>9, <1>10
      <4> QED
        BY <1>2, <3>2, <4>1 DEF NotBefore
    <3> QED
      BY <1>9, <3>1, <3>2
  <2> QED
    BY <2>1, <2>2 DEF Staging
<1>12. Registering'
  <2>1. Places("subscribe", 0) = {} /\ Places("handle", 0) = {}
        /\ Places("subscribe", 0)' = {} /\ Places("handle", 0)' = {}
    BY DEF Places
  <2>2. Len(subscriptions) = 0 /\ DOMAIN bindings = {} /\ subscriptions \in Seq([type : EventType, owner : Extension])
    BY <1>4, <2>1, FS_EmptySet DEF Registering, Subscribed, Typed, Buses!TypeOK
  <2>3. subscriptions' = subscriptions /\ bindings' = bindings /\ replayed' = 0 /\ DOMAIN subscriptions' = {}
    BY <1>2, <1>4, <2>2 DEF busVars
  <2>4. Places("subscribe", replayed)' = {} /\ Places("handle", replayed)' = {}
    BY <2>1, <2>3 DEF Places
  <2> QED
    BY <2>2, <2>3, <2>4, FS_EmptySet DEF Registering, Subscribed
<1>13. SourceTyped' /\ Ordered' /\ (Buses!TypeOK)'
  BY <1>2, Kept
<1>14. /\ (Source!Loaded)' = Source!Loaded /\ (Source!Failed)' = Source!Failed
       /\ \A n : Source!Required(n)' = Source!Required(n)
       /\ UNCHANGED <<given, taken, requiredById, entryPoints, names, extensions, failures, sourceAt>>
  BY <1>2 DEF sourceVars, Source!Loaded, Source!Range, Source!Failed, Source!Required
<1>15. Typed'
  BY <1>2, <1>4, <1>7, <1>8, <1>13 DEF Typed
<1>16. Phases'
  BY <1>2, <1>4, <1>14 DEF Phases
<1>17. Sourced'
  BY <1>2, <1>4, <1>14 DEF Sourced
<1> QED
  BY <1>3, <1>11, <1>12, <1>13, <1>15, <1>16, <1>17 DEF Inv

LEMMA InstallRaisesInv ==
  ASSUME Inv, InstallRaises
  PROVE  Inv'
<1>1. /\ at = "installing" /\ toInstall # <<>> /\ toInstall' = Tail(toInstall)
      /\ installs' = [installs EXCEPT ![Head(toInstall)] = @ + 1]
      /\ resolved' = resolved /\ UNCHANGED sourceVars
      /\ Fails("install error") /\ "install error" \in Error
  BY DEF InstallRaises, Fails, orderVars, Error
<1>2. Typed' /\ Phases' /\ Ordered' /\ Registering' /\ state' = "failed" /\ at' = "idle" /\ UNCHANGED staged
  BY <1>1, FailsInv
<1>3. Installing' /\ Done \in Nat /\ Done' = Done + 1
  BY <1>1, OneMoreInstalled
<1>4. Staging'
  <2>1. 1 .. Done \subseteq 1 .. Done'
    BY <1>3
  <2>2. Staging /\ staged' = staged /\ resolved' = resolved
    BY <1>1, <1>2 DEF Inv
  <2>3. \A k \in DOMAIN staged' : \E n \in 1 .. Done' : staged'[k].owner = resolved'[n]
    BY <2>1, <2>2 DEF Staging
  <2>4. \A j, k \in DOMAIN staged' : j <= k => NotBefore(staged[j].owner, staged[k].owner)'
    BY <2>2 DEF Staging, NotBefore
  <2> QED
    BY <2>3, <2>4 DEF Staging
<1>5. SourceTyped'
  BY <1>1, Kept
<1>6. Sourced'
  <2>1. /\ (Source!Loaded)' = Source!Loaded /\ (Source!Failed)' = Source!Failed
        /\ \A n : Source!Required(n)' = Source!Required(n)
        /\ UNCHANGED <<given, taken, requiredById, entryPoints, names, extensions, failures, sourceAt>>
    BY <1>1 DEF sourceVars, Source!Loaded, Source!Range, Source!Failed, Source!Required
  <2>2. Sourced
    BY DEF Inv
  <2> QED
    BY <1>2, <2>1, <2>2 DEF Sourced
<1> QED
  BY <1>2, <1>3, <1>4, <1>5, <1>6 DEF Inv

(* The places of one more registration, and their ranks. *)
LEMMA OneMorePlace ==
  ASSUME NEW n \in Nat, NEW operation
  PROVE  /\ staged[n + 1].operation = operation => Places(operation, n + 1) = Places(operation, n) \cup {n + 1}
         /\ staged[n + 1].operation # operation => Places(operation, n + 1) = Places(operation, n)
         /\ n + 1 \notin Places(operation, n)
<1>1. \A k : k \in 1 .. n + 1 <=> k \in 1 .. n \/ k = n + 1
  OBVIOUS
<1>2. n + 1 \notin 1 .. n
  OBVIOUS
<1> QED
  BY <1>1, <1>2 DEF Places

LEMMA PlacesFinite ==
  ASSUME NEW n \in Nat, NEW operation
  PROVE  IsFiniteSet(Places(operation, n)) /\ Cardinality(Places(operation, n)) \in Nat
<1>1. Places(operation, n) \in SUBSET (1 .. n)
  BY DEF Places
<1>2. IsFiniteSet(1 .. n)
  BY FS_Interval
<1> QED
  BY <1>1, <1>2, FS_Subset, FS_CardinalityType

LEMMA RankOf ==
  ASSUME NEW n \in Nat, NEW operation, NEW k \in Places(operation, n)
  PROVE  Cardinality(Places(operation, k)) \in 1 .. Cardinality(Places(operation, n))
<1>1. k \in 1 .. n /\ k \in Nat /\ staged[k].operation = operation
  BY DEF Places
<1>2. Places(operation, k) \subseteq Places(operation, n)
  BY <1>1 DEF Places
<1>3. k \in Places(operation, k)
  BY <1>1 DEF Places
<1>4. /\ Cardinality(Places(operation, k)) <= Cardinality(Places(operation, n))
      /\ Cardinality(Places(operation, k)) \in Nat /\ Cardinality(Places(operation, n)) \in Nat
  BY <1>1, <1>2, PlacesFinite, FS_Subset
<1>5. Cardinality(Places(operation, k)) # 0
  BY <1>1, <1>3, PlacesFinite, FS_EmptySet
<1> QED
  BY <1>4, <1>5

(* The registrar accepts the next registration. *)
LEMMA ReplayRegistering ==
  ASSUME Inv, Replay
  PROVE  Registering' /\ (Buses!TypeOK)'
<1> DEFINE p == replayed + 1
           r == staged[p]
<1>1. /\ replayed < Len(staged) /\ replayed' = p /\ Register(r)
      /\ staged' = staged /\ resolved' = resolved
  BY DEF Replay, orderVars
<1>2. /\ staged \in Seq(Registration) /\ replayed \in Nat /\ p \in DOMAIN staged /\ p \in Nat
      /\ r \in Registration /\ r.owner \in Extension
  BY <1>1 DEF Inv, Typed, Registration
<1>3. Registering /\ Staging /\ subscriptions \in Seq([type : EventType, owner : Extension]) /\ Buses!TypeOK
  BY DEF Inv, Typed, Buses!TypeOK
<1>4. \A operation, n : Places(operation, n)' = Places(operation, n')
  BY <1>1 DEF Places
<1>5. r.operation = "subscribe" => r.type \in EventType
  BY <1>2 DEF Registration
<1>6. r.operation = "handle" => r.type \in CommandType
  BY <1>2 DEF Registration
<1>7. \A k : k \in 1 .. p <=> k \in 1 .. replayed \/ k = p
  BY <1>2
<1>8. /\ r.operation = "subscribe" => /\ Places("subscribe", p) = Places("subscribe", replayed) \cup {p}
                                      /\ Places("handle", p) = Places("handle", replayed)
      /\ r.operation = "handle" => /\ Places("subscribe", p) = Places("subscribe", replayed)
                                   /\ Places("handle", p) = Places("handle", replayed) \cup {p}
      /\ p \notin Places("subscribe", replayed) /\ p \notin Places("handle", replayed)
  BY <1>2, OneMorePlace
<1>9. \A i \in DOMAIN subscriptions : NotBefore(subscriptions[i].owner, r.owner)
  <2> TAKE i \in DOMAIN subscriptions
  <2>1. PICK k \in 1 .. replayed : staged[k].owner = subscriptions[i].owner
    BY <1>3 DEF Registering
  <2>2. k \in DOMAIN staged /\ k <= p
    BY <1>1, <1>2
  <2>3. NotBefore(staged[k].owner, r.owner)
    BY <1>2, <1>3, <2>2 DEF Staging
  <2> QED
    BY <2>1, <2>3
<1>10. NotBefore(r.owner, r.owner)
  BY <1>2, <1>3 DEF Staging
<1> HIDE DEF p, r
<1>11. \A a, b : (\A m, n \in DOMAIN resolved' : resolved'[m] = a /\ resolved'[n] = b => m <= n) <=> NotBefore(a, b)
  BY <1>1 DEF NotBefore
<1>12. CASE r.operation = "subscribe"
  <2> DEFINE new == [type |-> r.type, owner |-> r.owner]
  <2>1. subscriptions' = Append(subscriptions, new) /\ bindings' = bindings
    BY <1>1, <1>12 DEF Register, Buses!Subscribe
  <2>2. new \in [type : EventType, owner : Extension] /\ new.owner = r.owner
    BY <1>2, <1>5, <1>12
  <2> HIDE DEF new
  <2>3. /\ subscriptions' \in Seq([type : EventType, owner : Extension])
        /\ Len(subscriptions) \in Nat /\ DOMAIN subscriptions = 1 .. Len(subscriptions)
        /\ Len(subscriptions') = Len(subscriptions) + 1
        /\ DOMAIN subscriptions' = 1 .. Len(subscriptions) + 1
        /\ subscriptions'[Len(subscriptions) + 1] = new
        /\ \A k \in 1 .. Len(subscriptions) : subscriptions'[k] = subscriptions[k]
    BY <1>3, <2>1, <2>2
  <2>4. \A k : k \in 1 .. Len(subscriptions) + 1 <=> k \in 1 .. Len(subscriptions) \/ k = Len(subscriptions) + 1
    BY <2>3
  <2>5. Cardinality(Places("subscribe", p)) = Cardinality(Places("subscribe", replayed)) + 1
    BY <1>2, <1>8, <1>12, PlacesFinite, FS_AddElement
  <2>6. Len(subscriptions) = Cardinality(Places("subscribe", replayed))
    BY <1>3 DEF Registering, Subscribed
  <2>7. ASSUME NEW k \in Places("subscribe", p)
        PROVE  subscriptions'[Cardinality(Places("subscribe", k))] = [type |-> staged[k].type, owner |-> staged[k].owner]
    <3>1. CASE k \in Places("subscribe", replayed)
      <4>1. Cardinality(Places("subscribe", k)) \in 1 .. Len(subscriptions)
        BY <1>2, <2>6, <3>1, RankOf
      <4>2. subscriptions[Cardinality(Places("subscribe", k))] = [type |-> staged[k].type, owner |-> staged[k].owner]
        BY <1>3, <3>1 DEF Registering, Subscribed
      <4> QED
        BY <2>3, <4>1, <4>2
    <3>2. CASE k = p
      BY <2>3, <2>5, <2>6, <3>2 DEF new, r
    <3> QED
      BY <1>8, <1>12, <3>1, <3>2
  <2>8. Subscribed(replayed)'
    BY <1>1, <1>4, <2>3, <2>5, <2>6, <2>7 DEF Subscribed, Places
  <2>9. ASSUME NEW i \in DOMAIN subscriptions'
        PROVE  \E k \in 1 .. p : staged[k].owner = subscriptions'[i].owner
    <3>1. CASE i \in 1 .. Len(subscriptions)
      BY <1>3, <1>7, <2>3, <3>1 DEF Registering
    <3>2. CASE i = Len(subscriptions) + 1
      BY <1>7, <2>2, <2>3, <3>2 DEF r
    <3> QED
      BY <2>3, <2>4, <3>1, <3>2
  <2>10. ASSUME NEW i \in DOMAIN subscriptions', NEW j \in DOMAIN subscriptions', i <= j
         PROVE  NotBefore(subscriptions'[i].owner, subscriptions'[j].owner)
    <3>1. CASE j \in 1 .. Len(subscriptions)
      <4>1. i \in 1 .. Len(subscriptions)
        BY <2>3, <2>4, <2>10, <3>1
      <4> QED
        BY <1>3, <2>3, <2>10, <3>1, <4>1 DEF Registering
    <3>2. CASE j = Len(subscriptions) + 1 /\ i \in 1 .. Len(subscriptions)
      BY <1>9, <2>2, <2>3, <3>2
    <3>3. CASE j = Len(subscriptions) + 1 /\ i = Len(subscriptions) + 1
      BY <1>10, <2>2, <2>3, <3>3
    <3> QED
      BY <2>3, <2>4, <3>1, <3>2, <3>3
  <2>11. /\ DOMAIN bindings = {staged[k].type : k \in Places("handle", p)}
         /\ \A k \in Places("handle", p) : bindings[staged[k].type] = staged[k].owner
         /\ \A j, k \in Places("handle", p) : staged[j].type = staged[k].type => j = k
    BY <1>3, <1>8, <1>12 DEF Registering
  <2>12. /\ DOMAIN bindings' = {staged'[k].type : k \in Places("handle", replayed)'}
         /\ \A k \in Places("handle", replayed)' : bindings'[staged'[k].type] = staged'[k].owner
         /\ \A j, k \in Places("handle", replayed)' : staged'[j].type = staged'[k].type => j = k
    BY <1>1, <2>1, <2>11 DEF Places
  <2>13. Registering'
    BY <1>1, <2>8, <2>9, <2>10, <2>12 DEF Registering, NotBefore
  <2> QED
    BY <1>3, <2>1, <2>3, <2>13 DEF Buses!TypeOK
<1>13. CASE r.operation = "handle"
  <2>1. /\ r.type \notin DOMAIN bindings
        /\ bindings' = [t \in DOMAIN bindings \cup {r.type} |-> IF t = r.type THEN r.owner ELSE bindings[t]]
        /\ subscriptions' = subscriptions
    BY <1>1, <1>13 DEF Register, Buses!Bind, Buses!IsBound
  <2>2. Subscribed(p)
    BY <1>3, <1>8, <1>13 DEF Registering, Subscribed
  <2>3. Subscribed(replayed)'
    BY <1>1, <2>1, <2>2 DEF Subscribed, Places
  <2>4. \A i \in DOMAIN subscriptions' : \E k \in 1 .. p : staged[k].owner = subscriptions'[i].owner
    BY <1>3, <1>7, <2>1 DEF Registering
  <2>5. \A i, j \in DOMAIN subscriptions' : i <= j => NotBefore(subscriptions'[i].owner, subscriptions'[j].owner)
    BY <1>3, <2>1 DEF Registering
  <2>6. DOMAIN bindings' = {staged[k].type : k \in Places("handle", p)}
    BY <1>3, <1>8, <1>13, <2>1 DEF Registering, r
  <2>7. ASSUME NEW k \in Places("handle", p) PROVE bindings'[staged[k].type] = staged[k].owner
    <3>1. CASE k \in Places("handle", replayed)
      <4>1. staged[k].type \in DOMAIN bindings /\ bindings[staged[k].type] = staged[k].owner
        BY <1>3, <3>1 DEF Registering
      <4> QED
        BY <2>1, <4>1
    <3>2. CASE k = p
      BY <2>1, <3>2 DEF r
    <3> QED
      BY <1>8, <1>13, <3>1, <3>2
  <2>8. \A j, k \in Places("handle", p) : staged[j].type = staged[k].type => j = k
    <3>1. \A k \in Places("handle", replayed) : staged[k].type # staged[p].type
      BY <1>3, <2>1 DEF Registering, r
    <3> QED
      BY <1>3, <1>8, <1>13, <3>1 DEF Registering
  <2>9. /\ DOMAIN bindings' = {staged'[k].type : k \in Places("handle", replayed)'}
        /\ \A k \in Places("handle", replayed)' : bindings'[staged'[k].type] = staged'[k].owner
        /\ \A j, k \in Places("handle", replayed)' : staged'[j].type = staged'[k].type => j = k
    BY <1>1, <2>6, <2>7, <2>8 DEF Places
  <2>10. Registering'
    BY <1>1, <2>3, <2>4, <2>5, <2>9 DEF Registering, NotBefore
  <2>11. (Buses!TypeOK)'
    BY <1>2, <1>3, <1>6, <1>13, <2>1 DEF Buses!TypeOK
  <2> QED
    BY <2>10, <2>11
<1> QED
  BY <1>1, <1>12, <1>13 DEF Register

LEMMA ReplayInv ==
  ASSUME Inv, Replay
  PROVE  Inv'
<1>1. /\ at = "replaying" /\ replayed < Len(staged) /\ replayed' = replayed + 1
      /\ UNCHANGED <<state, report, at, staged, resolved, requires, toInstall, installs, answer, sourceVars>>
      /\ orderVars' = orderVars /\ installVars' = installVars
  BY DEF Replay, orderVars, installVars, callVars
<1>2. SourceTyped' /\ Ordered' /\ Installing' /\ Staging'
  BY <1>1, Kept
<1>3. Registering' /\ (Buses!TypeOK)'
  BY ReplayRegistering
<1>4. Typed /\ Phases /\ Sourced /\ state = "created"
  BY <1>1 DEF Inv, Phases
<1>5. /\ (Source!Loaded)' = Source!Loaded /\ (Source!Failed)' = Source!Failed
      /\ \A n : Source!Required(n)' = Source!Required(n)
      /\ UNCHANGED <<given, taken, requiredById, entryPoints, names, extensions, failures, sourceAt>>
  BY <1>1 DEF sourceVars, Source!Loaded, Source!Range, Source!Failed, Source!Required
<1>6. replayed' \in 0 .. Len(staged')
  BY <1>1, <1>4 DEF Typed
<1>7. Typed'
  BY <1>1, <1>3, <1>4, <1>6 DEF Typed
<1>8. Phases'
  BY <1>1, <1>4, <1>5 DEF Phases
<1>9. Sourced'
  BY <1>1, <1>4, <1>5 DEF Sourced
<1> QED
  BY <1>2, <1>3, <1>7, <1>8, <1>9 DEF Inv

LEMMA NextInv == Inv /\ [Next]_vars => Inv'
<1> SUFFICES ASSUME Inv, [Next]_vars PROVE Inv'
  OBVIOUS
<1>1. CASE UNCHANGED vars
  <2>1. /\ UNCHANGED <<state, report, at, staged, replayed, resolved, requires, toInstall, installs, answer,
                       busVars, sourceVars, orderVars, installVars>>
    BY <1>1 DEF vars, orderVars, installVars, callVars
  <2>2. SourceTyped' /\ Ordered' /\ Installing' /\ Staging' /\ Registering' /\ (Buses!TypeOK)'
    BY <2>1, Kept
  <2>3. /\ (Source!Loaded)' = Source!Loaded /\ (Source!Failed)' = Source!Failed
        /\ \A n : Source!Required(n)' = Source!Required(n)
        /\ UNCHANGED <<given, taken, requiredById, entryPoints, names, extensions, failures, sourceAt>>
    BY <2>1 DEF sourceVars, Source!Loaded, Source!Range, Source!Failed, Source!Required
  <2>4. Typed'
    BY <2>1, <2>2, <2>3 DEF Inv, Typed
  <2>5. Phases'
    BY <2>1, <2>3 DEF Inv, Phases
  <2>6. Sourced'
    BY <2>1, <2>3 DEF Inv, Sourced
  <2> QED
    BY <2>2, <2>4, <2>5, <2>6 DEF Inv
<1>2. CASE Construct
  BY <1>2, ConstructInv
<1>3. CASE Start \/ StartAgain \/ Stop
  BY <1>3, StartInv, CallInv
<1>4. CASE LoadName \/ ApplyPolicy
  BY <1>4, LoadNameInv, ApplyPolicyInv
<1>5. CASE Resolve
  BY <1>5, ResolveInv
<1>6. CASE Install \/ InstallRaises
  BY <1>6, InstallInv, InstallRaisesInv
<1>7. CASE Installed \/ Started
  BY <1>7, ProgressInv
<1>8. CASE Replay
  BY <1>8, ReplayInv
<1>9. CASE LoadRaises \/ ResolveRaises \/ ReplayRaises
  BY <1>9, RaisesInv
<1> QED
  BY <1>1, <1>2, <1>3, <1>4, <1>5, <1>6, <1>7, <1>8, <1>9 DEF Next

-----------------------------------------------------------------------------
(* Inv is inductive: it holds of a host that has been constructed and       *)
(* every step of start() or stop() (extension_host.py:262-344) keeps it.   *)
THEOREM Invariance == Spec => []Inv
<1>1. Init => Inv
  BY InitInv
<1> QED
  BY <1>1, NextInv, PTL DEF Spec

(* When nothing is left to install, exactly the extensions resolved are installed. *)
LEMMA AllInstalled ==
  ASSUME Inv, toInstall = <<>>
  PROVE  \A e \in Extension : installs[e] = 1 <=> e \in Range(resolved)
<1>1. Len(resolved) \in Nat /\ DOMAIN resolved = 1 .. Len(resolved)
  BY DEF Inv, Typed
<1>2. Done = Len(resolved)
  BY <1>1 DEF Done
<1> QED
  BY <1>1, <1>2 DEF Inv, Installing, Range

(* The host's report exists exactly while it is started, what it still has  *)
(* to install is an end of the resolved order, and its lists, the source's *)
(* and the buses' hold what they should.                                   *)
THEOREM TypeCorrect == Spec => []TypeOK
<1>1. Inv => TypeOK
  <2> SUFFICES ASSUME Inv PROVE TypeOK
    OBVIOUS
  <2>1. SourceTyped /\ Typed /\ Sourced /\ Installing
    BY DEF Inv
  <2>2. Source!TypeOK
    BY <2>1 DEF SourceTyped, Sourced, Source!TypeOK
  <2>3. Source!Failed \in SUBSET Extension
    <3>1. \A k \in DOMAIN failures : failures[k] \in Source!Failure
      BY <2>1 DEF SourceTyped
    <3>2. \A f \in Source!Failure : f.name \in Extension
      BY DEF Source!Failure
    <3> QED
      BY <3>1, <3>2 DEF Source!Failed
  <2>4. IF state = "started" THEN report \in Report ELSE report = None
    BY <2>1, <2>3 DEF Typed, Report
  <2>5. \E n \in 0 .. Len(resolved) : toInstall = SubSeq(resolved, n + 1, Len(resolved))
    <3>1. /\ Len(resolved) \in Nat /\ Len(toInstall) \in Nat /\ Len(toInstall) <= Len(resolved)
          /\ resolved \in Seq(Extension) /\ toInstall \in Seq(Extension)
          /\ \A k \in 1 .. Len(toInstall) : toInstall[k] = resolved[Done + k]
      BY <2>1 DEF Typed, Installing
    <3>2. Done \in 0 .. Len(resolved) /\ Len(resolved) - Done = Len(toInstall)
      BY <3>1 DEF Done
    <3> HIDE DEF Done
    <3>3. /\ SubSeq(resolved, Done + 1, Len(resolved)) \in Seq(Extension)
          /\ Len(SubSeq(resolved, Done + 1, Len(resolved))) = Len(toInstall)
          /\ \A k \in 1 .. Len(toInstall) : SubSeq(resolved, Done + 1, Len(resolved))[k] = resolved[Done + k]
      BY <3>1, <3>2
    <3>4. toInstall = SubSeq(resolved, Done + 1, Len(resolved))
      BY <3>1, <3>3, SeqEqual
    <3> QED
      BY <3>2, <3>4
  <2>6. staged \in Seq([owner : Extension, operation : {"subscribe", "handle"}, type : CommandType \cup EventType])
    <3> DEFINE R == [owner : Extension, operation : {"subscribe", "handle"}, type : CommandType \cup EventType]
    <3>1. Registration \subseteq R
      BY DEF Registration
    <3>2. staged \in Seq(Registration)
      BY <2>1 DEF Typed
    <3> HIDE DEF R
    <3>3. staged \in Seq(R)
      BY <3>1, <3>2
    <3> QED
      BY <3>3 DEF R
  <2>7. installs \in [Extension -> Nat]
    BY <2>1 DEF Installing
  <2> QED
    BY <2>1, <2>2, <2>4, <2>5, <2>6, <2>7 DEF Typed, TypeOK
<1> QED
  BY <1>1, Invariance, PTL

(* The buses see the staged registrations only when every install() has     *)
(* returned, in the order they were staged, whatever fails on the way.     *)
THEOREM StagedFirstHolds == Spec => []StagedFirst
<1>1. Inv => StagedFirst
  <2> SUFFICES ASSUME Inv PROVE StagedFirst
    OBVIOUS
  <2>1. ASSUME replayed > 0
        PROVE  toInstall = <<>> /\ \A e \in Range(resolved) : installs[e] = 1
    <3>1. toInstall = <<>>
      BY <2>1 DEF Inv, Phases
    <3>2. Range(resolved) \in SUBSET Extension
      BY RangeOfSeq DEF Inv, Typed
    <3> QED
      BY <3>1, <3>2, AllInstalled
  <2> QED
    BY <2>1 DEF Inv, Registering, StagedFirst
<1> QED
  BY <1>1, Invariance, PTL

(* A host is started, or says so, only when the extensions it names are     *)
(* those that were installed, and every registration they staged,          *)
(* subscription or handler, has an entry of its own in a bus.              *)
THEOREM StartedCompleteHolds == Spec => []StartedComplete
<1>1. Inv => StartedComplete
  <2> SUFFICES ASSUME Inv, state = "started" \/ answer = "report"
               PROVE  /\ state = "started"
                      /\ Range(report.installed) = {e \in Extension : installs[e] = 1}
                      /\ Subscribed(Len(staged))
                      /\ DOMAIN bindings = {staged[k].type : k \in Places("handle", Len(staged))}
                      /\ \A j, k \in Places("handle", Len(staged)) : staged[j].type = staged[k].type => j = k
    BY DEF StartedComplete
  <2>1. state = "started" /\ toInstall = <<>> /\ replayed = Len(staged)
    BY DEF Inv, Phases
  <2>2. report.installed = resolved
    BY <2>1 DEF Inv, Typed
  <2>3. Range(resolved) \in SUBSET Extension
    BY RangeOfSeq DEF Inv, Typed
  <2>4. Range(resolved) = {e \in Extension : installs[e] = 1}
    BY <2>1, <2>3, AllInstalled
  <2>5. /\ Subscribed(Len(staged))
        /\ DOMAIN bindings = {staged[k].type : k \in Places("handle", Len(staged))}
        /\ \A j, k \in Places("handle", Len(staged)) : staged[j].type = staged[k].type => j = k
    BY <2>1 DEF Inv, Registering
  <2> QED
    BY <2>1, <2>2, <2>4, <2>5
<1> QED
  BY <1>1, Invariance, PTL

(* In a started host every command type that an extension staged a handler  *)
(* for is bound to that extension, the only one.                           *)
THEOREM RoutedToItsOwnerHolds == Spec => []RoutedToItsOwner
<1>1. Inv => RoutedToItsOwner
  <2> SUFFICES ASSUME Inv, state = "started", NEW k \in DOMAIN staged, staged[k].operation = "handle"
               PROVE  staged[k].type \in DOMAIN bindings /\ bindings[staged[k].type] = staged[k].owner
    BY DEF RoutedToItsOwner
  <2>1. replayed = Len(staged) /\ DOMAIN staged = 1 .. Len(staged)
    BY DEF Inv, Phases, Typed
  <2>2. k \in Places("handle", replayed)
    BY <2>1 DEF Places
  <2> QED
    BY <2>2 DEF Inv, Registering
<1> QED
  BY <1>1, Invariance, PTL

(* Whatever event is published, at any time, an extension reacts to it      *)
(* after all the extensions it requires.                                   *)
THEOREM DependenciesReactFirstHolds == Spec => []DependenciesReactFirst
<1>1. Inv => DependenciesReactFirst
  <2> SUFFICES ASSUME Inv, NEW event \in EventType,
                      NEW i \in Buses!Reactors(event), NEW j \in Buses!Reactors(event),
                      subscriptions[j].owner \in requires[subscriptions[i].owner]
               PROVE  j < i
    BY DEF DependenciesReactFirst
  <2>1. /\ i \in DOMAIN subscriptions /\ j \in DOMAIN subscriptions
        /\ subscriptions \in Seq([type : EventType, owner : Extension])
    BY DEF Buses!Reactors, Inv, Typed, Buses!TypeOK
  <2>2. i \in Nat /\ j \in Nat
    BY <2>1
  <2> SUFFICES ASSUME i <= j PROVE FALSE
    BY <2>2
  <2>3. NotBefore(subscriptions[i].owner, subscriptions[j].owner)
    BY <2>1 DEF Inv, Registering
  <2>4. PICK k \in 1 .. replayed : staged[k].owner = subscriptions[i].owner
    BY <2>1 DEF Inv, Registering
  <2>5. k \in DOMAIN staged
    BY DEF Inv, Typed
  <2>6. PICK n \in 1 .. Done : staged[k].owner = resolved[n]
    BY <2>5 DEF Inv, Staging
  <2>7. n \in DOMAIN resolved /\ n \in Nat /\ DOMAIN resolved = 1 .. Len(resolved) /\ Len(resolved) \in Nat
    <3>1. /\ Len(resolved) \in Nat /\ Len(toInstall) \in Nat /\ DOMAIN resolved = 1 .. Len(resolved)
          /\ Len(toInstall) <= Len(resolved)
      BY DEF Inv, Typed, Installing
    <3> QED
      BY <3>1 DEF Done
  <2>8. PICK m \in 1 .. n - 1 : resolved[m] = subscriptions[j].owner
    BY <2>4, <2>6, <2>7 DEF Inv, Ordered
  <2>9. m \in DOMAIN resolved /\ m < n
    BY <2>7
  <2>10. n <= m
    BY <2>3, <2>4, <2>6, <2>7, <2>8, <2>9 DEF NotBefore
  <2> QED
    BY <2>7, <2>9, <2>10
<1> QED
  BY <1>1, Invariance, PTL

(* A host that has started has installed every extension that any           *)
(* requirement called required, and has installed or reported every other  *)
(* one that was asked for or has an entry point.                           *)
THEOREM RequiredInstalledHolds == Spec => []RequiredInstalled
<1>1. Inv => RequiredInstalled
  <2> SUFFICES ASSUME Inv, state = "started" PROVE RequiredInstalled
    BY DEF RequiredInstalled
  <2>1. report.installed = resolved /\ report.skipped = Source!Failed
    BY DEF Inv, Typed
  <2>2. /\ Source!Loaded \subseteq Range(resolved) /\ names = {} /\ taken = Len(given)
        /\ \A k \in DOMAIN failures : ~ failures[k].required
        /\ \A k \in DOMAIN failures : failures[k].required = Source!Required(failures[k].name)
    BY DEF Inv, Sourced
  <2>3. /\ Source!Loaded \cup Source!Failed = {n \in Extension : entryPoints[n] > 0} \cup DOMAIN requiredById
        /\ DOMAIN requiredById = {given[j].id : j \in DOMAIN given}
    <3>1. DOMAIN given = 1 .. Len(given)
      BY DEF Inv, SourceTyped
    <3>2. names \cup Source!Loaded \cup Source!Failed = {n \in Extension : entryPoints[n] > 0} \cup DOMAIN requiredById
      BY DEF Inv, Sourced
    <3>3. DOMAIN requiredById = {given[j].id : j \in 1 .. taken}
      BY DEF Inv, Sourced
    <3> QED
      BY <2>2, <3>1, <3>2, <3>3
  <2>4. ASSUME NEW j \in DOMAIN given, given[j].required
        PROVE  given[j].id \in Range(resolved)
    <3>1. given[j].id \in DOMAIN requiredById
      BY <2>3
    <3>2. requiredById[given[j].id]
      <4>1. j \in 1 .. taken
        BY <2>2 DEF Inv, SourceTyped
      <4>2. \A i \in 1 .. taken : given[i].required => requiredById[given[i].id]
        BY Zenon DEF Inv, Sourced
      <4> QED
        BY <2>4, <4>1, <4>2, Zenon
    <3>3. given[j].id \notin Source!Failed
      <4>1. SUFFICES ASSUME NEW k \in DOMAIN failures, failures[k].name = given[j].id PROVE FALSE
        BY DEF Source!Failed
      <4>2. Source!Required(failures[k].name)
        BY <3>1, <3>2, <4>1, Zenon DEF Source!Required
      <4> QED
        BY <2>2, <4>2, Zenon
    <3> QED
      BY <2>2, <2>3, <3>1, <3>3
  <2> QED
    BY <2>1, <2>2, <2>3, <2>4 DEF RequiredInstalled
<1> QED
  BY <1>1, Invariance, PTL

(* No sequence of start() and stop() calls installs an extension twice. *)
THEOREM InstallOnceHolds == Spec => []InstallOnce
<1>1. Inv => InstallOnce
  BY DEF Inv, Installing, InstallOnce
<1> QED
  BY <1>1, Invariance, PTL

=============================================================================
