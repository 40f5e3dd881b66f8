# A TLA+ model of the Better Agent kernel

This directory holds a TLA+ model of the kernel in `src/src/better_agent/kernel`:
its scheduler, its command bus, its runtime pump, its harness and its extension
host. TLC checks the modules on small instances; TLAPS proves theorems about
them for every value of their constants.

Paths below are relative to the kernel directory unless they start with `src/`.

## 1. The system

### Components

| component | state | operations | interacts with |
|---|---|---|---|
| `CapabilityScheduler` (`scheduler.py`) | `_pending` deque, `_active` list of tickets | `admit(claims)`: enter, wait, leave | awaited by every dispatch stream |
| `InMemoryCommandBus` (`runtime.py`) | bindings by command type | `bind`, `dispatch` | `dispatch` returns a lazy stream: an admission around the handler's own stream |
| `InMemoryEventBus` (`runtime.py`) | list of subscriptions | `subscribe`, `publish` | `publish` runs reactions, which return commands |
| `RuntimePump` (`runtime.py`) | per run: `inbox`, `control`, `active_tasks`, `pending_events`, `steps`, supervisor task and its error | `run_envelope`: drains, `supervise`, `next_event`, `send_control`, closing | iterates dispatch streams, calls `publish`, yields to the harness |
| `Harness`, `RunLifecycle` (`harness.py`, `lifecycle.py`) | `_active_runs`, per run a lifecycle and a cancel flag | `run`, `cancel`, `_commit` | reads the pump, dispatches `CommitRunOutcome`, yields to the consumer |
| `TopologicalExtensionResolver` (`extensions.py`) | none (one call) | `resolve` | called by the host |
| `EntryPointExtensionSource`, `StaticExtensionSource` (`extension_host.py`) | required ids | `load` | called by the host |
| `DefaultExtensionHost` (`extension_host.py`) | `_state`, `_report` | `start`, `stop` | sources, resolver, `install()`, the real registrar |
| `DefaultEnvelopeFactory`, contracts, errors, `model.py`, `cli.py` | none that changes | construction and validation | everything |

A run goes: consumer pulls `Harness.run` → `RuntimePump.run_envelope` → a drain
per command → `dispatch` → `admit` → the handler. Events come back through
`inbox`; the pump publishes each one, sends the commands that reactions produce
to the supervisor through `control`, acknowledges the event and yields it. When
the work is over the harness selects an outcome and commits it by dispatching
`CommitRunOutcome` to a finalization handler.

### What is hard

Everything runs on one asyncio loop, so interleaving happens only at
suspension points; but there are many, and each one is also a place where a
task can be cancelled. Hard are: cancellation racing a grant (`scheduler.py:48`);
the two-counter decision that a run is over (`runtime.py:248`); bounded queues in
both directions between three kinds of task; tasks that outlive what they serve;
generators abandoned at a `yield`; runs that hold each other up through the
scheduler they share; a cancellation racing the read it interrupts
(`harness.py:231`); cleanup code that can itself be cancelled; and composition
that fails half-way (`extension_host.py:302`). `PROJECT.json` lists each hazard
at its line, with the properties that watch it.

### What makes each component correct

- scheduler: conflicting operations never overlap, conflicts are served in order
  of arrival, nobody waits without a reason or for ever, no claim is leaked;
- dispatch: one admission per stream, given back exactly once, however the stream
  ends, and covering all of the handler's code;
- pump: ends exactly when nothing is left to do, loses no event or error, starts
  no more commands than its budget, keeps the order of events, never blocks on
  its own queues, leaves no task behind;
- concurrent runs: one run waits for another only where claims clash, and one
  that is closed keeps nothing from the others;
- harness: the promised order of lifecycle events; a terminal event only after a
  commit; a commit only after the work; cancellation that takes effect; a
  registry that forgets every run;
- extensions: a deterministic least topological order, the right error, all or
  nothing installed, one installation per host, every command routed to its one
  handler, reactions in dependency order.

## 2. Modules

| module | models | abstraction |
|---|---|---|
| `CapabilityScheduler` | `scheduler.py:12-59,61-84` | one action per stretch of code between suspensions; the deque is a set with an order of arrival; `_schedule_ready` is one closed-form step |
| `ScheduleLoop`, extends it | `scheduler.py:61-84`, the loop itself | a recursive function of deque and admitted tickets |
| `CommandDispatch` | `runtime.py:118-137`, composed with `CapabilityScheduler` by INSTANCE | the handler's events are not told apart |
| `ConcurrentRuns`, extends it | several runs over one command bus: `runtime.py:192-217,309-325`, `harness.py:72-88,127-142,198-202,241-281` | a run is the fill of its inbox and how its consumer leaves it; its supervisor and counters are `RuntimePump`'s |
| `WorkGraph` | abstract: what a `RunPump` promises (`contracts.py:134`) | no queue, task or counter |
| `RuntimePump` | `runtime.py:140-329` | queues hold the kind of a message, events are (drain, number); dispatch is "a handler that yields, ends, fails or catches cancellation" |
| `RunProtocol` | abstract: what a consumer of `Harness.run` is promised | kinds of events |
| `Harness` | `harness.py`, `lifecycle.py` | the pump and the finalization handler are taken by their contracts |
| `ActivationOrder` | the order the resolver promises, as a function of the graph | |
| `ExtensionResolver` | `extensions.py:73-161` | ids are numbers, only their order matters |
| `MessageBuses` | `runtime.py:76-116`: what the two buses keep, and who reacts to an event | a handler is its owner |
| `EntryPointSource` | `extension_host.py:53-196`: the constructor and `load` | loading an entry point goes one of six ways; its actions are composed by the host |
| `ExtensionHost` | `extension_host.py:207-344`, composed with `EntryPointSource` and `MessageBuses` by INSTANCE | the resolver is `ActivationOrder`; a registration is its owner, operation and type |
| `CapabilitySchedulerProofs` | theorems about `CapabilityScheduler` | |
| `ScheduleLoopProofs`, extends it | the loop of `_schedule_ready` computes the closed form | |
| `CommandDispatchProofs` | theorems about `CommandDispatch` and `ConcurrentRuns`, by instantiating those about the scheduler | |
| `RuntimePumpProofs` | theorems about `RuntimePump`, its refinement of `WorkGraph` included | |
| `HarnessProofs` | theorems about `Harness`, its refinement of `RunProtocol` included | |
| `ActivationOrderProofs` | lemmas about the promised order, for the next two modules | |
| `ExtensionResolverProofs` | theorems about `ExtensionResolver` | |
| `ExtensionHostProofs` | theorems about `ExtensionHost`, with its source and buses | |
| `MCCapabilityScheduler`, `MCCommandDispatch`, `MCConcurrentRuns`, `MCExtensionHost` | the instances TLC checks: claims, clashes, who runs what, subclasses of events | |

Operators whose comment begins with "Mutant" are wrong on purpose: each replaces
one definition of the model the way a plausible bug would, and the property it
is listed with in `PROJECT.json` must then fail. They are not part of `Next`.

### How state and actions correspond to the code

*Atomic steps.* A coroutine is interrupted only where it really suspends. No
critical section of `self._lock` or `state_lock` contains an `await`, so acquiring
these locks never suspends and each section is part of the step around it.
`await ticket.granted` on a future that is done does not suspend either; that is
why `Enter` can go straight to `"body"`. The order in which the loop runs ready
tasks is not modelled: any task that can go on may go next. The models therefore
allow some schedules that CPython's FIFO loop would not produce.

*Cancellation* of a task is a step of its own: of the future it waits for when
that is still pending, otherwise a mark that surfaces when the task resumes
(`CancelWaiting`, `mustCancel`). In the pump, `cancel` goes from `"no"` to
`"sent"` (the TaskGroup's `abort`) to `"caught"` (the handler swallowed it).

*asyncio* is modelled by its contracts: a blocked `put` may complete when there is
room, in competition with puts that did not have to wait; a `TaskGroup` cancels
its children and its parent on the first error and returns when they are gone;
closing an async generator resumes it at its `yield` with `GeneratorExit`; a
generator that becomes unreachable is closed by the loop's hook in a new task.

*`CapabilityScheduler`*: `pending`, `active` are `_pending`, `_active`; `granted` is
the future; `arrival` stands for the positions in the deque, which only grows at
its right end. `Enter`, `Resume`, `Withdraw`, `Exit` are the parts of `admission()`
between its suspensions; `Leave` is its finally block.

*`CommandDispatch`*: `at` is where a dispatch stream stands, its scheduler part is
the instance. An abandoned stream goes through `CloseStream` (the hook throws
`GeneratorExit` into `stream()`, which leaves the admission) and `CloseHandler`
(the handler loses its last reference only then).

*`ConcurrentRuns`* feeds the dispatch streams back to their runs. `inbox` counts
the events in the inbox of each run; a drain asks its stream for the next event
(`AskNext`) in the step in which its put completes (`PutEvent`), and the stream of
the run takes an event (`Take`) only while its consumer pulls. `run` says how the
consumer leaves a run: `"stalled"` is a consumer that neither pulls nor closes;
`"ended"` a run whose work is closed, because it is over, failed or was cancelled
with `Harness.cancel`; `"dropped"` one whose generator was closed. The dispatches in
`Commit` are those of `Harness._commit`, which waits for an admission on the same
scheduler and iterates its stream itself.

*`RuntimePump`*: `inbox`, `control`, `pendingEvents`, `activeTasks`, `steps` have the
code's names. `drain`, `supervisor`, `stream` are the program counters of the three
kinds of task; `send_control` and `next_event` are `SendStart`/`SendAck`/
`SendRefused` and `NextEvent`/`StreamStops`, their races with `supervisor_done` being
decided as the code does: a put or get that has completed wins. `cause` keeps, for
each command produced, the event that produced it, in the order of production.
Control messages are taken in that order too, so the n-th command started is the
n-th produced, and drains need no other identity.

*`WorkGraph`* has no pump in it: commands start in the order of their production
and at most `limit` of them, events of a command are reacted to in the order they
were emitted, one at a time, after their cause was shown, and shown afterwards;
the stream finishes only when all of this is done, raises only if a handler or a
reaction raised or a command is left over for which the budget does not suffice,
and leaves only when no handler is running. A stream that is closed may lose one
event it has just taken (`next_event` cancels a `get` that has completed), and then
does nothing but leave. `RuntimePump` refines it with `started`
being `steps`, `running` the drains whose handler has not been left, `reacting` the
event between `next_event` and its acknowledgement.

*`Harness`*: `at` is the generator's position; `read` is `first_event_task`, then the
`next_task` of `_primary_events`; `cancelLate` says that the cancellation arrived
between the moment the read finished and the moment the generator woke up, when
`asyncio.wait` had already returned its `done` set.

*Extensions*: `start()` and `load()` suspend nowhere; their actions are the calls
into code that can fail. In `ExtensionHost`, `at` is where `start()` is, and `Source`
the entry point source with its own control point `sourceAt`; the static source is
the set of ids that `Resolve` adds. `staged` is the list of the staging registrars,
`replayed` how much of it the real registrar has accepted. The repository has no
registrar but one in its tests that records what it is given; `Register` is the one
whose `subscribe` and `handle` are the `subscribe` and `bind` of the two buses
(`MessageBuses`), and it is marked external. `requires` and `resolved` are
what the resolver was given and returned; `toInstall` is the rest of the loop over
it. Exceptions outside `Exception` (`KeyboardInterrupt`, `SystemExit`), which leave a
host in its `created` state, are not modelled.

## 3. Runs

Times are seconds to a minute or two on two cores.

| run | bounds | what it shows |
|---|---|---|
| `scheduler` | 3 tickets, 2 keys, 5 claims (two reads, two writes, exclusive) | `Exclusion`, `ConflictFIFO`, `NoLostWakeup`, `NoLeak`, `NoStarvation`; `LoopReturnsThat`: the loop computes the closed form at every call |
| `dispatch` | 3 dispatches over one key | `OpenStreamsExclude`, `WaitsForAStream` |
| `concurrent_runs` | 2 runs of one dispatch each and the commit of a third, inboxes of 1, two assignments of claims over 2 keys | `StallContained`, `CloseReleases` |
| `pump` | queues of 1, 3 commands of 1 event, limits 2 and 3, handlers that emit after cancellation | `CountersExact`, `QuiescentStop`, refinement `ImplementsWorkGraph` |
| `pump_live` | queues of 1, 2 commands of 2 events, limits 1 and 2 | `RunEnds`, `CleanupEnds`, no deadlock, `ImplementsWorkGraph` with more than one event per command |
| `harness` | 3 primary events | refinement `ImplementsProtocol`; `CommitAfterWork`, `CancelPrompt`, `CancelDecides`, `CancelEnds`, `WorkCleanedUp` |
| `resolver` | all graphs over 3 ids | `LeastTopologicalOrder`, `RightVerdict`, `CycleIsReal`, `NoDeadEnd` |
| `host` | 2 extensions, up to 2 entry points each, 2 requirements, 2 registrations each of a command type or of two event types, one a subclass of the other, 3 calls | `StagedFirst`, `StartedComplete`, `RoutedToItsOwner`, `DependenciesReactFirst`, `RequiredInstalled`, `InstallOnce` |
| `dispatch_cover`, `pump_hang`, `harness_forgotten`, `host_atomic` | as above (`pump_hang`: one command of 2 events) | what the code does against what it says: section 6 |

*Why the bounds are enough.* The safety properties are proved for all bounds (section 5); the
instances found the invariants, and decide the liveness properties. Three tickets are an admitted one, one that it blocks
and one that overtakes or is blocked by the blocked one; the five claims contain
every relation `_conflicts` can tell apart. An instance of four, up to symmetry, was
checked once for the safety invariants (161 200 states). In `concurrent_runs` the claims are
`{x}`, `{x, y}` and, for the commit, `{x}` or `{y}`: the commit waits directly for a
stuck handler, or for a dispatch that waits for it; a chain of two is reached, a
longer one repeats it. Queues of one slot make every put of
either queue block. Three commands suffice for a failing drain, a drain that is
cancelled with its put blocked and one still to be started; two events per command
would add nothing but states to the counters (they were checked once: 9.8 million
states, no error), and what they add to the order of events `pump_live` checks.
Limits of 2 and 3 let the budget run out or not. In `pump_live`
two drains that both have more to emit than there is room block each other and the
stream; three commands of one event with a limit of 3 were checked once (946 053
states). The primary events of a run are interchangeable, and the third does
nothing the second did not. Three ids
give every shape of cycle, with and without a tail leading to it. Two extensions
and two requirements give contradictory requirements for one id, two entry points
of one name, one extension in both sources, a requirement against the lexical
order, two bindings of one command and a replay that fails between two
owners; three calls give every pair of host states that follow one another.

`CHECK_DEADLOCK FALSE` is set where a system may stop: the host's runs stop when
their calls have returned, concurrent runs stop when every consumer has stalled or
gone, and the pump with `EmitsAfterCancel` can hang (section 6). `pump_live` checks
deadlock with handlers that do not emit after cancellation: there is none.
`ExtensionResolver` and `Harness` stutter at their end, so their runs check
deadlock too.

## 4. Fairness

- `CapabilityScheduler!Fairness`: weak fairness of `Resume`, `Withdraw`, `Exit` per
  ticket. The loop runs every scheduled callback; that bodies end is an assumption
  about handlers. Nothing forces a ticket to enter or to be cancelled.
- `ConcurrentRuns!RunsFairness`: weak fairness of whatever the loop does next with the
  task of a dispatch, the closing of unreachable generators by the interpreter's
  hook included (CPython does it at the moment the last reference goes); weak
  fairness of `Take`, which is enabled only for a consumer that pulls; strong
  fairness of the end of a handler, which can be asked for events again and again
  before it ends. Consumers are free to stall, to close or to pull for ever.
- `RuntimePump!LoopFairness`: every drain that can continue does, per task; the
  supervisor and the stream do; handlers end. `PullingSpec` adds a consumer that
  keeps pulling, for `RunEnds`. A reaction's failure and the consumer's closing
  are never forced.
- `Harness!PullingSpec`: the consumer pulls and the generator wakes up when what it
  awaits has happened. Of the reads nothing is assumed: a handler need never yield
  or return by itself, which is what makes `CancelEnds` worth stating. But closing
  the work is one of the steps that happen, and it waits for the handlers
  (`runtime.py:329`): `CancelEnds` and `WorkCleanedUp` hold of handlers that obey
  their own cancellation. `pump_hang` shows one that does not, and with it neither
  the closing nor the end of a cancelled run is reached. `WorkCleanedUp` also takes
  the interpreter's closing of the generator that an interrupted run leaves behind.
- `CommandDispatch`, `ExtensionResolver` and `ExtensionHost` have only safety
  properties and no fairness.

## 5. What is proved

TLAPS checks every safety invariant, every action property and every refinement that
a passing run of section 3 checks, for all values of the constants that satisfy the
assumptions named below. The assumptions say what the code's own types and checks say
(a queue has room for one message, a budget is positive, ids are finitely many) and
nothing about schedules or inputs. Every proof has the same frame: an inductive
invariant `Inv`, one lemma per action that it is kept, and the property from `Inv`.

**`CapabilitySchedulerProofs`**, from `ClaimsAssumption`, for any sets of tickets, keys
and claims: `TypeCorrect`, `ExclusionHolds`, `ConflictFIFOHolds`, `NoLostWakeupHolds`,
`NoLeakHolds`.

`Inv` adds to these properties what the code never says. `Stamps`:
tickets arrive at different times, and one that has not come has no stamp.
`Places`: a body runs, and a wakened task resumes, only while its ticket is in
`_active`; a queued ticket's task is waiting; an active one's waits or runs.
`Lists`: a queued future is not done, an admitted one is. `Compatible` and `FIFO` are
`Exclusion` and `ConflictFIFO` said of the lists instead of the tasks, for as they
stand they are not inductive: they say nothing of a granted task that has not woken
up. The argument has one centre, `ScheduleReadyKeeps`: from any queue and admitted
set that are consistent (`CanSchedule`), `_schedule_ready` leaves queue, admitted set
and futures consistent, with every live ticket that is left in the queue blocked by
an admitted or an older queued one. `Enter` and `Leave` (hence `Withdraw` and `Exit`)
establish its hypotheses; `Resume` and `CancelWaiting` touch no list. The symmetry
of `Conflicts`, used throughout, follows from its definition.

**`ScheduleLoopProofs`**, from the same assumption: `LoopReturnsThatHolds`, for a queue
of any length. All the proofs about the scheduler take `_schedule_ready` as one step
with a closed form; this theorem is what entitles them to it. A deque is the listing
of its tickets by their stamps, and the only one (`DequeIs`); one grant leaves the
readiness of all other tickets as it was (`GrantKeepsReady`), because a ticket that
becomes admitted blocked younger tickets in the queue already and clashed with no
older one; so the restarting scan grants exactly the tickets that were ready when it
began (`LoopGrants`). The set of tickets may be infinite, so `Inv` is strengthened by
`Listed`: the queue is always finite enough to be listed.

**`CommandDispatchProofs`**, from `DispatchAssumption`: `TypeCorrect`,
`OpenStreamsExcludeHolds` and `WaitsForAStreamHolds`. Its invariant is the scheduler's,
taken over by instantiating `CapabilitySchedulerProofs` rather than proved again, and
`Places`: where a stream stands fixes where its dispatch stands in the scheduler. That
is the half that no code states: an open stream is admitted, one that was closed has
left, whichever of its ends came first. With it, what the scheduler says of tickets
(`Exclusion`, `NoLostWakeup`) becomes what a dispatch sees of other streams: none that
conflicts is open beside it, and none that is gone keeps it waiting. That the streams
take only steps of the scheduler is a lemma there and not a result: the model composes
them that way. From `RunsAssumption` and `InboxAssumption` the last section takes both to
`ConcurrentRuns`, for any number of runs (`RunsExclude`, `RunsWaitForAStream`), and proves
that no inbox overflows (`RunsTypeCorrect`).

**`RuntimePumpProofs`**, from `SizeAssumption`, `LimitsAssumption`, `BoundsAssumption` and
`EmitsAssumption`, for queues of any size, any budgets, any number of commands and of
events per command, handlers that emit after cancellation included:

- `CountersAreExact`: `pending_events` is what it stands for in every state, and
  `active_tasks` until the supervisor stops;
- `StopsWhenQuiescent`: the supervisor ends a run on its own only when nothing is left
  that could add to it;
- `NeverStoppedWithoutError`: the error "runtime supervisor stopped before accepting
  control" is never raised (no run checks this one);
- `PumpImplementsWorkGraph`: the refinement of `WorkGraph`.

`CountersExact` and `QuiescentStop` are not inductive. `Inv` adds `Ownership` (drains and
supervisor: no drain is cancelled before the run is broken, a live drain belongs to
the supervisor's group), `Commands` (every command produced is started, still to be sent
or on its way, and was caused by the event being handled or one that has been handed
out), `Streaming` (the
generator and the event in its hands), `Order` (the inbox holds, for each command, the
consecutive events from the last one taken to the last one put, but for one whose put
was cancelled), `Faults` (each recorded error has its reason) and `Quiet`, which carries
quiescence on to the end of the supervisor. The refinement needs all of them: a
`"finish"` of the abstract graph demands that every produced command has run and every
event was shown, and the pump knows of neither but through its two counters.

**`HarnessProofs`**, from `BoundAssumption`, for any number of primary events:
`TypeCorrect`, `CommitAfterWorkHolds`, `CancelPromptHolds`, `CancelDecidesHolds`
and `RunImplementsProtocol`, the refinement of `RunProtocol`, whose variables are `Harness`'s of the same names.

The refinement needs an invariant because the generator keeps no record of what it
has handed out: `Shown` ties each of its suspension points to the last event shown,
the lifecycle and the outcome, so that for example the terminal event follows
exactly one observed event of the finalization handler. `Worked` says where the
primary work is known to be over; `Cancelled` bounds what can follow an accepted
cancellation. `TypeOK` includes that the lifecycle stands, at each suspension, where
the next transition starts: `RunLifecycle.transition` never refuses one.

**`ActivationOrderProofs`**: `LeastOrderRespects`, for every finite graph, with the lemmas
that the recursion of `LeastOrder` has a solution and what it returns.

**`ExtensionResolverProofs`**, from `IdAssumption`, for every finite set of ids:
`TypeCorrect`, `RightVerdictHolds`, `CycleIsRealHolds`, `NoDeadEndHolds`,
`LeastTopologicalOrderHolds`. `Inv` has a part per phase. `Kahn`: the ids placed are
closed under requirements, `remaining` and the heap are functions of them, and no
member of a tangled set (each of whose ids requires another of it) is ever placed.
So when the heap runs dry, either all is placed or what is left is tangled, which is
why an id of it can always be followed (`NoDeadEnd`). `Searching`: the path repeats
nothing and follows requirements, so the first id that recurs closes a real cycle.
For the order, `Following` says that what has been placed, followed by what `LeastOrder`
makes of the rest, is `LeastOrder` of the whole at every step.

**`ExtensionHostProofs`**, from `ExtensionAssumption`, `TypesAssumption` and
`BoundsAssumption`: `TypeCorrect`, `StagedFirstHolds`, `StartedCompleteHolds`,
`RoutedToItsOwnerHolds`, `DependenciesReactFirstHolds`, `RequiredInstalledHolds`,
`InstallOnceHolds`. `Inv` says, besides the types, what each phase of `start()` has not
touched (`Phases`), that the source has accounted for every name (`Sourced`), that the
order respects the requirements (`Ordered`, by `LeastOrderRespects`), how far through it
`install()` has come (`Installing`), that staged registrations follow it (`Staging`) and
that the buses hold exactly the ones replayed, each in its own place (`Registering`):
no command type is among them twice, as `bind` would have refused the second, which is
why `StartedCompleteHolds` can say so of all that was staged. That extensions react in
the order of their dependencies is a chain of three orders, of which each must keep the
one before: resolved, staged, subscribed.

*Induction over data.* What a recursive definition computes for every input
(`LeastOrder`, the loop and its filter) is proved without an induction theorem: the
measures of the inputs for which a claim fails form a set of numbers, which has a
least element unless it is empty, and the unfolding of the definition contradicts it.
That the recursive definitions have solutions at all is proved first, in the same way.

*Only model-checked*: the liveness properties `NoStarvation`, `StallContained`,
`CloseReleases`, `RunEnds`, `CleanupEnds`, `CancelEnds`, `WorkCleanedUp`, as the prover handles neither
fairness nor `ENABLED`; the absence of deadlock; and the counterexamples of section 6,
which need one instance and no proof.

## 6. Where the code and what it says disagree

1. `dispatch_cover`: the command bus promises one admission over a handler's full
   lifetime. The cleanup of a handler whose stream was abandoned runs after its
   claims were given back, next to conflicting commands.
2. `pump_hang`: a handler that catches its cancellation and yields once more
   blocks on a full inbox that nobody reads; closing the stream, and so cleanup
   of the run, never ends.
3. `harness_forgotten`: a consumer cancelled while `Harness.run` is cleaning up
   leaves its run in `_active_runs`.
4. `host_atomic`: replaying registrations is not atomic.

Two observations are no disagreement but worth knowing. Events of one command are
reacted to in order (`ImplementsWorkGraph`); a put that had to wait competes with
later ones, so with a full inbox events of different commands can reach the
reactions out of the order of their emission.
`src/tests/test_runtime_pump.py` tests an order of events for commands whose puts
never wait. And a consumer that neither pulls nor closes its run holds up
others: a handler of that run waits at `inbox.put` with its claims held, commands
that clash with them wait, and so do commands and commits that clash only with
those, as conflict FIFO demands. `Harness.cancel` does not help, for the harness
notices a cancellation only when it is pulled; closing the stream does.
`StallContained` says that nothing else holds anybody up, `CloseReleases` that a run
that is closed holds nothing.

## 7. Not modelled

- `DefaultEnvelopeFactory`: ids are random and taken to be unique, which is why one
  run in `Harness` is enough. Of the trace metadata only causation is kept, in
  `RuntimePump`; correlation ids and origins are copied from the cause.
- The look-up of a binding by `dispatch`: a command without one is a handler that
  raises at once.
- `model.py`: immutable records that validate their fields.
- `InlineExecutionScheduler`, a test double that admits everything.
- Contracts, errors and `cli.py`, which do nothing of their own. What other modules
  tell apart of them (kinds of errors, failures, outcomes and events) is mapped.

## 8. Plan

Order of work: the scheduler, as everything is admitted by it; the pump, whose
termination decision is the most delicate code of the kernel; dispatch over the
scheduler; the harness against an abstract protocol; the extension modules; the
abstract work graph of the pump, runs that share a scheduler, and the host over
the buses; then the proofs of all their safety properties and refinements. That much
is done. What is left to think about:

1. `ExtensionHost` takes the resolver as `ActivationOrder`. `LeastTopologicalOrderHolds`
   and `RightVerdictHolds` say that `ExtensionResolver` returns what the host takes it
   to return; a theorem that joins the two would name both.
2. `Harness` takes the pump by its contract: events, then an end or an error.
   `PumpImplementsWorkGraph` says when the pump may finish or raise; a module that
   composes `Harness` with `WorkGraph` would say of both together what `CommitAfterWork`
   says of `Harness` alone, that a completed run has run every command.
