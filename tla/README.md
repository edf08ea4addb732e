# A formal model of the ai.assistant ecosystem

TLA+ models of the runtime of `src/ecosystem/sources`, model-checked with TLC,
with theorems about them checked by TLAPS. The definitions are translations of
the TypeScript sources; `PROJECT.json` gives the lines each of them stands for.
The charters under `src/ecosystem/charter` say what the sources promise, and
where a promise and the code disagree a configuration kept beside the runs shows how.

Paths below are relative to `src/ecosystem/sources`, without the two package
directories: `Executable.ts` is `executable/executable/src/classes/Executable.ts`.

## The system

Everything is one JavaScript process: code between two `await`s runs without
interruption, and everything else may come between. There is no persistence and
no network in the sources, so there are no crashes and no lost messages. What is
hard is the interleaving of asynchronous operations, callbacks that throw, and
state that is checked, awaited over, and used.

| Component | Keeps | Does | Talks to |
| --- | --- | --- | --- |
| Executable (`Executable.ts`) | a status, four slots for transitions in flight, a telemetry scope, two containers, a kernel runner, a parent | `initialize`, `activate`, `deactivate`, `dispose` | awaits callbacks and hooks; disposes what it owns; emits `executable:*` |
| Activity (`Activity.ts`) | parent, children, mode, input, responder | recursive `dispose` with `cleanup`, `executeHandler` | is an executable; is listed by its parent, its intent and the registry |
| ActivityResponder (`ActivityResponder.ts`) | mode, completeness, a promise or a buffer with a queue of waiters | `success`, `error`, `cancelled`, `send`, `complete`, `dispose`, `next` of its iterators | the handler writes, consumers read, the activity disposes |
| IntentRegistry (`IntentRegistry.ts`, `Intent.ts`) | intents, templates, root activities | `register`, `resolve`, `require`, `invoke` and their variants for all matches | plugin hooks to resolve and disambiguate; launches activities |
| Application (`Application.ts`) | a registry and a plugin container | lifecycle of the whole | is an executable |
| ServiceContainer (`ServiceContainer.ts`) | bindings with cached values, resolution order, parent | `set` and its variants, `get`, `ensure`, `fork`, `freeze`, `dispose` | calls factories and disposers; a fork reads its parent's bindings live |
| PluginContainer (`PluginContainer.ts`) | entries in order, direct scopes, deferred removals | membership, seven strategies to run a hook, `fork`, `dispose` | owns one runner per plugin |
| PluginRunner (`PluginRunner.ts`, `PluginContext.ts`, `PluginDirectExecutor.ts`) | hooks, a cache with times to live | `trigger`, `triggerSync`, prepared calls | calls the plugin, classifies what it throws |
| EventEmitter (`EventEmitter.ts`, `Event.ts`) | listeners by pattern, a parent | `on`, `once`, `off`, `emit`, `addChild`, `removeChild` | everything above is an emitter; events bubble |
| Telemetry (`Telemetry.ts`) | buffers, timers, children | `log`, `measure`, `flush`, `fork`, `dispose` | every lifecycle transition runs inside one of its timers |
| Errors, validation, helpers | nothing | values and pure functions | used by all of the above |
| RPC | nothing in the sources | contracts and a test scheduler | - |

### What is hard, and what makes each part correct

*Executable.* Any of the four methods may be called at any moment, also while
others are in flight. Each transition first awaits the ones it finds in the
slots, then looks at the status again. Correct means: phases never overlap, the
waits never form a circle, a busy status is never left behind, a disposal
releases everything whatever throws, nothing runs on what has been released,
and a resolved promise means what the caller thinks it means.

*Responder.* Several iterators compete for one buffer; a disposal may arrive at
any time. Correct means: in order, exactly once, in turn, and nobody waits for a
closed channel.

*Activities.* A disposal works through a snapshot of the children while children
are launched, fail or are disposed by somebody else; a handler that throws makes
the launcher dispose its activity. Correct means: nothing is left behind in a
list, no child outlives the disposal of its parent unnoticed, every launch and
every disposal settles.

*Service container.* Registrations are overwritten and copied into scopes while
factories call each other. Correct means: one instance per registration and
scope, dependents disposed before what they depend on, nothing disposed is
handed out.

*Plugins.* Plugins leave while hooks run. Correct means: a runner that was
disposed is not called, removals put off are carried out, the first failure is
the one reported, a cached value is not older than its time to live.

*Emitter and telemetry.* Trees that are changed while they are walked, and
listeners that call back into what called them. Correct means: a listener hears
of an event in its turn, whatever the others do; a tree stays a tree and every
link is known at both ends; entries reach a sink once.

*Intents.* A call matches, awaits hooks, and launches, while intents are
registered and change their priority. Correct means: intents with different
identities stay apart, the winner is the best there is when the choice is made,
and matches are launched one after the other.

*Validation and errors.* Sub-rules run in phases, and a bail has to stop three
nested loops; metadata of an untrusted error is a graph in which a shared
container is legal and a circle is not. Correct means: the verdict is what the
rules say, and nothing circular is ever copied.

The list of hazards, each with its line and the properties that cover it, is in
`PROJECT.json`; a hazard without a property says why.

## Plan

In this order, each with its runs and then its proofs; all of it is done.

1. `Executable` with the abstract lifecycle it implements.
2. `ActivityResponder` with the abstract stream it implements.
3. `Activities`: the tree, launches and failed handlers over a coarse lifecycle.
4. `ServiceContainer`: nested factories on an explicit stack, forks, disposal.
5. `PluginContainer`, and `PluginRunner` for the cache and the pipes.
6. `EventEmitter`, then `Telemetry`, whose flush is a dispatch within a dispatch.
7. `IntentRegistry`: registration, matching, ranking, launching in turn.
8. `JSONClone` and `Validation`: algorithms against a reference definition.

What it leaves: the composition of `Application` with its registry and plugin
container, intent URIs, the conversions of structured errors, the rules for
numbers and booleans.

## Modules

| Module | Models | Theorems in |
| --- | --- | --- |
| `Executable` | one scope, from the code's slots to its status | `ExecutableProofs` |
| `ExecutableContract` | what a scope promises: the lifecycle diagram | `ExecutableProofs` |
| `ActivityResponder` | the response channel | `ActivitiesProofs` |
| `ResponseStream` | what a consumer of the channel may rely on | `ActivitiesProofs` |
| `Activities` | the activity tree, launches, handlers, recursive disposal | `ActivitiesProofs` |
| `IntentRegistry` | intents, their registration, the six methods that look them up | `IntentRegistryProofs` |
| `ServiceContainer` | the tree of service containers | `ServiceContainerProofs` |
| `PluginContainer` | membership, strategies and direct scopes of a container and its fork | `PluginContainerProofs` |
| `PluginRunner` | one hook on a chain of runners: the result cache and the pipes | `PluginRunnerProofs` |
| `EventEmitter` | listeners, the tree, dispatch | `EventEmitterProofs` |
| `Telemetry` | the tree of clients, queues, timers, marks, flush | `DiagnosticsProofs` |
| `JSONClone` | the copy of untrusted metadata | `DiagnosticsProofs` |
| `Validation` | one call of a validator | `DiagnosticsProofs` |
| `MC_*` | the constants of the checked instances | |

The modules meet where the code does: a launched activity of `IntentRegistry` goes
on in `Activities`; the lifecycle of an activity is `Executable` with a phase as
one step; the answer of a handler in `PluginContainer` is what a trigger of
`PluginRunner` may come to; a listener in `Telemetry` is one of `EventEmitter` that
runs in the middle of a flush.

In each module the type invariant is part of one of the properties that are
checked or of the inductive invariant that is proved.

### Executable

A step is what runs between two awaits. `stage[t]` is where the body of the
transition in slot `t` stands: it *waits* for the promises it captured
(`waits[t]`), runs the *callback* and the *kernel* hook of a phase, disposes
*services*, has *returned* or *thrown*, and has been *fulfilled* or *rejected* by
the `then` and `catch` behind it; `Settle` is the `finally` that empties the slot
and wakes whoever awaited the promise. `phase[t]` says which phase it runs, since
`initialize()` has two and `dispose()` may run the deactivation first. `call[c]`
is what caller `c` awaits; a caller that activates a created scope awaits the
initialization first (`viaInitialize`) and goes on (`resuming`) without another
look at the status, as the code does. `released` holds the owned parts whose
disposal was attempted.

What may throw is the constant `Faults`: callbacks and hooks by phase, the
composition of the renderable, listeners of the `executable:*` events, the
disposal of an owned part. Calls come from any caller at any time, which
includes callbacks and listeners that call without awaiting. The order of
microtasks of independent promises is not modelled: ready continuations run in
any order, so every order the runtime picks is covered, and some more.

The contract has only status, an accepted disposal (`ending`) and whether
anything was released (`intact`). The refinement maps `ending` to an occupied
disposing slot. With `LateDisposal` the contract allows what the code does after
a failure (a disposal that runs in a failed scope, and one that fails after
`disposed`); without faults it is the strict diagram.

### ActivityResponder

Every method is synchronous and is one step; a call that throws changes nothing
and is no step. `sent`, `asked` and `answers` are histories that properties are
stated over, with the same index for the i-th response, the i-th call of `next()`
and its answer. One reader may call `next()` again before it is answered, as
two `for await` loops or a prefetching consumer do. `ResponseStream` abstracts
from readers and buffers: a sequence, how much of it was taken, closed or not,
and whether anybody was told so.

### Activities

`launching[a]` follows `createAndActivateActivity` and the activation inside it,
`ending[a]` the disposing slot, `call[o][a]` the call of `Activity.dispose` that
origin `o` (a user, or the launcher of an activity whose handler threw) has made
on `a`, with the rest of its snapshot. The part of `dispose()` before its first
await goes down to the first leaf at once, so `Dispose` moves all of it in one
step. `late[a]` remembers that an activity was launched while its parent was
already being disposed: the snapshot cannot contain it, and the code does not
look again. The lifecycle is that of `Executable` with a phase as one step.
`parent` stands for the activity parent and the owner of the registry view.
`App` is a parent that is never disposed; `Application.dispose` does not touch
the root activities, which the model therefore leaves to users.

### ServiceContainer

Resolution is synchronous, but a factory resolves what it needs from the
container it is given, so the calls in progress form a `stack` with the
innermost first, and a step is what one call does in between. While the stack is
not empty nothing else runs. A factory has the read-only view of the contract:
it resolves (`Reuse`, `Invoke`), returns a new value (`Return`) or throws
(`Throw`), in every combination, so every graph of dependencies and every failure
is covered; a factory that reaches other containers through a closure is not.
The factory of a value is called by `set()` itself, before the registration exists:
`SetValue` puts it on the stack as the others, where it may resolve, fail or be
done (`Give`), but no resolution is under way, so the name it is for is not among those that
would be circular, and what comes of it enters no order of resolution. This is why
`DependentsEndFirst` exempts such values (`ServiceGivenValues.cfg` shows it has to).
The set that detects circles is handed from container to container, so it is
the set of names on the stack (`Resolving`). `HolderOf` follows the chain of
parents up to the first that is disposed. `made`, `registered` and `ended` are
histories: every value there was with its registration, its scope and what it
was made from, and the values whose disposers were called. Disposal marks the
container and queues the disposers in one step, calls them one by one with other
calls in between, and finishes when they have settled.

### IntentRegistry

`intents` is the ordered list of registered intents, `given` the definitions
`register()` has taken, and `call[k]` one call of a method, which goes through the
stages of the code: *resolving* (the resolve hooks, which may register), *matching*,
*matched* (the candidates are fixed before the next await), *choosing* (the
disambiguate hooks), *launching* one activity after the other. A name is a
sequence of tokens of the constant `Tokens`, so that the identity key, which joins
names with ":", can be translated as it is: two definitions of one key are one intent, and the second
updates the fields of the first. Priorities are read when candidates are ranked,
which may be after somebody changed them. The hooks choose, veto, fail or say
nothing; a launched activity is the matter of `Activities`.

### PluginContainer

A registration of a plugin is a *runner*, a number that is never used again, so
a plugin that leaves and comes back is told from one that stayed. A container has
its entries, a memo of their order for the hook, its protected plugins, its
direct scopes and the removals put off until the last of them closes. Synchronous
strategies and direct scopes sit on one call stack; asynchronous strategies are
records that advance between the steps of everybody else, each with the snapshot
of the runners it started with. Before each handler a context factory runs: a call
that has come to its next entry is on the stack without a pending handler, where
anybody may change the membership, and `Advance` or `Launch` then makes the context
(or throws) and triggers the handler. A direct scope makes all its contexts first
(`Prepare`, one entry at a time) and counts only after the last (`Counts`), so a
removal during the preparation is not put off; the calls inside it have their contexts and
trigger at once. A reducer may throw as well (`MayLose`). The root and one fork are
modelled, and one hook: the memo and the order of a second would be a copy of the first.

### PluginRunner

A *frame* is one invocation of one handler. In a pipe it has a runner and a
continuation, which is a value: the handler may call it at once, twice, after it
returned, or never. In a trigger it may find the answer in the cache of the
runner (`by` is the frame that filled the entry, `until` its expiry) or run the
handler and fill it. Synchronous frames nest on the call stack, and a promise
settles only when that is empty. `now` is `Date.now()`, which moves at any time.

### EventEmitter

A listener definition is registered with a name or a glob; `Covers` says which
types a pattern matches. `stack` holds the dispatches under way, each with
its path and the definitions it collected at the emitter it has come to, and `heard` is the history
of invocations. While a listener runs it may do anything anybody may do: register,
remove, stop the event, throw, emit, move emitters in the tree.

### Telemetry

A link between two clients has three records, written at different places in the
code: the emitter its events bubble to, the parent it takes tags from, and the
children a flush goes through; `LinksAgree` is about the three. `queue`, `owner`
and `sent` follow every entry from the client that recorded it. Handles (timers)
and marks outlive the calls that made them. A flush is an entry of `stack`:
its listeners run in the middle of it and may record, flush, dispose or throw.
`addChild()` and `freeze()` ask nobody whether a client is disposed, so the run has
disposed clients that are frozen, find a new parent and take children. A handle that was
stopped, cancelled or whose callback failed is over: no property tells the three
apart. The one thing the run leaves out is the fault `"stale"`: the cleanup that
`addChild` returned is called when the child is no longer there (`TelemetryStaleHandle.cfg`
has it).

### JSONClone

The walk of `cloneJSONValue()` step by step: `frames` is the stack the code keeps,
`active` the containers on the way from the root, `clones` those that have a copy.
An entry is a scalar, a container, something that is not JSON, or a property that
is not data. `ended` is the order in which containers were left: in a copy without
a circle, everything a container refers to was left before it.

### Validation

One step: a validator is called and answers. The module is a translation of the
algorithm (`Validate`, with sub-rules, the descent, optional rules and bail)
and an independent definition of what it should come to: `Wrong` says which issues
a value has, place by place, and `Clean` what is handed on, neither with a loop.
A string is its length and its blanks, an issue the path it is at and the rule it
comes from. A validator is built of validators that exist before it, so `Layers`
has them in that order: what goes down in `Validate` is the layer, not the value,
which the code does not follow any deeper than its validators go. `Keys` are in
the order in which objects have them; results gather key by key (`Gathered`) along
the way the two loops of the code take (`Route`).

## Runs

| Run | Instance | Shows |
| --- | --- | --- |
| `executable` | 3 callers, every fault | `OneWorker`, `NothingRunsOnReleased`, `AnswersAreHonest`, `EveryCallIsAnswered`, `ImplementsContract`: transitions never overlap, are always answered, and resolve only to what is so |
| `activity_responder` | 2 responses, 3 readers, 3 sends, 5 reads | `InOrderExactlyOnce`, `NobodyStranded`, `ImplementsStream`: order, turn, no reader left waiting |
| `activities` | 2 activities in any tree, 1 user, every fault | `DisposalIsThorough`, `EveryCallSettles`: a disposal that resolved left no trace, and every launch and disposal settles |
| `activity_family` | 3 activities (two children, or child and grandchild), 1 user, failing activations and handlers | `RootsAreListed`, `NoOrphans`: the registry lists the living roots, and no child outlives its parent unnoticed |
| `service_container` | a root and a scope, 2 names, 3 registrations, 3 values, given ones included | `OneValuePerScope`, `CacheIsCurrent`, `DependentsEndFirst`, `DisposalIsComplete`, `NothingEndedIsServed` |
| `plugins` | 3 plugins (first, last, sequential), a container that begins with all or with two of them, 3 runners, 1 call, 2 scopes, four strategies, context factories and reducers that throw | `MemoIsCurrent`, `Released`, `ScopeKeepsItsSnapshot`, `AnswersAreEarned`: what left is disposed in time and not before |
| `plugin_runner` | a chain of 2, 1 key, entries for ever or for one tick, 2 calls, 4 frames | `HitsAreFresh`, `LastAnswerIsKept`, `ValuesComeFromBelow`, `RestRunsOnce`, `EveryFrameSettles` |
| `event_emitter` | 2 emitters, 1 listener under a name and a glob, 2 registrations, 2 events | `TreeHasRoots`, `EverybodyHearsInTurn`, `OnceAgainOnlyAround` |
| `telemetry` | 3 clients, 2 entries, 1 handle, 1 mark, 1 frozen, any four of the five together, flushes begun in flushes | `LinksAgree`, `NothingIsLost`, `DisposedIsGone` |
| `intents` | 5 definitions, 2 queries, 2 calls of three methods, 3 registrations | `EveryoneHasOne`, `WinnerIsRight`, `MatchesAreLaunchedInTurn` |
| `error_metadata` | every graph of 3 containers with up to 2 entries, some unreadable | `CopyIsWhole`, `NoCircleIsCopied`, `RefusedForCause` |
| `validation` | validators and values two deep, two keys, bail not given, on and off | `VerdictIsRight`, `BailStopsAtTheFirst` |

### The bounds

Three callers can occupy three of the four slots and call again once answered, so
every pair of conflicting transitions meets with a third call on its way. Two
readers waiting and a third behind a buffered response is every case the queue
distinguishes. Three activities are the least for siblings and for a grandchild;
`activity_family` leaves out failing disposals and listeners, which `activities`
has. Two names with three registrations are the least for a registration that is
overwritten and whose successor depends on a value that depended on the old one.
Three plugins give one before and one after a sequential one, and three runners
one that comes back while its former self is put off; two scopes nest. Two frames
of two calls are the least for a race of triggers, and four let a continuation
run in a chain of two while another call is under way. One listener under a name
and a glob is in two buckets that both match; with two registrations and two
events, one dispatch inside another meets what the first changed. Three clients
are the least for one that changes parents. Handlers in `plugins` come to the outcomes
that its strategies tell apart: a fatal one ends `parallel` and `first`, and null and
undefined are an answer or none to a reducer and to `renderable`; fatal handlers
of the synchronous strategies, which end them at once as well, are left to the proofs. Two calls of the registry with three
registrations let one call's candidates change between its match and its choice.
Three containers are the least for a circle that is not a loop and for one that
is shared on two ways.

`MaxResponses`, `MaxReads`, `MaxRegistrations`, `MaxInstances`, `MaxRunners`,
`MaxRoots`, `MaxFrames`, `MaxTime`, `MaxOrder`, `MaxEvents`, `MaxEntries`,
`MaxHandles`, `MaxMarks`, `MaxUses`, `MaxFlushes` and `MaxChanges` only end the runs. `MaxFlushes` bounds how
many flushes are under way when somebody calls `flush()`: with two there is one in the middle of
another, which goes through children of its own. This is why deadlock
is not checked outside `executable`: elsewhere a system that has used up its bounds,
or a tree that is disposed, has nothing left to do. Names, emitters, clients and
calls are interchangeable in the runs that say SYMMETRY; none of those checks
liveness.

### Fairness

Three modules state it, for what they prove to happen. `Executable`: weak fairness
of every transition (`Run`) and of the caller that goes on after an initialization
(`ResumeActivate`). `Activities`: of every launch (`Run`) and every call of a
disposal (`Continue`). `PluginRunner`: of the steps of frames under way
(`Progress`). `ExecutableContract` asks that what was begun is concluded, and the
scope's fairness is shown to imply it. It stands for the promise queue of the
runtime, which runs every ready continuation, and for an assumption on the code
that is called: callbacks, hooks, phases and handlers settle. No call, response,
launch, continuation or failure is ever forced.

### Where promise and code disagree

Each of these configurations makes TLC print a behaviour in which the code does
something else than a charter or a comment says
(`tlc -config ExecutableErrorIsFinal.cfg MC_Executable.tla`, and so on). They are
kept beside the runs, which all pass, because each is about a promise that is not kept
and no run is to be spent on it; the property of each is in the last section of its module,
with the sentence it is taken from. The charters are under `src/ecosystem/charter`.

| Configuration | Shows |
| --- | --- |
| `ExecutableErrorIsFinal.cfg` | "`disposed` and `error` are terminal" (`executable/README.md:52`). A disposal waiting for a transition that fails takes the scope from `error` to `disposing` and `disposed` (`Executable.ts:376`). |
| `ExecutableKernelHearsOfErrors.cfg` | Kernels always receive `error` (`executable/README.md:58`). When a disposal fails the runner of the kernel has been disposed before, and its refusal is swallowed (`Executable.ts:494`). |
| `ExecutableCleanupIsComplete.cfg` | Disposal attempts every part and goes on after failures (`executable/README.md:82-83`). The deactivation that `dispose()` runs first is not part of that (`Executable.ts:373`): if it throws, runner and containers are never disposed, and the scope refuses another `dispose()`. |
| `ActivityHandlerFollowsActivation.cfg` | The handler runs after activation completes (`IntentRegistry.ts:589`). A disposal that meets the launch cancels the activation, `activate()` resolves, and the handler runs in an activity that was never active (`IntentRegistry.ts:592`). |
| `ActivityFailedHandler.cfg` | After a failed handler the activity is disposed (`IntentRegistry.ts:590`). A child that failed to activate is terminal but still listed, its `dispose()` is refused, and the refusal ends the parent's disposal before it begins (`Activity.ts:198`); the launcher drops the failure. |
| `ServiceCircles.cfg` | Local bindings shadow the parent's without affecting the parent (`service-container/README.md:70`). A scope's own `name1` resolves the parent's `name2`, whose factory resolves the parent's own `name1`: refused as circular, because the set of names crosses into the parent (`ServiceContainer.ts:570`). |
| `ServiceGivenValues.cfg` | "Disposal order is the reverse of resolution order for cached bindings" (`contracts/service-container/index.ts:352`). `name1` is resolved and then given a value whose factory resolves `name2`: the order has `name1` before `name2`, since `set()` calls the factory (`ServiceContainer.ts:92-99`) without a place in the order, and `name2` ends before the value made from it. |
| `ValidationNestedBail.cfg` | `bail: true` stops at the first failure within an accumulation scope (`validation/README.md:39`). The validator that is called makes the context, and a validator nested in it takes that context as it is (`custom/rule/index.ts:51-55`): its own `bail` does not count. |
| `EventOnceIsOnce.cfg` | A listener of `once()` is removed before its first invocation (`events/README.md:66`). A dispatch collects its listeners before it calls the first (`EventEmitter.ts:142`); an event emitted in the middle of it calls and removes the listener, and the outer dispatch calls it again. `OnceAgainOnlyAround` shows that there is no other way. |
| `TelemetryStaleHandle.cfg` | The cleanup that `addChild` returns is safe to call multiple times (`events/README.md:61`). Called after the child has moved to another parent, it clears the parent the child takes its tags from (`Telemetry.ts:514`), although its events still go to the new one. |
| `TelemetryDisposedChild.cfg` | "After disposal, all public methods except readonly accessors throw" (`telemetry/README.md:96`). `addChild` does not ask whether either client is disposed (`Telemetry.ts:494`): a disposed client takes children, and gets a place with a parent. `DisposedIsGone` says that it does not record or flush for it. |
| `PluginsPrepared.cfg` | A direct scope has a snapshot for its callback, and changes of the membership do not affect it (`plugins/README.md:81`). Contexts are made before the scope counts (`PluginContainer.ts:658-665`): a context factory that removes a plugin prepared before it has the runner disposed at once (`PluginContainer.ts:150`), and the callback gets it so. |
| `PluginsListener.cfg` | Disposal disposes all managed runners (the comment above `dispose()`). The event it starts with reaches listeners; when one throws (`PluginContainer.ts:786`) the container is marked disposed, no runner is, and another `dispose()` is refused. |

`ExecutableDiagram.cfg` passes: without faults, the scope implements the strict
diagram of the contract, in which nothing ends after `error`.

Read in the code while modelling, without a configuration: `freeze()` works on a
disposed service container although the charter has every mutation refused
(`service-container/README.md:87`); identity keys of names that contain ":"
may coincide (`buildIntentIdentityKey.ts:9`), so the definitions of the run of
`IntentRegistry` have none, and the theorem `PlainNamesHaveOneIntent` has that as
its hypothesis; a rule that fails with an empty list of issues
counts as a success in validation; `ApplicationError.toJSON` repeats a native cause
(`ApplicationError.ts:377-385`).

## Proofs

Every theorem holds for all values of the constants that satisfy the assumptions
the modules name (`FaultsAssumption`, `BoundsAssumption`, `ActivitiesAssumption`,
`AppAssumption`, `PlacesAssumption`, `UsersAssumption`, `RootAssumption`,
`RunnerAssumption`, `CloneAssumption`, `ContainerAssumption`, `EmitterAssumption`,
`RegistryAssumption`, `TelemetryAssumption`, `LayersAssumption`, `KeysAssumption`,
`ValuesAssumption`, `RulesAssumption`),
which TLC evaluates for the instances of the runs. They say that sets of activities,
of emitters and of containers in a heap are finite, that bounds are numbers, that
what the code keeps apart is apart; that a validator is built of validators of lower
layers, and that the values inside a value are values. None of the properties is inductive as it
stands. Each proof module defines a strengthening, `IInv`, and where a property
asks for more a second one over it; where a module is about two components the
second has names of its own (`ChannelInv`, `CloneInv`, `FlowInv`). It proves that `Init` establishes it and that
every action preserves it, with a lemma for each action or small group of actions,
and derives the property. TLC has checked the strengthenings on the instances of the
runs, but for the one conjunct it cannot enumerate (`Tree` of `ServiceContainerProofs`).

`ExecutableProofs`: `PhasesNeverOverlap`, `BusyIsNeverStuck`, `ReleasedMeansQuiet`,
`FailuresDoNotStopCleanup`. `IInv` adds what the code relies on without saying: a
transition that is past its waits has no conflicting transition past its own,
because each of them waits for the others it found and whoever comes later finds
it; while a disposal is in flight no other transition passes its second look; what
a status says and what the phases of the working transition say agree; parts are
released in the order of the disposal phase.

`ScopeKeepsContract`: every step of a scope is a step of the contract or leaves what
the contract speaks of alone. `WInv` adds to `IInv` which status a disposal has left
behind at each of its stages, that a transition in a phase has announced it, and
that nothing fails unless something may throw. It rests on one lemma,
`StatusChangesAlone`: a step that changes the status is taken while no other
transition is in a phase.

`HonestAnswers`: a promise that resolves stands for what is so at that step, or the
scope was overtaken by a disposal or a failure. `AInv` follows a transition from its
second look: `Begun` and `PhasesFit` say which phases lie behind it, `Kept` that
nobody undoes what they came to before it is answered.

In `ActivitiesProofs`, of the responder: `ResponsesArriveInOrder`,
`ReadersAreServedInTurn`, `ClosingLeavesNobodyWaiting`. `ChannelInv` adds that waiters and buffer are never both
non-empty, that a stream is done exactly when it is complete, and how the three
histories fit the buffer and the queue. The lemmas on the order each say what one
movement of an element does to it. `ResponderImplementsStream` is the whole
refinement, since the stream has no fairness. What a consumer was told is a matter
of lengths (`Ahead`): somebody was told of the end exactly when there are more
answers than responses taken.

In `ActivitiesProofs`, of the tree: `RootsListed`, `ThoroughDisposal`. `Family`: the list of
children agrees with what the children say of their parent and has each of them
once; `Known`: what a call disposes was launched; `Lives`: when a disposal is over
no transition of the activation is left to bring the activity back. The lemma
`Removed` says what `RemoveFirst` does to a list without repetitions.
`OrphansNone`: the children of an activity under disposal are those it has visited,
the one it is at, those it has left of its snapshot, and those that came too late
for it (`Visits`, `Snapshots`, `Untouched`, `Joined`); so when nothing is left and
nothing came late, all of them are gone or refused to go.

`ServiceContainerProofs`: `OneValue`, `CurrentCache`. What makes both true is
`Running`: while a factory runs, the cache of its registration is empty and the
names on the stack differ, so no second factory can fill it first. `OneNameEach`
says that a registration belongs to one name; `Registered`, `Current` and `Remembered` tie
caches to the histories.
`DependentsFirst`, `CompleteDisposal`, `NothingEnded` rest on `DInv`. The order of
resolution is a list of names, which may repeat. `Recorded` says that it stands for
values, one for each place and in the order they were made, and that every value that was
resolved and is cached is one of them, while those given to `set()` are not; `Chronicle`, that a value is made
from earlier ones. So a disposal that goes by the last place of each name, from the
end of the list, meets what depends on a value before the value (`Disposals`), and
leaves none out (`Complete`). `Tree` makes the search for a registration end.

`PluginContainerProofs`: `IInv` says that entries are in one place (`OnePlace`),
that each registration is listed, put off or disposed (`Accounted`), that the memo is the
order of what is registered whenever it is set (`Remembered`), that direct scopes,
those still being prepared included, nest on the call stack (`Nested`), and that what
one of them was opened with is still registered, put off or disposed (`PutOff`,
`Snapshots`), so that while it counts nothing can leave but by being put off. `MemoKeepsUp` and
`SnapshotsLast` follow. `ReleasedInTime` is about containers whose listeners of the
end do not throw; `PluginsListener.cfg` shows what happens where one does.
`AnswersEarned` is about the strategies: `EInv` says of each call that what it ran
are the first of its entries, in turn and in batches, that its answer so far is what those
add up to, that a parallel batch has as many runs and pending ones as were launched,
and that a call is on the stack once and only while it runs. What a strategy adds
up to is a fold over results, so there is a lemma for one more result, by induction.

`EventEmitterProofs`: `PathsEnd`, `OnceAround`, `HearingInTurn`. `Rooted`: the tree
has no circle, since `addChild` refuses to close one, so following parents from an
emitter meets none twice and ends, whoever rearranges the tree meanwhile. `Registry` is about the buckets;
`Nested` and `Dispatching` say where each dispatch on the stack has come to and
that it has called the first of what it collected and is to call the rest unless it was stopped; `Chronicle` and `Expended`
tie the history to both. `OnceAgainOnlyAround` is part of it: a listener that was
removed is only in what was collected before.

`PluginRunnerProofs`: `CacheIsFresh`, `LastWriterWins`, `PipesPassValuesUp`,
`ContinuationsRunOnce`. `IInv` is in two halves, one about triggers and one about
pipes, and a step of either leaves the frames the other speaks of alone.

In `DiagnosticsProofs`, of the copy of metadata: `CopiesAreWhole`,
`CirclesAreRefused`, for any heap. `CloneInv` says
how the stack, the active containers, the finished ones and the copies fit
together: what is finished refers to what was finished before it, and the copy of
a container on the stack is as long as what was done of it. `CausesOfRefusal`: the
stack is a way from the root (`Trail`), and shorter than there are containers, so
what the walk refuses is something a reference definition reaches too.

In `DiagnosticsProofs`, of the telemetry: `EntriesAreSentInOrder`, `TheTreeIsOne`,
`DisposedStaysGone`. A client is flushed by one frame at a time and only the innermost
frame is between two of its steps (`Shaped`), so what a frame has taken and not yet
sent comes before what its client has queued since, and both after what was sent
(`Flow`); this holds whatever listeners do and whatever faults there are. `GoneInductive`
says what a disposal leaves, without an assumption: an empty queue, no timer that
runs, no mark to measure from. `Linked` relates the three records of a link, for every
pair of clients, and with it a disposal lets go of every neighbour.
`TheTreeIsOne` assumes that no stale cleanup is called, and `TelemetryStaleHandle.cfg`
shows that it has to; so does `DisposedStaysGone`, whose disposed clients may be added
to others, and others to them, as the code allows.

`IntentRegistryProofs`: `DefinitionsHaveOneIntent`, `TheRightOneWins`, `MatchesInTurn`.
`IInv` says that no two intents have one key and that every definition taken has an
intent of its key; and of each call, that what it saw are places of the registry in
the order of registration, that what it has launched and what is left of its choice
together are what it decided on, and that a choice was the best by the priorities it
read (`Progress`, `Deserves`), which later changes of the registry do not undo. `DefinitionsHaveOneIntent`
assumes that keys tell definitions apart. `PlainNamesTellApart` shows when they do: a
joined name can be taken apart at its first ":", as long as no part but the last holds one.

In `DiagnosticsProofs`, of validation: `VerdictsAreRight`, `BailKeepsTheHead`. There
is one step, so the invariant is that the answer is what the call comes to
(`ValidationInvariant`), and the rest is about `Validate`, `Wrong` and `Clean`, by induction
over the layers. `Tells` says that a report is complete, or under bail a part of what is
wrong, names nothing twice and is empty only when nothing is wrong. Every stage of
the code keeps it: sorting by phase loses no check and puts those that change the value
before those that look at it (`ByPhaseElements`), running them finds the ones that
fail (`ExecuteMeans`), the way down comes once to every place (`RouteElements`), and
issues from different places differ in the first step of their paths, so what comes
back tells what is wrong below (`GatheredMeans`, `TraverseMeans`). `VerdictsAreRight`
assumes that the checks of one validator have different names, because an issue is
known by the name of what found it. Bail relates two calls that differ
in nothing else: `Bailed` says that the shorter report is the head of the longer, and
is kept by the same stages (`ChildBails`, `TraverseBails`).

A recursive function (`Keeping`, `HolderOf`, `Without`, `Counting`, the reach of a container, the path of an
event, `Validate`) is defined by CHOOSE, so a proof about one begins with a lemma that a
function as described exists, by induction over what it goes down. The induction
theorems of the library take an operator; the inductions here go through a set, whose
least element outside of it would have a predecessor (`LeastNat`, `SetInduction`).

Every safety property of the runs is stated by a theorem. Out of the prover's reach,
and only model-checked, are liveness and ENABLED: `EveryCallIsAnswered`,
`EveryCallSettles`, `EveryFrameSettles`, and the fairness of `ImplementsContract`, whose
steps are proved.

## Not modelled

- `Application`: a registry and a plugin container in one executable, without a
  step of its own; `Activities` has it as the parent of root activities.
- Intent URIs and helpers: pure functions on strings and paths. What a glob
  matches is a constant of `EventEmitter`; a query is what a URI parses to.
- Plugin contexts: a bag of values built for each invocation.
- Structured errors other than the copy of metadata; in validation, the rules for
  numbers and booleans, the variants that throw, metadata and messages: field by
  field, without state.
- RPC: there are contracts and a test scheduler, no transport.
- Contracts, charters, tests, tooling, infrastructure: no behaviour of their own.
- Within the modelled parts: what a renderable shows, what plugins answer, error
  wording, tags, namespaces and durations; callbacks that never settle or that wait
  for their own scope; forks of forks and a second hook of a plugin container.

The definitions stand for something less than a fifth of the TypeScript lines of
the implementation. More than a third of those lines are contracts, that is types;
of the rest a large part is documentation, imports, accessors and constants, which
have no step or value a property could tell apart. What is left of the code is the
list above.
