# TLA+ models of stratae

stratae (`src/stratae`) is a Python library with three parts: scoped lifetimes with cached
values and resources (`lifecycle/`), dependency injection (`depends/`) and events
(`events/`, with brokers and frameworks under `integrations/`). This directory holds TLA+
modules translated from that code, the TLC configurations that check them on small
instances, and proofs, checked by TLAPS, of what holds of every instance.

Check a run with `tlc -config ScopeCache.cfg MCScopeCache`, a proof module with
`tlapm ScopeCacheProofs.tla` or `tlapm OutboxProofs.tla`. `PROJECT.json` lists the runs,
the source lines each definition stands for, the hazards of the code and the property that
covers each, and for each property a mutated definition that breaks it.

## 1. The system

### Components

| Component | Source | State it keeps | Operations | Module |
|---|---|---|---|---|
| Scope cache | `lifecycle/_wrappers.py`, `_inflight.py` | slots and keyed dictionaries in an activation's storage, `__inflight__` claims, waiters | a cached call: read, claim, wait, compute, enter a resource, store, unclaim | `ScopeCache`, `ScopedMemo` |
| Scopes | `lifecycle/scope.py`, `_slots.py` | the scope's variable (a `ContextVar` or a `SharedVar`), storage slots 0-3: entered resources, count of dependents, token, parent's storage | `activate`, `deactivate`, `with` / `async with`, `requires` | `ScopeTree`, `ActivationTree` |
| Slot allocation | `lifecycle/scope.py` 265-285, 350-382 | template, counter, free list | `allocate_slot`, `release_slot`, `get_slots`, `_extend` | `SlotPool` |
| Close stack | `lifecycle/_stack.py` | the list of entered resources, the exception on its way | `enter_*`, `close`, `aclose` | order of exits in `ScopeCache`, exceptions in `CloseStack` |
| Dependency injection | `depends/` | provider registry, the set being resolved, overrides in a `ContextVar` | `inject`, `provide`, `update`, `override` | `Injection` |
| Direct bus, dispatch | `events/direct.py`, `_dispatch.py`, `handler.py` | handlers by event | `emit`, `handle`, `remove` | `Emission` |
| Pipeline, hooks, middleware | `events/pipeline.py`, `hooks.py`, `middleware.py` | the managers entered by a call | enter, observe, unwind | `Emission` |
| Outbox | `events/outbox.py` | staged lists, records, statuses, leases; a relay's batch | `transaction`, `add`; `claim`, `mark_sent`, `reschedule`, `mark_failed`; the relay's batch | `OutboxTransactions`, `OutboxRelay`, `Outbox`, `OutboxDelivery` |
| RabbitMQ | `integrations/rabbitmq.py` | connection, recovery task, declared exchanges, consumers, deliveries in progress | connect, recover, register, remove, drain, close; publish, deliver, retry, settle | `RabbitConsumer`, `ConsumerChannel`; `RabbitBroker`, `RabbitPublisher`, `RabbitDelivery`, `RabbitMessaging` |
| Frameworks, envelope | `integrations/starlette.py`, `fastapi.py`, `asgi.py`, `events/envelope.py` | a request's activation in the ASGI scope, the current envelope | a scope and an envelope around a route, connection or message | `WebRequests` |
| Checks | `checks.py` | what has been checked and gathered | `require`, `any_of`, `all_of` | `Checks` |
| Serde | `serde.py` | registries of encoders and handlers | `serialize`, `deserialize`, `construct`, `register` | `Serde` |
| Decorators, resources | `lifecycle/_decorators.py`, `resource.py` | none | choose a wrapper creator | no |
| Context values | `context.py` | a `ContextVar` | `get`, `set`, `reset` | no |
| Binding, patterns, protocols | `events/binding.py` ... | none | derive events and parameters from annotations | no |
| Code generation, errors, telemetry, msgspec | `codegen/`, `exceptions.py`, `integrations/` | none | text; adapters | no |

### How they interact

A *cached function* belongs to a scope. Its generated wrapper reads the scope's variable to
find the current activation's storage, and on a miss computes, holding a claim in
`__inflight__`; a computation may call other cached functions (a stack of calls) and may
enter a resource, which it registers with the activation. Deactivation resets the variable,
empties the storage and exits the registered resources. A scope that `requires` another
counts, in the parent's storage, as its dependent. Threads share the storage of a shared
scope; tasks and copied contexts share a context scope's. `inject` resolves parameters by
calling (usually cached) providers, whose overrides are seen by the contexts that entered
them. A bus runs handlers, whose parameters are injected, in a pipeline of middleware and
hooks, around the emit and again around each handler; a web framework runs an endpoint in a
scope, behind its checks and in the envelope of its request. The outbox is a bus that writes
records instead, and its relay hands them to another bus, as a rule RabbitMQ's.

### What is hard

* **Threads**: a caller reads storage, another thread ends the activation between that read
  and its use; two first computations; a waiter that is never woken; waits in a circle.
* **Ordering**: resources are exited in reverse order of entry, dependents before parents.
* **Failure**: a computation or an entry raises half-way; a set that raises after the
  parent was counted; an outage in the middle of a batch; a store that raises.
* **Crashes and time**: relays stop or die between publishing and marking; leases run out
  under slow relays.
* **Awaits**: a handler is registered or removed, or the consumer is left, while a
  connection is being opened, resumed or drained.
* **Copied contexts**: a task created inside a transaction, an activation or a block of
  overrides outlives it.
* **Reuse**: a slot of a collected function is given to another one while activations live.
* **Unwinding**: middleware, hooks and the exits of resources raise, swallow and are cancelled
  while they handle each other's errors.

For each component, what makes it correct: the *cache* computes once per activation, exits
each resource once and after what was built on it, never refills storage that has ended, never strands or mutually blocks callers. The *scopes* never end a parent under a
dependent, never lose or double an activation, and restore what a nested activation hid.
The *outbox* publishes nothing that was rolled back, loses nothing that was committed,
publishes a record at least once, and parks it only after the configured failures. A
*consumer* of RabbitMQ is delivered to for exactly the handlers registered, resumes all of
them after every outage, and can always be left, with no channel open behind it; a message it
took is handled, retried or dead-lettered as configured, never lost. A *slot* never shows
one function another's value. An *emit* returns, unwinds what it entered innermost first and
hides no failure. An *override* holds in the contexts that entered it, and nowhere after. A
*request*'s scope ends once, with the error that ended it, and its endpoint runs only behind
its checks. What *serde* gives back belongs to the type it was asked for.

## 2. The modules

### ScopeCache and ScopedMemo

The "locked" claim style of the generated wrappers, which every shared scope uses (threads
or tasks are the `Callers`). A caller's nested calls are a stack of frames, `frame[t][d]`,
with the program counter of each. The granularity is the code's: one step for each read of
storage, one for each block under the wrapper's lock. The steps of one call:

| Action | Code |
|---|---|
| `Call`, `CallDependency` | entering a wrapper; the first read of `__var__.storage` |
| `Read`, `Reread`, `Miss` | the first read of the slot, `get_slots()` on `TypeError` / `LookupError`, the miss |
| `TryClaim`, `Recheck`, `Watch` | under the lock: read again, take the claim, wait on it, or raise `CacheCycleError` for one's own |
| `Wake`, `CancelWait` | the claim was popped; a waiting task is cancelled |
| `Compute`, `Fail` | the function returns (a resource is entered) or raises |
| `Register`, `AppendContext` | `if not slots`, after which a late resource is exited at once; then, as a step of its own, `slots[0].append` |
| `Store`, `Unclaim` | store and pop the claim; pop it after a failure |
| `Activate`, `End`, `Clear`, `ExitNext`, `Drained` | the activation's own life, one resource exited at a time until the list is found empty |

`ScopedMemo` is the promise to those who wrote the functions: a call is served a value that
its activation keeps, or is refused, or begins the one computation of its entry under way
anywhere; a computation makes at most one value of an entry for an activation (`Make`); by
the time the call returns it (`Finish`) the activation keeps it, unless that is over; an
activation that is over keeps nothing and serves nobody. There are no slots, locks, claims or
waits in it, so `ImplementsMemo` says that none of them shows. `ViewOf` is the mapping of a
frame: what is called, for which activation, and whether it is being computed.

No lock joins the check of `Register` to `AppendContext`, so the storage may be emptied in
between; `overtaken` remembers the entries to which that happened. Their resources may be
left open, or be exited after what they were built from (section 6), and
`ResourcesExitOnce` and `DependentsExitFirst` say that it happens to no others.

### ScopeTree and ActivationTree

`ScopeTree` has the activations themselves: `BeginActivate` counts on the parent under its
lock, `SetVar` publishes, `StoreToken` assigns `slots[2]`, `Unwind` is the `except` clause;
`BeginDeactivate` makes the checks and the reset under the scope's lock, then `Clear`,
`Close` and `Release` follow. A call the code refuses raises and changes nothing, so it is
no step. `Fork` copies a context. Any thread may deactivate a shared scope by
`deactivate(None)`, also before the `activate()` that published it has stored its token; the
`except` clause then gives the parent back although the deactivation does so too (section 6).
`twice` remembers the activations to which that happened. `Surplus(p)` are those of a parent
p: `DependentsCounted` says that its count is short by exactly so many, and that each of them
is an activation whose `activate()` raised instead of returning; `ParentOutlivesDependents`
that a parent without any is never ended under a dependent.

`ActivationTree` is the abstract promise: an activation begins under an open parent, starts
closing only when nothing begun under it is left, and is then over. It may be deserted by
what has begun and ended under it, and then no longer waits for the rest. `ImplementsTree` is
the refinement, with the stage of an activation, its parent and the parents of `twice` as the
mapping.

### OutboxTransactions, OutboxRelay, Outbox and OutboxDelivery

`OutboxTransactions` is the writing side: the `ContextVar` of staged lists, nested
`transaction()` blocks that exit or raise, tasks created inside a block. `Structured` says
whether every such task ends before the block does, as in a task group.

`OutboxRelay` is the store and the relays: `Claim` takes the oldest due, unleased, pending
records; for each `PublishOk`, `PublishFails` (then `RecordFailure`, the code's `_failed`)
or `PublishOutage` (then one `GiveBack` per record left); at the end `MarkSent`. `StoreError`,
`ClaimLost` and `MarkError` are store calls that raise, having written or not; `Cancel` and
`CancelMarking` are `__aexit__`, `Crash` the end of the process. Marking what was published
is in a `finally`, and what it raises there replaces a cancellation on its way: `MarkError`
then leaves the relay running (section 6). It is a fault of its own (`FaultMarking`) unless a
cancellation that was counted already is being handled. The store is the code of
`InMemoryOutboxStore`, but every store call is a step of its own, because the `OutboxStore`
protocol lets a store be asynchronous and shared between processes
(`docs/tutorials/outbox.md` is such a store). Times are abstracted to the events `LeaseExpires` and
`RetryDue`; `LeaseMayLapse` says whether a lease may run out while its relay is still at
work, which `docs/tutorials/outbox.md:261` warns of.

`Outbox` composes the two: each step of a producer is a step of `OutboxTransactions` whose
newly kept records the store takes in with `Keep`. `OutboxDelivery` is the abstract promise
of the module doc, at-least-once and settled for good, and `ImplementsDelivery` the
refinement.

### RabbitConsumer and ConsumerChannel

The connection of a `RabbitMQConsumer` and the AMQP consumers of its handlers, on one event
loop: a step is what runs between two awaits. `opening` is `_Link._open` with `_resume`
inside it, run by `__aenter__` (`OpenLink`) or by the `_recover` task (`RecoverWake`);
`Connect`, `ResumeStart`, `Opened` are its progress, `Refused`, `OpenFails` and `Undo` its
failures. `OnClosed` is the callback of a lost channel. `Register`, `StartHandler`,
`StartCancel` and `StartFails` are `handle` and the `_start` tasks; `RemoveHandler` pops the
registration and, up to the next await, finds out whether there is a consumer to cancel;
`RemoveCancel` is the broker's answer to that call and `RemoveFails` its failure on a lost
channel, with `removing[h]` the connection in between. `StartDrain`, `DrainCancel`, `Drained`, `CloseLink` and `CloseConnection` are `__aexit__`, the last two
with the cancellation of `_recover` between them. The broker is what the code relies on: a
call on a lost channel raises, and a lost channel's consumers are gone. Declaring a queue
is part of starting its consumer, and the cancellation of `__aenter__` or `__aexit__`
themselves is left out. A connection whose channel is lost is closed by `RecoverStale`;
`NothingLeft` says that none is left open by leaving, which a `_recover` task that never gets
to its first step breaks (section 6).

`ConsumerChannel` is what deliveries rest on: one channel open at a time, each with a number
of its own, none opened while the link still holds one, and nothing consumed but on the one
that is open. `ImplementsChannel` maps the connections to it: `number` is how many were
opened, `open` that one of them is, `known` that the link holds one, `consuming` that the
broker has a consumer. `RabbitMessaging` sums the link up in one record, `channel`;
`OnTheChannel` says that this record keeps to `ConsumerChannel` too, so that the two models
of one link agree.

Handlers are registered and removed while `_resume` runs as at any other time. `crossed`
remembers those that the last `_resume` missed: registered since it took its tuple of
registrations, or removed after it had started them (section 6). The properties exempt them
by name, until the next resumption. One constant admits what the code does not survive:
`CloseMayFail` lets the `connection.close()` that undoes a failed opening raise: with it
`ExitedIsClosed` fails, because that exception replaces the cancellation on its way, and
`_recover` counts it as one more failed attempt and goes on.

### SlotPool

A cached function without parameters owns a slot of its scope, an index into the storage of
every activation. `Allocate` and `Release` are `allocate_slot` and the finalizer that
returns the slot of a collected function; a finalizer may run in any thread between any two
steps of it, which `finalizer[t]` says. `Call`, `GetSlots`, `Measure`, `Extend`, `Reread`,
`Store` and `Return` are one cached call with its reads of the storage, of the template's
length and the extension of live storage as separate steps; `NewActivation`, `Activated`,
`End` and `Clear` the activation, whose storage is copied from the template before it is
shown. Claims are left to `ScopeCache`: one call of a thread computes at most one value, and
two threads may compute one value both.

### CloseStack

The exceptions of `close` / `aclose` and what `_record`, `_seed` and `_settle` make of them,
as operators on a stack of resources: an exit may suppress the exception it is handed, pass
it on, raise its own, yield once too often or, asynchronous, be cancelled. `RabbitDelivery`
closes the scope of every delivery with it; `ScopeCache` has the order of the exits.

### Emission

One emit on a bus. The emit and each handler's run are chains of one shape: `Enter` each
middleware, `Before` hooks, the call, `Observe` by the success, failure and complete hooks,
`Exit` each middleware, `Exited`. `FanOut`, `FanOutNext`, `FanOutRaises`, `Dispatched` and
`RequestCall` are the dispatchers of the patterns; on an asynchronous bus each handler of a
fan-out is a task of its own. `Cancel`, `TimeOut` and `CancelGather` cancel the emitter's
task, by a middleware with a timeout, or the children of a gather. What middleware, hooks and
handlers raise is free, up to `MaxFailures`.

### RabbitBroker, RabbitPublisher, RabbitDelivery, RabbitMessaging

`RabbitBroker` is what the code relies on in the broker: a queue with retry queues and dead
letters, an exchange that is not durable, bindings. `RabbitPublisher` has the emits, each of
which declares, publishes and awaits its confirmation, with `_declared` as the code keeps
it. `RabbitDelivery` has the deliveries: `Start`, `Handle`, `CloseNext` and `Closed` are
`_deliver`, `Ack`, `Fail`, `Republish` and `Republished` its two ends. A lost channel puts
what is unacknowledged back into the queue and cancels the tasks that run for it.
`RabbitMessaging` joins the three and lets the broker restart. The connection's own steps
are `RabbitConsumer`'s; here opening is one step, and `ConsumerChannel` is what the two share.

### Injection

`Decorating` resolves the graph of providers depth first, as `_resolve_function` does, one
parameter at a time and in several threads that import modules; `refused` and `defaulted`
name the callables whose annotations it rejects. `StartBlock`, `EnterNext`, `Interrupt`,
`EndBlock` and `ExitNext` enter and leave blocks of overrides item by item, in contexts that
`Fork` copies. An `Interrupt` lands anywhere in the entering of a block: before an entry, or
in it after what the provider gives was set, after its count was, after the value was, or
after all of that and before the override is noted as entered. The overrides entered are then
undone, the one being entered is not; `torn`, `lost` and the value `Lost` say what is left of
it. `Reachable` is what a callable needs, as the least set that holds its
parameters and theirs; the walk itself never uses it but to say that a decorated callable
exists once its own decorator has returned. `Held` is the overrides of a provider that blocks
have entered and not left. Of the nine programs the run starts from, one has a cycle that
two threads walk at once, from different sides.

### WebRequests and Checks

A request passes the envelope middleware (`Receive`, `Leave`), gets an activation
(`Activate`), its checks (`Check`, `Guarded`), the endpoint with the messages it emits
(`Emit`, `Handled`), and what surrounds the endpoint (`Unwind`, `Handle`, `Send`, `Close`).
`slot` is the activation kept in the ASGI scope, taken out by whichever side closes it.
`Checks` has the guard as operators: what a check or a group gives, how a mode goes on, and
whether a refusal is the check's own exception (`FailsItself`), which the framework may
answer, as it may answer what the end of a scope raises (`After`).

### Serde

`Serialized`, `Decode`, `LookupHandler` and `Construct` are the functions of `serde.py` on
tagged values, `Bases` the method resolution order they dispatch on; the actions register
and deregister encoders and handlers and ask for one conversion. The module is recursive
over the structure of values and so stays with TLC.

## 3. The runs

| Run | Bounds | Shows |
|---|---|---|
| `scope_cache` | 2 callers, 2 entries (one a resource, which the other depends on), 2 activations, 1 failure | the safety of the cache: once each, every resource accounted for, no circle; refinement of `ScopedMemo` |
| `scope_cache_live` | same, both entries resources, 1 activation | resources are exited after what was built from them; every cached call returns or raises |
| `scope_tree` | 2 contexts, 4 scopes, 5 activations | no activation outlives its parent, is lost or counted twice, but for what one ended inside its own `activate()` takes from its parent; refinement of `ActivationTree` |
| `slots` | 2 threads, 2 activations, 2 functions; dense and sparse, shared and context scopes | a slot that changes hands never shows a foreign value; live activations serve functions decorated later |
| `outbox` | 2 tasks, 2 transactions, 2 records, 2 relays, 2 attempts, 1 fault, leases last | nothing rolled back is published; at-least-once delivery (refinement of `OutboxDelivery`) |
| `outbox_lapse` | 2 records, 2 relays, 2 attempts, 1 fault, leases may lapse | every record is settled for good, sent only if published, parked only if it failed |
| `consumer` | 2 handlers, 3 connections, 2 losses or refusals | the broker's consumers are the registrations, but for those a resumption missed; handlers are resumed; leaving ends, with no channel open and nothing consumed; refinement of `ConsumerChannel` |
| `delivery` | 2 messages, 1 or 2 faults, seven configurations of policy, topology, prefetch and resources | an emit that returned is not lost; retries and dead letters are counted right; closing hides no error; every emit returns and every message is settled |
| `emission` | 2 handlers, 2 layers and 2 hooks around the emit, 1 layer around each handler, 2 failures, 1 cancellation | middleware unwinds like nested `with` statements and swallows nothing; handlers are accounted for; the emit returns |
| `injection` | 4 callables, 2 threads, 2 contexts, nine programs | an override is seen by its context and gone afterwards; a decorator fails only for the reason it gives |
| `web` | 2 requests, every kind of route, guards of 2 checks of up to 3 parts in each mode, 2 messages per request | a scope ends once and with its cause; endpoints run behind their checks; messages follow their causes |
| `serde` | every scalar class, two enums with a mixed-in type, a plain enum and a subclass; containers nested twice, dicts of one pair, up to 3 application handlers and 2 encoders | what comes back belongs to the type, and a value of the type comes back unchanged; an ambiguous union gives nothing back, null apart (section 6) |

Why these bounds are enough to be interesting: two callers meet every interleaving of one
claim, and with two dependent entries each caller's stack is two deep, so that one can hold
a claim while it waits on the other's; a second activation lets a late computation meet its
successor. Four scopes are the smallest tree in which a shared and a context scope share a
parent and a context scope has a grandparent; five activations let a scope be activated
twice under a parent that is itself activated twice. Two functions and two activations let
a slot pass from one function to another while the first one's value is still stored. Two
records in one batch let an outage or failure hit the first or the second; two relays and
two attempts reach the parked state along each path. Two losses of a channel meet a
resumption that is itself interrupted, three connections then still leave one that
succeeds. Two messages with a prefetch of one make the second wait for the first one's
settling; two resources let one exit raise what the next one is handed. Two layers let an
exit see what an inner one made of an error; two handlers can fail in one fan-out, or one of
them while the other runs. Two requests follow each other in one task or run side by side.
`MaxFaults` counts outages, store errors, lost channels, cancellations, restarts and crashes
together. A bounded model really does stop when its activations, records or messages are
used up, so those runs do not check deadlock; `scope_cache`, `scope_cache_live` and `serde`
do.

The runs that start from one of several configurations (`delivery`, `injection`, `web`)
choose it in the initial state and never change it; the MC modules name them.

## 4. Fairness and assumptions

`scope_cache_live` assumes that a thread or a loop keeps running what it started (weak
fairness of each caller's steps) and that a deactivation that began goes on; nobody is
assumed to call, fail, cancel or deactivate. `outbox_lapse` assumes that relays keep running
and are entered again after they stopped, and that leases and delays pass, which is what
they are for; nothing is assumed of faults but their bound: an outage that never ends
delivers nothing. `consumer` assumes that the loop runs what can run, that `drain_timeout`
passes and that aiormq's calls return or raise; that the broker accepts connections is a
premise of `EventuallyConsumed` alone, and no part of `ExitReturns`. `delivery` assumes that
tasks, timers and reconnections go on, that the broker delivers to a consumer it knows and
that a caller whose emit failed emits again, which is what the documentation tells it to do;
faults have a bound and no fairness. `emission` assumes that middleware, hooks and handlers
return or raise and that the loop runs every task; cancellation, registration and removal are
not assumed to happen.

What the models take for granted of the code's surroundings:

* A step of Python that the code relies on as atomic under the GIL (a dictionary's or a
  list's single operation) is one step.
* `Fork` copies a context as `asyncio.create_task` does; a block exits in the context that
  entered it.
* One thread at a time evaluates the annotations of a callable that is decorated.
* The broker keeps a queue and its messages over a restart, not the exchange; it refuses
  nothing but what it cannot route; it requeues what is unacknowledged on a lost channel.
* The frameworks (starlette, FastAPI) handle errors and close connections as their actions
  in `WebRequests` say; they are marked external in `PROJECT.json`.
* `Structured` and `CloseMayFail` exclude cases that the code does not survive; section 6 says
  what happens in them.

## 5. The proofs

TLC checks the instances above; the proofs hold for all values of the constants that meet
the named assumptions of the modules (`ConstantsAssumption` of `ScopeCache`: resources are
entries, dependencies are sets of entries, the bounds are naturals, `None` is none of the
values; `RelayAssumption` of `OutboxRelay`: records are finitely many naturals, a batch and the attempts are at least
one; `ProducerAssumption`, `ScopesAssumption`, `SlotPoolAssumption` and
`ConsumerAssumption` likewise give the constants their types, and keep `None` apart from
values; `EmissionAssumption` says that the handlers are finitely many, that the emitter is none
of them, and that the numbers of layers, hooks, failures and cancellations are naturals;
`ServingAssumption` says what a configuration of `WebRequests` is, and that no synchronous
function has an asynchronous check, which the decorator refuses; `BrokerAssumption` says what
a configuration of `RabbitMessaging` is, and that without a failure policy nothing is retried
or dead-lettered; `ProgramsAssumption` says what a program of `Injection` is, with any graph of
providers). What a theorem assumes besides is the `ASSUME` of its statement.

### `ScopeCacheProofs`

* `TypeCorrect`, `ComputesOnce`, `NeverRefilled`: `TypeOK`, `ComputedOnce` and
  `EndedNotRefilled` for any number of callers, entries, activations and nesting.
* `MemoImplemented`: `ImplementsMemo`, each step a step of `ScopedMemo` or a stutter.
* `ClaimExcludes`: two computations of one entry are never under way together.
* `ResourcesExit`, `DependentsExit`: `ResourcesExitOnce` and `DependentsExitFirst`.
* `NoCircles`: `NoCycle`, if no function calls itself, directly or by way of others
  (`Acyclic`: some rank falls from every function to those it may call). Functions that do
  are what `CacheCycleError` is for.

`ComputedOnce` is not inductive: it says what was made, not why nobody makes it again.
`IInv` adds that reason. `ClaimsHeld`: a frame between taking a claim and popping it owns
the claim in `__inflight__`, and a caller has one frame per claim, so at most one frame is
between the two. `NothingMade`: before its success such a frame's activation has made
nothing for its entry; this holds when the claim is taken because the code reads the slot
once more under the lock. `MadeIsCached`: what was made is in the slot, or its claimant is
about to store it, or the storage is emptied for good; so a caller that takes the claim and
finds the slot empty finds nothing made. `StackOK` gives the stacks their shape and
`CurrentIsLive` says that what the variable holds was not ended. One lemma per invariant
and group of actions shows each kept; a stack changes in three ways only (the top changes,
returns, or calls), and there is a lemma for each.

`EnteredOK` follows a resource: entered by a caller about to register it, then in the
activation's list, then exited, and in one of these places only (`CountOK`, `ListOK`), unless
it was `overtaken` on its way to the list. It rests on `NothingMade`, which keeps a second caller from entering it, and on
`CurrentIsLive`, which keeps an activation whose list was taken from being used again.
`DependOK` adds the order: what a computation got from storage in use is in the list already
(`UsedOK`, `CachedListed`), so when its own resource is appended, it comes after all it was
built from (`UsesOK`), and the list is worked off from its end. The case that makes this
hard is a computation whose activation ends while it runs: its values may be gone from the
cache, but then its resource is not appended either, unless it was `overtaken`. `CyclesOK` says, for a rank of the
functions, that a stack of calls goes down the ranks, that who waits on an entry is inside a
waiting call of it (`WaitOK`) and that who owns a claim is inside its computation
(`OwnedOK`). So who owns what a caller waits for, if it waits too, waits for an entry of a
lower rank, and a circle of waiters would have no lowest rank (`NoCircle`).

`MemoInv`, for `MemoImplemented`, adds `ResultOK` to all of this: a claimant that is about
to return a value made it, and one about to return an error made none. That is inductive
only with `ClaimsHeld`, because it speaks of what was made for the entry, and nobody else
may make it meanwhile. With `MadeIsCached` a returned value is then kept, which is
`ScopedMemo`'s guard on `Finish`. There is one lemma per action of `ScopeCache`; those that
call, return or change the top of a stack use what that does to `MemoCalls` (`CallsPush`,
`CallsPop`, `CallsTop`). `EndedNotRefilled` says less than `ImplementsMemo` and is no
property of the run any more; it stays as part of the invariant.

### `OutboxProofs`

* `TypeCorrect`, `SentOnlyIfPublished`, `ParkedOnlyIfExhausted`: `TypeOK`,
  `SentWasPublished` and `ParkedAfterMaxAttempts` for any number of relays, records,
  attempts and faults, whether leases lapse or not.
* `RelaysExclude`, `DeliveryImplemented`: while leases last, `OneRelayPerRecord`, and the
  refinement of `OutboxDelivery`.
* `OutboxIsRelay`, `OutboxDelivers`: `Outbox`, the composition with the producers, is a
  refinement of `OutboxRelay`, so all of this holds of it too.

`ShapeOK` is `TypeOK` and that a record that is not parked has an attempt left, without
which a claimed copy could be out of range. `PublishedInv` adds that a relay's list of
published records is delivered. `ParkedInv` compares the attempts of the store and of each
relay's copy with the failures that happened: both only ever lag behind, which is why a
lapsed lease can undercount (section 6) but never park a record early.
`LeasedInv` says that a held record is leased and pending and held by one relay; it needs
that leases last, and from it each write of a relay is a step of `OutboxDelivery`. Eight of
the steps of a relay only get rid of records; `Sheds` is their common form, and each
invariant is proved of it once.

* `NothingRolledBackIsKept`, `NothingRolledBackIsPublished`: `PublishedOnlyIfCommitted` for any number of tasks and
  transactions, whoever commits in which order.
* `WhatCommitsIsKept`: `CommittedIsKept`, from `Structured`, without which it does not hold
  (section 6).
* `TransactionsImplemented`: each step of the producers is a step of `OutboxTransactions`, or
  a stutter for it; the relays change nothing of what it speaks of.

`TxInv` follows each record from the list a block stages it in to the store; `TxCommits`
adds that a block that is still entered has its list, which is what `Structured` secures.

### `ScopeTreeProofs`

* `TypeCorrect`, `ParentsOutlive`, `CountsExact`, `NestingRespected`: `TypeOK` and the three
  safety properties of the tree, for any number of contexts, any graph of scopes and any
  number of activations.
* `TreeImplemented`: the refinement of `ActivationTree`.

`TreeInv` is inductive. What the checks say of counts and variables lasts only because
no two contexts are in the steps of one activation (`Exclusive`), because what a variable
holds is open or emptied (`VarsOK`), and because what a context nests is a stack linked by
the tokens (`StacksOK`). The number of dependents is a cardinality, and so is that of the
surplus; each step adds or takes away one member of a finite set (`DependentGained`,
`DependentLost`, `DependentDeserted`).

### `SlotPoolProofs`

* `TypeCorrect`, `CallsReturnTheirOwn`, `LiveServe`: `TypeOK`, `NoForeignValue` and
  `LiveActivationsServe` for any number of threads, activations and functions, dense or
  sparse, shared or of a context.

A call reads a cell by the number its function had when it was decorated and takes what it
finds for its own, although the slot may have been another function's. `PoolInv` says why it
is: in a context scope the wrapper of a slot that was used before compares the function the
value was stored for (`SlotsOK`, `StorageOK`); in a shared scope every thread shows the one
live activation (`CurrentOK`), whose cell the finalizer empties before it frees the slot
(`FreshOK`), and nobody fills it until the next owner does (`ReadsOwn`). `ReachesSlot` is
what `LiveServe` needs: a dense storage in use is as long as the pool was when the call looked.

### `RabbitProofs`

Of `RabbitConsumer`:

* `ConsumerTypeCorrect`, `ExitCloses`: `ConsumerTypeOK` and `ExitedIsClosed`, if closing a
  connection does not raise (`~CloseMayFail`).
* `RegistrationsConsume`: `ConsumersAreRegistrations`, under the same assumption, for every
  handler that the last resumption has not `crossed`.
* `ChannelImplemented`: `ImplementsChannel`, each step a step of `ConsumerChannel` or a stutter.
* `ExitLeavesNothing`: `NothingLeft`, of the behaviours in which no `_recover` task is
  cancelled before its first step (`FirstStepTaken`): the race of section 6 is the only one.

The assumption is that of the run; what the code does without it, and to the handlers that
`crossed` names, is in section 6.
`LinkInv` says which of entering, recovering and leaving exclude each other, and so whose
connection may be open. `ResumeOK` and `ServeOK` follow each handler from its registration
to its consumer, through a lost channel and back. `LostOK` follows a connection whose channel
was lost: until it is closed it is the link's, the one being opened, or the one a `_recover`
task that has not begun yet is to close. In the refinement everything that ends a connection
goes through one lemma (`ShutsChannel`): as at most one is open (`OneOpen`), the channel is
shut by it, dropped, or not concerned.

Of `RabbitMessaging`:

* `NeverLostHolds`, `DeadAfterRetriesHolds`, `ClosingHidesNothingHolds`: `NeverLost`,
  `DeadAfterRetries` and `ClosingHidesNothing`, for any messages, failure policy, prefetch
  count and number of resources, and any number of lost channels, restarts, exits and crashes.
* `TypeCorrect`: every variable's type.
* `DeliveriesOnTheChannel`: `OnTheChannel`, the refinement of `ConsumerChannel`.

The run `consumer` checks the first refinement. No run lists the second: added to the
`PROPERTIES` of `RabbitMessaging.cfg`, TLC finds it to hold there.

`IInv` is inductive. Each action's effect on the copies and the deliveries is proved once
(`DeliverEffect`, `LostEffect`, `AckEffect`, ...); `StepKinds` then says that a step lets the
deliveries rest (`Rests`), requeues what is unacked (`Requeues`), starts one delivery
(`Arrives`) or takes one on (`TaskStep`), and each invariant is proved of these four.
`DeliverEffect` needs that a tag is free: by `UnackedOK` the deliveries on the channel in use
are all unacked, of which there are fewer than tags (`TagIsFree`).

`NeverLost` is not inductive: an ack takes a copy away, and what stays must be something
else. `KeptBeyond(m, a)` says that m is kept without its copies tried a times or less, and
`ReplacedOK` that this holds of a failed delivery once it is to be acked, as the broker has
its copy of the next attempt, or there is nothing left to try. So no step, `Ack` included,
ends `KeptBeyond` (`KeptOn`), and each emit that is confirmed begins with
`KeptBeyond(m, -1)` (`PublishedIsLive`), because a publisher that declares the topology finds
the queue bound as long as its channel is open (`QueueBound`), and a mandatory message is
returned otherwise. `AttemptsOK` says that no copy's attempts run ahead of its message's
failures, and what a delivery at each step knows of them; it gives `DeadAfterRetries`, and
with it what "nothing left to try" means. `StackOK` says what the recorded errors stand for
at every exit: `ExitedOK` proves it of one exit whatever it ends in, `SettledOK` what the
close ends in.

### `EmissionProofs`

* `UnwindsInOrder`, `ErrorsKept`, `HandlersEndFirst`: `UnwoundInnermostFirst`, `ErrorsStand`
  and `HandlersAccounted`, for any number of handlers and of middleware and hooks around the
  emit and each handler, on either bus and in either pattern, whatever fails or is cancelled.

`EmissionInv` is inductive. `LayersOK` says that a chain is inside of the layers 1 to n it
entered and has left those above n, one after the other, so popping the last of them leaves
the innermost (`UnwindsInOrder`). `Stands` is that an error that an exit saw is still there
after it. An exit that swallows a cancellation needs that it comes back: `OwnErrors` says
that an error with the caller's name is a cancellation that the task still remembers, and
`TaskOK` that only an asynchronous task is cancelled (`ErrorsKept`). `FanOK` follows a
dispatch: what the emit is doing tells which handlers have not begun, run, and are done, on a
synchronous bus one at a time and none after one whose failure propagates; from how they
ended it tells which hooks follow (`HandlersEndFirst`). Every step but an exit and the two
dispatches moves one chain on before its first exit; `Advances` is that form, and each
invariant is proved of it once.

### `WebRequestsProofs`

* `ScopesEnd`, `ChecksDecide`, `CausesFollowed`: `ScopesEndWithCause`, `ChecksGuard` and
  `ChainsFollowCauses`, for any number of requests, of tasks that serve them and of messages,
  any number of checks in any mode and any groups, and every way of serving that
  `ServingAssumption` admits.

`RequestsInv` has three parts. `Place` says, for each place a request can be at, whether its
activation is still to be closed, and which error it would be closed with: an open activation
of a request whose endpoint raised is carried past the framework's handlers only by a class
endpoint, whose error they do not touch. `Carried` says the same of a request with a handler
scope: what left that scope, unless the framework answers it, is still the error on the way
to the end of the request's scope, and nothing has been sent. `GuardOK` says how far a guard is: what the checks
before the current one showed (`SettledTo`: all failed, all held, or each did one of the two,
and `failed` tells whether any failed) and what the parts before the current one gave. It is
proved of `AfterPart` from the three ways a check can end (`PassedOK`, `SettleOK`,
`FollowingOK`). `Stacked` says that what a request's task is handling is a stack of
envelopes, the topmost of which is current, which needs that a task serves one request at a
time (`Alone`); `Apart` that two requests with one correlation id have it from the caller,
as an id of a request's own is below the next id.

### `InjectionProofs`

* `OverridesEndAtLast`, `OwnOverrideFirst`, `ResolutionIsSound`: `OverridesEnd`, `OwnOverride`
  and `ResolutionSound` for any callables and graph of providers, any blocks of overrides
  nested to any depth, and any number of threads, contexts and interrupts. The count is that
  of the overrides held and of those that an interrupt inside an entry has lost.
* `NoRevival`: `NoRevivedOverride`, which the code violates (section 6), for every program
  that starts no task inside a block of overrides (`OutsideSpec`), and `DependencyOutside`:
  there a context that is in no override of a provider, and keeps nothing of an interrupted
  entry, gets the dependency.
* `TypeCorrect`: among the types, that the count of a provider is never negative.

`InjectionInv` has a part for each half of the component. `BlocksOK` says that a block has a
token for each override it has entered, no two of one callable. `CountsOK` is `OverridesEnd`
with what a provider under an override gives: a count above zero means it gives the override,
so ending one (`ExitCounts`) always finds something to count down. What an interrupt cut
keeps its place in the count for good (`QuietCounts`). `ValuesOK` is
`OwnOverride` for the present and for later: a context's value is that of its innermost
block, and the token in a block is that of the innermost below it, so leaving a block in
order restores what the next one promised (`ExitValues`). What other contexts do leaves
both alone, as the variable is theirs (`Below` and `EnteredAt` of another context do not
change). A step that enters or leaves nothing keeps all tokens (`TokensKept`).

`NoRevival` says where the departure at `overriding.py:104` ends. `ValuesOK` is silent on a
context that has entered no override of a provider; `UnsetOK` says that it then has no value
of it, and that the outermost block that overrides it puts none back. Only a task started
inside a block breaks that, as it is given the block's value and none of its tokens. With
`UnsetOK` such a context gets the dependency whatever the provider's one `provide` field is
at the moment (`DependencySeen`), and a context gets the dependency only if it is in no
override (`SeenOwn`), so a step that is not its own changes nothing.

`ResolutionInv` is about walks over a graph that several threads resolve at once. `Path` says
that the stack of a walk leads from the callable that is decorated down the graph, `Behind`
that what it passed is resolved, has no default and is not refused, and `Walk` that what it
began to resolve is on its stack or resolved. So a callable that is met again while it is
being resolved is on the walk's own stack and reached from itself (`RoundACycle`): an error
of a cycle is never another thread's doing. `GraphOK` says that what is resolved or decorated
can be run, needs only what is resolved, and does not need itself. The last is the hard part:
when a callable is resolved, all it needs was resolved before, so if it needed itself it
would be resolved already. It is kept by what failed half-way, too, as nothing is resolved
before all of its own parameters are. As `Reachable` is the least closed set, and what is
resolved is closed, all that a decorated callable needs is resolved (`ResolvedReach`); no
induction along the graph is needed. `ErrorsOK` keeps the reason of an error.

### What is only model-checked

Liveness (`EveryCallReturns`, `EventuallySettled`, `EventuallyConsumed`, `ExitReturns`,
`EmitsReturn`, `EmitReturns`) and whatever else rests on fairness or on `ENABLED` is beyond
the prover, and so is induction over data: `Serde`, whose functions are recursive over
values, stays with TLC. Every other property of the runs is proved.

## 6. Where the code departs from its documentation

Met while modelling, each at its line and with the way to see it. Change the constant or
add the property named to the run's configuration and TLC prints the behaviour.

* `lifecycle/_wrappers.py:460` (and 253, 524): the second read of a slot, under the lock or
  after `get_slots()`, indexes storage that another thread may have emptied, and the
  storage's bare `IndexError` or `KeyError` reaches the caller;
  `tests/unit/lifecycle/sync/test_ended_activation.py:189` says
  "ScopeInactiveError should be raised, not the emptied storage's IndexError/KeyError."
  Property `EmptiedStorageRaisesCleanly` in `ScopeCache.cfg`. The append of a late resource
  (below) may raise the same error.
* `lifecycle/_stack.py:176-179` (and 195-198, 209-212, 228-231): `if not slots` and
  `slots[0].append` are two steps. Storage emptied by another thread in between has no slot 0,
  or, if `slots[0]` was read already, its list is being drained, or was: the entered resource
  then is never exited, where 6-7 say "Deactivation empties the activation's storage before
  closing them, so an entry finishing after that sees the emptied storage, exits at once, and
  raises." `ResourcesExitOnce` in `ScopeCache.cfg` without its conjunct on `overtaken`.
* `lifecycle/_inflight.py:41` (and 73, 118): only a caller that itself owns a claim is told
  of a cycle. Two threads that call two mutually dependent functions from opposite ends wait
  on each other for ever, where `scope.py:17-18` says "A call that would wait on its own
  unfinished computation raises CacheCycleError". Property `NoWaitCycle` in `ScopeCache.cfg`
  with `Deps <- CyclicDeps`.
* `lifecycle/scope.py:311`: a shared activation is published before its token is stored.
  A deactivation by another thread in between makes the assignment raise, and the `except`
  clause gives the parent back a second time, so that the parent can be ended under another
  dependent; the comment at 313-314 says "Only a shared scope's set raises". Property
  `ActiveDependentKeepsParent` in `ScopeTree.cfg`.
* `lifecycle/scope.py:281`: a deactivation between the truth check of `get_slots` and
  `_extend` empties the list, which the extension then refills, so that an ended storage
  passes for a live one. Property `EndedStaysEmpty` in `SlotPool.cfg`. No value is served
  from it that is not the caller's own, which `NoForeignValue` shows. In the same race,
  `release_slot` (`scope.py:375`) may raise `IndexError` on the emptied list and leave the
  slot out of the pool for good.
* `events/outbox.py:598`: a failed attempt is counted on the copy the relay claimed, so of
  two relays of which one lost its lease the second overwrites the first one's count: a
  record that failed `max_attempts` times is still pending, where `outbox.py:30-31` says it
  is parked. Property `RetriesBounded` in `OutboxLapse.cfg`.
* `events/outbox.py:576-578`: a `mark_sent` that raises in the `finally` while the relay is
  being cancelled replaces the `CancelledError`. `_run` takes it for a failed batch (542) and
  goes on relaying, and `__aexit__`, which awaits it (519-522), does not return, where its
  docstring (517) says "Stop relaying." `MarkError` is this step. No property of the run
  speaks of it: what the relay goes on to do is right, and the wait of whoever leaves is
  no part of the model.
* `events/outbox.py:668`: the list of staged records stays reachable from a task that was
  created inside a `transaction()` block and outlives it. What it emits then is appended to a
  list nobody keeps, where 619-620 say "Records added inside `transaction()` are kept only if
  it exits cleanly ... Outside one, they're kept straight away." Property `CommittedIsKept` in
  `Outbox.cfg` with `Structured = FALSE`.
* `integrations/rabbitmq.py:1176`: a handler registered while `_resume` awaits the broker is
  in neither the tuple `_resume` goes over nor started by `handle`, which finds no channel:
  1124 says "Consumption starts now if connected, otherwise on entering the context." In the
  same window a handler that `remove()` cancels may keep its consumer (1156). Property
  `ConsumersAreRegistrations` in `Consumer.cfg` without `crossed`.
* `integrations/rabbitmq.py:427`: a `connection.close()` that raises while `_recover` is being
  cancelled replaces the cancellation; `_recover` counts it as one more failed attempt and
  goes on. `ExitedIsClosed` in `Consumer.cfg` with `CloseMayFail = TRUE`.
* `integrations/rabbitmq.py:471`: if the context is left in the turn of the loop in which the
  channel was lost, `close()` cancels the `_recover` task before its first step, and the stale
  connection, which only that task knows, is never closed; 1023 says "Stop consuming, wait for
  running handlers, and close the connection, if opened." Property `NothingLeft` added to
  `Consumer.cfg`. But for this race it is a theorem (`ExitLeavesNothing`).
* `depends/overriding.py:104`: a task started inside an override block keeps its copy of the
  variable. After the block it gets the dependency, but the ended override again whenever any
  other context overrides the provider; 4-5 say "restoring them on exit. Overrides are
  context-local, so concurrent tasks don't interfere." Property `NoRevivedOverride` in
  `Injection.cfg` with three contexts and `Configurations <- MCOverriding`. It needs a task
  started inside a block: without one the property is a theorem (`NoRevival`).
* `depends/overriding.py:121`: the `except` clause at 123 undoes the overrides entered when
  entering fails, and only an interrupt can make it fail. One that lands inside `__enter__`
  (88-97), or between it and `entered.append`, leaves an override that nobody undoes: the
  count stays up, the provider goes on giving `provide_override`, and the context may keep
  the value, where line 5 says "restoring them on exit". `OverridesEnd` in `Injection.cfg`
  without `lost[p]` and `torn` finds it.
* `serde.py:400-408`: `_construct_union` gives `None` for null before it looks at the members,
  also for `int | str`, where `docs/tutorials/serde.md:205` says "isn't allowed. `deserialize`
  raises `TypeError` there." `DecodesTheType` says what that line says (a union with more than
  one member that is not `None` gives nothing back), and leaves out this one call by name
  (`NullForAmbiguous`); without that conjunct `Serde.cfg` finds it. A `None` that is a
  dictionary's key is written as the key "null" and comes back as that text.
* `events/hooks.py:217`: a cancellation, or a `BaseException` of a hook, while the success or
  failure hooks are awaited skips the complete hooks, where line 22 says "`complete` still runs
  after `success` or `failure`". `checks.py:165` promises `CheckFailures` "if none pass"; of no
  checks at all `any_of()` passes. The first is what `Observe` does, and excluded by no property;
  groups of no checks are left out of `Checks`.

## 7. Not modelled

* Of the cache, the task-claimed style of a single event loop, the thread style of a context
  scope and the keyed style's dictionary of claims, and event loops that are closed under
  their waiters (`_inflight.py:82`).
* Of the outbox, `max_attempts=None`, the per-key order and the lengths of waits between polls.
* Of RabbitMQ, the encoding of messages, a broker that refuses a copy for a retry queue while
  the channel lives (`rabbitmq.py:1279`), and the cancellation of `__aenter__` / `__aexit__`.
* Of injection, two threads that register one provider at the same moment
  (`_provide.py:36`), and an `_Overrides.__exit__` that is interrupted half-way
  (`overriding.py:129`).
* Of the web integrations, the envelope's echo in the response's headers.
* `events/binding.py`, `patterns.py` and `protocols.py` derive types and signatures before
  anything runs; `codegen/` writes text; `context.py` is one `ContextVar`; the decorators,
  exceptions, telemetry and msgspec adapters keep no state. Modelling them would restate them.
