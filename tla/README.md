# A TLA+ verification of MicroPDProxy

MicroPDProxy (`src/xpyd`) is an asyncio/FastAPI proxy in front of LLM inference
servers.  A completion request is served either by a *prefill* instance followed
by a *decode* instance (P/D disaggregation) or by one *aggregated* instance.
Instances come and go at runtime, are probed, are guarded by circuit breakers,
and are drained before removal.  This directory holds TLA+ models of that
logic, TLC runs on small instances and TLAPS proofs for every instance.

## 1. The system: components, state, operations

| Component (source) | State | Operations | What is hard |
|---|---|---|---|
| Circuit breaker (`circuit_breaker.py`) | state, failure timestamps, open time, HALF-OPEN successes, pending flag | `allow_request`, `record_success`, `record_failure`, the self-changing `state` property | sliding window at its boundaries; results that arrive after the circuit opened |
| Instance registry (`registry.py`) | per address: role, model, status, `active_request_count`, breaker | add, remove, begin_draining, mark_*, increment/decrement, record_*, lookups | every other component writes to it between its own awaits |
| Health monitor (`health_monitor.py`) | node list, probes in flight | probe cycle, result callbacks, add/remove node | results for instances that were drained, removed or re-added |
| Completion requests (`routes/completions.py`, `proxy.py`) | one `_RequestReservation` per request, stage gauges | schedule, prefill, KV handoff, streaming body, aggregated path, failure paths | three layers release the same reservation; failure at every stage |
| Instance administration (`routes/admin.py`, `proxy.py`) | `_instance_mutation_lock`, admin requests in flight | add (validate, then lock), remove (lock, drain, delete) | validation is stale once the lock is granted; the drain can time out |
| Load-balanced policy (`scheduler/load_balanced.py`) | counters parallel to the instance lists | schedule, schedule_completion, add/remove instance | parallel arrays; counters must follow every request to its end |
| Other policies (`scheduler/`: round robin, consistent hash, cache aware, power of two) | cyclers, hash rings, a load table | schedule, complete, add/remove worker | one cycler for all models; rings edited in place; load in two tables |
| Aggregated routing (`schedule_aggregated` and its helpers in `proxy.py`) | lists by model, cached policies, counters | schedule, complete, add, drain and remove, model detection | a policy knows the instances of the moment it was built; a removal uses a model name read before its drain |
| Topology expansion (`topology.py`) | — | validate, expand | rank, node and port arithmetic |
| Node discovery and tokenizers (`discovery.py`, `ensure_tokenizer`) | healthy sets, notified models, tokenizers, fallback models | probe cycle, model detection, tokenizer load in a thread, readiness | probes in flight across list changes; errors inside a probe |
| ZMQ notification listener (`zmq_notifications.py`) | active ids, counts | register, wait with timeout, discard, receive | early, late and missing notifications |
| Retry helper (`resilience.py`), configuration (`config*.py`, `init_config.py`), metrics and pass-through routes, command line | — | — | mostly sequential |

All of it runs on one event loop: between two awaits a handler is atomic, so the
unit of interleaving, and of an action here, is *the code between two awaits*.
Tokenizers are loaded in a worker thread.  Components interact through direct
calls on the shared registry and through the admin lock; there is no persistence.

The correctness properties asked of each component are the ones in section 4;
the places in the code where they could go wrong are listed as `hazards` in
`PROJECT.json`, each with its source line.

## 2. The modules

```
BreakerStates ── AbstractBreaker (specification)
     │    └───── CircuitBreaker (timed, refines AbstractBreaker) ── CircuitBreaker_proofs
InstanceRegistry
     ├── HealthMonitor ── InstanceAdmin ─┐
     └── Completions ────────────────────┴─ ProxyCore ── ProxyCore_proofs
                                                 ├── MCProxyCore
                                                 └── CoreFindings ── MCCoreFindings
Discovery ── Discovery_proofs, MCDiscovery
ZmqNotifications ── ZmqNotifications_proofs
Collections ── CollectionFacts (lemmas)
     ├── LoadBalanced ── LoadBalanced_proofs, MCLoadBalanced
     │        └── FallbackLoad ── MCFallbackLoad
     ├── ModelRouting ── ModelRouting_proofs, MCModelRouting
     └── ConsistentHash ── CacheAware ─┐
         Topology, RoundRobin ─────────┤
         PowerOfTwoChoices ────────────┴─ PolicyPool (refines Affinity)
                                               └── PolicyPool_proofs, MCPolicyPool
```

* **BreakerStates** gives the breaker's operations as functions on what callers
  can see (state, HALF-OPEN successes, pending flag).  Whether a failure trips a
  CLOSED breaker is a parameter.  **AbstractBreaker** is the state machine over
  them: the contract of a breaker, without a clock.
* **CircuitBreaker** is `circuit_breaker.py` with clock, timestamps and purge; one
  action per method.  The ghost variable `log` keeps the failures the code forgets.
  `View` is the refinement mapping: what reading the breaker *now* would show
  (an OPEN breaker past its timeout already reads HALF-OPEN).
* **InstanceRegistry** is `registry.py` as tables indexed by address.  The breakers
  in it are the abstract ones; `CircuitBreaker_proofs` justifies that.
* **HealthMonitor**: `ProbeAll` starts one probe per node, `ProbeResult` is a
  callback at any later time.
* **Completions**: `phase` is the await a request is at.  `Schedule` reserves both
  instances, `PrefillDone`/`PrefillFails` end the prefill call,
  `HandoffDone`/`HandoffFails` the checks and the ZMQ wait, `StartDecode` is the
  early release of the prefill reservation by the two first-token generators,
  `BodyEnds`/`BodyFails` the end of the body with everything the inner generator,
  `wrapped_generator` and the outer handlers do; `ScheduleUndone` is a request
  turned away after scheduling.  `Release` is `Proxy.exception_handler`, which
  records a success on every path, as the code does.  On the aggregated path
  `AggregatedUnrenderable` is an answer that is accounted for and then cannot be
  rendered, so that the handler of the same `try` accounts for it again
  (`completions.py:1125`, 1139-1152), and `AggregatedGone` a request whose instance
  was removed under it as a consequence: its accounting raises `KeyError`.  The ghost
  `robbed` holds the instances whose count lost a request this way, until their
  requests are over; `drift` is how far the request gauge is off for good.
* **InstanceAdmin**: `RequestAdd` → `Validated` → `AddLocked`; `RequestRemove` →
  `RemoveRefused`, `RemoveIdle`, or `StartDrain` → `DrainDone` or `DrainTimeout`.
* **ProxyCore** composes requests, admin requests, monitor and breaker timeouts,
  and states the safety and liveness properties.
* **CoreFindings** holds statements of the documentation the composition violates.
* **LoadBalanced** is the default policy: one role's list with its parallel
  counters.  The initial choice of `kind` makes one run cover both roles.
  **FallbackLoad** is the same policy while its model is downgraded to roundrobin.
* **Discovery** is the probe loop with model detection, tokenizer loading and
  `is_ready`; `strict` says whether `tokenizer_path` is set.
* **ZmqNotifications** is the listener's two tables with the handler steps that use
  them (`Register`, `StartWait`, `WaitDone`, `WaitTimeout`, `Discard`) and `Receive`;
  `Transfer` and `Lose` are LMCache and the network.  `Completions` sees the same
  wait as one step, `HandoffDone` or `HandoffFails`.
* **Topology**, **RoundRobin**, **ConsistentHash**, **CacheAware** and
  **PowerOfTwoChoices** are pure
  operators: the expansion of a node list; the draws `schedule` makes from a cycler;
  the ring as a sorted list with a dict, and as two parallel lists; the policy's own
  load table and the choice between two candidates.  SHA-256 is an
  injective table; how a routing key is chosen (header, session, user, address or
  the first tokens of a prompt) is abstracted to the key's hash.
* **PolicyPool** is the prefill and decode side of `Proxy` under each of these
  policies: the lists `ProxyServer.__init__` builds from a topology or from
  `instances`, the two cyclers, the ring or load table, requests of every model with and without
  a tokenizer, and instances that join, leave or change availability.  Discovery
  has the same list object as the proxy, so a removal takes out two entries of an
  address that is listed twice (`Without`).  The ghost `turn` counts whom a cycler
  served, `wave` has the candidates of the requests since a role was last idle.
* **Affinity** is the abstract specification of a policy with affinity: each key has
  a home among the candidates, and when an instance comes or goes only keys move
  that had it, or now have it, as their home.
* **ModelRouting** is the aggregated side of `Proxy` for several models.  `listed`,
  `built`, `workers` and `counter` are `aggregated_instances`,
  `_aggregated_policies` and `_aggregated_rr_counters`.  `Detect` is `update_model`
  by discovery; an addition is `Validate` and later `Add` or `AddRefused`, a removal
  `StartRemoval`, which copies the model name, and later `FinishRemoval` or
  `RemovalTimesOut`.  A ring may choose any available worker of its own, depending
  on the key (`PolicyPool` has the rings in detail).  The ghosts `late` and `strays`
  mark the instances named after their model's policy was built and while drained.
  A backend serves the same model all the time.

* **Collections** has the two recursive helpers the models share, a list comprehension
  with a filter (`Where`) and a sum (`Total`), as recursive functions and not as folds
  with an operator, so that they can be reasoned about.  **CollectionFacts** states
  what they and the list operations of the community modules compute.

`PROJECT.json` maps every definition to the lines it models.  Definitions marked
*Faulty* are deliberately wrong variants of the definition that follows them;
no specification uses them.  They document which mistake each property catches.

## 3. Runs

| Run | Bounds | What it shows |
|---|---|---|
| `breaker_timed` | threshold 3, window 2, timeout 2, 2 successes, clock to 7 | window exactness both ways, OPEN lasts its timeout, refinement of AbstractBreaker |
| `core_admin` | 3 addresses, 2 requests, 2 admin requests; the decode instance leaves, another address joins and leaves as decode or aggregated; one unrenderable answer | type invariant, exact counts, no removal in use, gauges, draining is final; a draining instance runs empty and every admin request is answered |
| `core_monitor` | the same with 1 admin request, monitor and breakers on, one instance that can trip; one unrenderable answer | counts and draining against late health and request results; monitor list = registry |
| `load_balanced` | 3 addresses with different limits, 3 requests, lengths 0, 1, 3 | counters aligned and exact; the choice is least loaded by real load |
| `discovery` | 2 addresses, 2 models (one whose tokenizer cannot be loaded), with and without `tokenizer_path` | no resurrection by stale probes, one load per model, readiness is reached and kept |
| `zmq` | 2 requests, 2 notifications each | no forwarding before the transfers, consistent tables, no leaked id but one, every request settles |
| `policies` | every valid topology of up to 4 nodes, TP and DP to 4, 1, 2 or 4 ranks on a node; a pool with an overlapping topology and one with two models and an address configured twice; 2 virtual nodes, 3 keys; 3 requests in flight under power of two, 1 under the others | expansion, rings, availability, evenness, load, refinement of Affinity |
| `routing` | 2 instances of one model and 1 of another, one of them unnamed at first, 6 assignments of strategies, 1 request in flight, 1 addition and 1 removal at a time | lists and cached policies stay true to the registry; refusals are justified |
| `half_open_probed`, `failure_as_success`, `null_max_tokens` (violated) | 1 prefill, 2 decode, 1–3 requests | findings 1–3 below |
| `fallback_load` (violated) | 2 addresses, 2 requests | finding 4 |

Why the bounds suffice: the breaker's clock outlasts a full window, an OPEN
period and a second window.  Two requests make one instance shared and one
released twice observable; two admin requests make the lock contended and a
validation stale; three addresses give a P/D pair plus one that changes role.
Three requests fill two load-balanced instances unevenly; lengths include 0 (no
tokenizer) and one that only some limits admit.  Two addresses report a new model
at the same time, or one returns under the other's role.
Interleaved virtual nodes of three prefill instances give each key a first, second
and third choice.  The topologies have nodes with several instances, of one rank and
of two, with one and with none, and ranges that overlap.  Three requests let power of
two favour one of three candidates.  One unrenderable answer beside one other request
on the same instance shows all its consequences.  In `routing` a model has an instance to lose
and one to keep, so a policy can be built with, before and after each of them.
`Explored` says which deployments of `policies` go beyond their initial state,
`Joining` which additions are tried, `Untokenized` which models may lack a
tokenizer, `Flaky` whose availability changes, `Nameless` who starts without a
model, `Schedulers` which strategies, `MaxInFlight` how many requests.  `CanTrip`, `MaxTime`,
`MaxDrift` and `MaxActive` are bounds of the runs, not of the code.  Request and admin symmetry is
used only in runs without liveness.  Two notifications per request make a partial
set of them possible.  Deadlock checking is off only where the model really ends:
in the runs of a breaker, whose clock ends, and in `zmq`, where an id is used once.

**Fairness.** `core_admin` assumes weak fairness of the drain loop (it wakes every
50 ms and has a deadline); strong fairness for a waiter on `asyncio.Lock`, which is
first come, first served, so that other waiters can overtake only finitely often;
and weak fairness of the monitor loop and of time.  Calls to backends have no
client timeout (`AIOHTTP_TIMEOUT` sets none), so that a request or a validation ends
is *not* fairness of the proxy: `BackendsAnswer` states it as an assumption on the
environment, and `DrainSettles` is conditional on it.  `AdminAnswered` does not need
it: whatever backends do, a validated addition and every removal is answered.
Nothing is assumed about arrivals, so requests may keep coming for ever.
`discovery` assumes that a probe ends (its session has a timeout of 5 s), that a
tokenizer load ends, and that the loop goes on.  `zmq` assumes that the wait ends
(it has a timeout) and nothing about the prefill call, so `RequestsSettle` starts
from a request that waits; notifications may all be lost.  `policies` and `routing`
check safety only.

## 4. Properties

* `ClosedMeansBelowThreshold`, `OpensOnlyOnBurst`: a circuit opens when, and only
  when, `FailureThreshold` failures lie within the window, successes between them or
  not.
* `OpenLastsTimeout`: no call, late results included, ends OPEN early.
* `ActiveCountExact`: the count a drain waits on equals the number of requests that
  hold a reservation, whichever path each took.  It is never higher; it is lower only
  on an instance where an unrenderable answer was given back twice.
* `HeldAreRegistered`: no instance is removed or re-registered while in use, with the
  same exception.
* `DrainingIsFinal`: a draining instance gets no new request, and no health result,
  timeout or stale addition puts it back.
* `GaugesBalanced`: every way out undoes the gauge increments of the way in, except
  the two ways `drift` counts.
* `MonitorCoversRegistry`: monitor list and registry hold the same addresses.
* `DrainSettles`, `AdminAnswered`: drains and the lock make progress.  The first
  excepts behaviours in which a P/D request lost its instance to a removal in use.
* `CountersExact`: the policy's counters are the real load.  `LeastLoaded`: a request
  is given an instance whose real load is least among all available instances that
  admit it, by tokens for prefill, by requests and then tokens for decode.
* `HealthyAreListed`, `OneLoader`, `BecomesReady`: readiness rests on current
  instances only, tokenizers are loaded once, readiness is reached, unless a tokenizer
  of the configured path could not be loaded.
* `ForwardedAfterTransfer`: the decoder gets a request only after every one of its
  transfers is done.  `TablesAgree`: no order of messages and timeouts makes the
  receive task look up a missing count.  `IdsGivenUp`: ids leave the tables with
  their request, except when the prefill answer is not UTF-8; the exception is
  part of the statement.  `RequestsSettle`: lost notifications strand no request.
* `ExpansionSound`: topology expansion agrees with a declarative account of which
  instance is on which node and port.
* `RingExact`: any sequence of additions and removals leaves the ring that a proxy
  started with the present instances would build.  `RefinesAffinity`: only the keys
  of the instance that changed move.
* `FindsAvailable`, `EvenShare`, `PairsKeepLevel`: no policy overlooks an available
  instance; round robin is even; while requests with the same candidates arrive at an
  idle role, power of two lets none of them get two requests ahead of all others, so
  it must not go by its own table, which the proxy never raises.
  The exceptions in the first two are the code's, see below.
* `NamedListsExact`, `ServedIfAvailable`, `NoStrangers`, `ProbesReachLive`: a removed
  instance is in no list and no policy of a named model; a request is refused only
  for want of an available instance its policy knows; status requests reach all
  registered instances and prefer available ones.

### Where code and documentation disagree

1. A HALF-OPEN instance is excluded from scheduling and nothing else probes it, so
   once older requests are over it never recovers.
2. A failed request records a success first and can close a HALF-OPEN breaker.
3. `"max_tokens": null` under the default policy leaks a reservation of the prefill
   instance, which can then never be removed.
4. Requests without a model name, while the served model is downgraded to
   roundrobin, raise the load-balanced counters for ever.

Each is a run with `expect: violation`; `PROJECT.json` quotes the sentences.

Smaller disagreements are exceptions in the statement of a property, or remarks:

* An aggregated answer with `NaN`, `Infinity` or half a surrogate pair passes
  `json.loads` and fails in `JSONResponse`, after its reservation was given back; the
  handler gives it back again.  If another request is on the instance, its count is
  lost and a drain no longer waits for it, although `docs/api_reference.md:218-222`
  has a removal wait for the active requests (exceptions in `ActiveCountExact`,
  `HeldAreRegistered`, `GaugesBalanced`, `DrainSettles`).  The breaker gets a success
  and a failure for one request.
* `docs/resilience.md:154`, 163 and 179 say that *consecutive* failures open a circuit.
  The code, on purpose (`circuit_breaker.py:139-142`), keeps the failures when a
  success lies between them; `ClosedMeansBelowThreshold` and `OpensOnlyOnBurst` state
  what the code does.
* `docs/scheduling.md:51-58` has the load-balanced policy choose by the fewest active
  requests.  The code does so for decode and goes by tokens for prefill; `LeastLoaded`
  says which for each.
* `docs/configuration.md:128` puts the instances of a node `tp_size` ports apart and
  line 283 wants `tp_size` to divide `world_size_per_node`.  The code uses consecutive
  ports and lets an instance span several nodes (`ExpansionSound`).
* Round robin gives up at the second sight of *any* address; with an address twice
  in the list it may do so before a full cycle, contrary to the comment at
  `round_robin.py:41-42` (exception in `FindsAvailable`).
* "Every instance gets exactly the same number of requests" (`docs/scheduling.md`)
  holds while all requests have the same candidates; the cycler of a role is shared
  by all models, whose requests can starve one another's instances (exception in
  `EvenShare`).
* An instance whose model is detected after the ring of that model was built never
  joins the ring.  If it is the only one available, requests get 503 (exception in
  `ServedIfAvailable`).
* An instance configured without a model and removed after its detection stays in
  the list of no name, and one named during its drain stays in its model's cached
  policy, where registry checks keep it from being chosen (exceptions in
  `NamedListsExact`, `NoStrangers`).
* `_is_aggregated_model` says "all instances for a model are aggregated-role" and
  asks for one.  An aggregated instance added to a model with prefill and decode
  instances takes all its requests (not modelled, listed as a hazard).
* `allow_request` promises one probe at a time, but a late success of an older
  request clears the pending flag (`BreakerStates.AfterSuccess`).  The proxy never
  calls `allow_request`.
* A tokenizer that cannot be loaded from `tokenizer_path` does not stop the proxy, as
  `docs/configuration.md:90-91` has it: the probe swallows the error
  (`Discovery.TokenizerDone`) and the model is not tried again (exception in
  `BecomesReady`).

## 5. Proofs

Every invariant and action property of the passing runs, and both refinements, are
also theorems: they hold for every value of the constants that satisfies the
`ASSUME`s beside them.  Each module proves one inductive invariant with one lemma or
step per action, and derives the properties from it.

| Module | Inductive invariant | Theorems, with the property each states |
|---|---|---|
| `CircuitBreaker_proofs` | `HalfOpenCounters`, `WindowInv` | `Refinement`, `OpenForTheTimeout`, `BreakerTypeCorrect`, `ClosedIsBelowThreshold` (`ClosedMeansBelowThreshold`), `OpensOnBurst` (`OpensOnlyOnBurst`) |
| `ProxyCore_proofs` | `IInv` | `TypeCorrect`, `CountsAreExact` (`ActiveCountExact`), `NeverRemovedInUse` (`HeldAreRegistered`), `DrainingNeverResumes` (`DrainingIsFinal`), `GaugesAreExact` (`GaugesBalanced`), `MonitorAlwaysCovers` (`MonitorCoversRegistry`) |
| `ZmqNotifications_proofs` | `IInv` with `Accounted` | `ZmqTypeCorrect`, `TablesAlwaysAgree`, `ForwardedOnlyAfterTransfer`, `IdsAreGivenUp` |
| `Discovery_proofs` | `IInv` with `ProbeInv` | `DiscoveryTypeCorrect`, `HealthyAlwaysListed`, `OneLoaderAlways` |
| `LoadBalanced_proofs` | `LoadInv` | `LoadTypeCorrect`, `CountersAlwaysExact`, `AlwaysLeastLoaded` |
| `ModelRouting_proofs` | `RoutingInv` | `RoutingTypeCorrect`, `NamedListsAlwaysExact`, `NeverStrangers`, `ProbesAlwaysReachLive`, `AlwaysServedIfAvailable` |
| `PolicyPool_proofs` | `PoolInv`, `RingInv`, `LevelInv` | `PoolTypeCorrect`, `RoundRobinIsEven` (`EvenShare`), `PairsAlwaysLevel` (`PairsKeepLevel`), `RingAlwaysExact`, `AlwaysFindsAvailable`, `RingsImplementAffinity` (`RefinesAffinity`), `ExpansionAlwaysSound` (`ExpansionSound`) |

Why the properties alone are not inductive, and what had to be added:

* **Reservations.**  A release decrements the count of the address in the
  reservation, so `ActiveCountExact` needs to know *which* reservations are open in
  which phase (`RequestShape`), that admin requests in flight name a real address and
  role (`TaskTargets`), and that a removed address keeps nothing of its drain
  (`UnregisteredNotDraining`) and no count (`UnregisteredIdle`).  `HeldAreRegistered`
  follows because a removal needs a count of zero and the count is exact; in turn it
  keeps an addition, which resets the count, from hitting an address in use.  An
  instance that lost a count stays in `robbed` until nobody holds it, so the exception
  ends there and does not spread to other instances.
* **Breaker.**  `HalfOpenCounters`: the HALF-OPEN counters are zero outside HALF-OPEN
  and no circuit was opened in the future; otherwise a breaker that reads HALF-OPEN
  could show counters no abstract breaker has.  `WindowInv`: while the circuit is
  CLOSED the remembered timestamps are the end of the ghost log, and everything
  forgotten is older than the window.
* **Notifications.**  The wait trusts the count in the table.  `Accounted`: each
  notification, counted or still on its way, stands for a transfer of its own, so a
  count never runs ahead of the transfers.
* **Discovery.**  `ProbeInv`: a model whose tokenizer is under way has exactly one probe
  that loads it and any other model none, and no probe is left behind when the loop
  sleeps.  "At most one loader" alone would not survive a load that ends or a new cycle.
* **Load balancing.**  `LoadInv`: the four lists have the same length, a request in
  flight is on a listed instance, and the entries at the index of an address are
  about that address.  An addition or removal then moves all of them alike.
* **Routing.**  `RoutingInv`: the model name a removal copied is still the one of its
  instance, or there was none and no named list has the instance (`RemovalInStep`);
  a cached policy lacks only instances detected after it was built (`PoliciesCover`).
* **Round robin.**  The even share of one candidate says nothing about the next
  request.  `InTurn` does: the candidates that are ahead by one are those the cycler
  will come to last.  It also gives that a full cycle finds any listed candidate.
* **Power of two.**  `LevelInv`: all requests of the role are on candidates of the
  wave, which have that role still.  Then a request that finds two or more candidates
  goes to one that has no more than some other, and gets at most one ahead of it.
* **Rings.**  `RingInv`: the ring is complete, that is, in order and with exactly the
  virtual nodes of the registered instances.  `AddNodeFacts`, `RemoveNodeFacts` and
  `InsertNodeFacts` follow one virtual node through `bisect` and the list operations,
  with some nodes of a worker in the ring and others not yet; the loops over virtual
  nodes and over workers go from complete ring to complete ring.
* **Affinity.**  `IsHome` says that of all virtual nodes of the candidates one of this
  instance comes first clockwise from the key.  The ring does not occur in it.
  `ScanFindsHome` shows that the scans of both policies, with their wrap-around at the
  end of the list, find it; `HomesStay` that homes over two sets of candidates that
  differ in one instance differ only as Affinity allows, because hashes are distinct.
* **Expansion.**  The topology never changes, so the argument is arithmetic.  What
  `validate_topology` accepts is only that two powers of two multiply to the number of
  ranks; from it `OneDividesOther` shows that the TP size and the node size divide one
  another in one direction or the other (the node size itself need not be a power of
  two).  `Fits` names the outcome: P instances on each of c nodes, S nodes apart.
  Then the first rank of instance i lies on node S * (i div P) (`FirstRank`), and
  exactly i mod P earlier instances are on it (`Endpoints`).

The prover has no induction over operators.  `CollectionFacts` therefore shows what
the recursive filter, the sum and the loops compute by taking the least argument for
which the claim fails, which cannot exist (`LeastElement`, `InductionUpTo`).

**Assumptions.**  Addresses and requests are arbitrary sets, finite where the code
adds up or counts over them.  `Timeout` is positive because with 0 a breaker has no
OPEN state to speak of; `FailureThreshold` is positive because 0 behaves like 1.
Hashes of virtual nodes are distinct natural numbers (SHA-256), there is at least one
virtual node, and configured lists and topologies contain only addresses.  Sizes and
base ports of a topology are natural numbers; whether the sizes fit is what `Valid`
decides.

**Model-checked only:** the liveness properties, which are out of the prover's reach.

## 6. Not modelled

* Aggregated and P/D instances of one model together, see above.  The composition in
  `ProxyCore` has one model and lets a policy pick any available instance or none,
  which covers each of them; `PolicyPool` and `ModelRouting` add the models.
* What follows when a P/D request releases an instance that is gone, possible only
  after a removal in use: the `KeyError` of its release is not followed further.
* Policies without a registry (`select`, `safe_next`, `get`): the proxy always has one.
* Duplicate addresses in `LoadBalanced` and `ProxyCore`; `PolicyPool` has them.
* Payload conversion, logging, histograms, authentication and input syntax.
* Handlers cancelled from outside and response bodies that are never iterated: the
  models assume that a handler or a body, once started, runs to an end.
* The rollback in `add_instance` (its calls do not fail for a validated address),
  and start and stop of background tasks.
* Retry helper: only its configuration class is used, `ResilienceHandler` is called
  nowhere.  Configuration files, command line and pass-through routes: no state
  after startup.

## 7. Plan

1. *Done:* breaker, registry, monitor, completions, administration, their
   composition, every scheduling policy, topology expansion, routing of aggregated
   models, discovery, ZMQ notifications; invariance proofs for all of them, the
   breaker's and the rings' refinements.
2. *Left:* aggregated and P/D instances of one model together.
