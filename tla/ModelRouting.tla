---------------------------- MODULE ModelRouting ----------------------------
(***************************************************************************)
(* Aggregated instances of several models: Proxy.schedule_aggregated with  *)
(* its lists, counters and cached per-model policies, discovery naming the *)
(* model of an instance that was configured without one, and the admin     *)
(* requests that add and remove instances.  A removal reads the model of   *)
(* its instance before the drain and uses it after; a cached policy knows  *)
(* the instances of the moment it was built.                               *)
(***************************************************************************)
EXTENDS Collections

CONSTANTS Addr,        \* addresses of aggregated instances
          Model,       \* model names
          NoName,      \* "", the model of an instance before it is detected
          NoModel,     \* the model of an address that is not registered
          Serves,      \* the model the backend at an address serves
          NoAddr,      \* no removal or addition in progress
          Order,       \* the order of the configuration
          Nameless,    \* bound: the addresses configured without a model
          Schedulers,  \* bound: the strategies of the models that are tried
          Untokenized, \* bound: the models that may lack a tokenizer
          Flaky,       \* bound: the addresses whose health or breaker changes
          MaxInFlight  \* bound: requests in flight

Name == Model \cup {NoName}
Strategy == {"loadbalanced", "roundrobin", "ring", "power_of_two"}

ASSUME RoutingAssumption ==
    /\ NoName \notin Model /\ NoModel \notin Model \cup {NoName}
    /\ Serves \in [Addr -> Model]
    /\ NoAddr \notin Addr
    /\ Order \in Seq(Addr) /\ ToSet(Order) = Addr /\ IsInjective(Order)
    /\ Nameless \subseteq Addr /\ Flaky \subseteq Addr
    /\ Schedulers \subseteq [Name -> Strategy] /\ Untokenized \subseteq Model
    /\ MaxInFlight \in Nat

VARIABLES registry,    \* the registered addresses, in the order of the dict
          model,       \* info.model
          status,      \* "up", "down" or "draining"
          active,      \* active_request_count
          listed,      \* aggregated_instances, by model
          strategy,    \* model_schedulers, or else the global policy
          downgraded,  \* _round_robin_models
          built,       \* the models that have an entry in _aggregated_policies
          workers,     \* the workers of those policies
          counter,     \* _aggregated_rr_counters
          removal,     \* the removal that holds the lock
          adding,      \* the instance whose addition waits for the lock
          late,        \* ghost: named after the policy of their model was built
          strays       \* ghost: named while they were drained

registryVars == <<registry, model, status, active>>
policyVars == <<built, workers, counter>>
vars == <<registryVars, listed, strategy, downgraded, policyVars,
          removal, adding, late, strays>>

Registered == ToSet(registry)
Idle == [addr |-> NoAddr, model |-> NoName]

RoutingTypeOK ==
    /\ registry \in Seq(Addr) /\ IsInjective(registry)
    /\ model \in [Addr -> Name \cup {NoModel}]
    /\ \A a \in Addr : model[a] = NoModel <=> a \notin Registered
    /\ status \in [Addr -> {"up", "down", "draining"}]
    /\ active \in [Addr -> Nat]
    /\ \A m \in Name : listed[m] \in Seq(Addr)
    /\ strategy \in [Name -> Strategy]
    /\ downgraded \subseteq Model /\ built \subseteq Name
    /\ workers \in [Name -> SUBSET Addr]
    /\ counter \in [Name -> 0 .. Cardinality(Addr)]
    /\ removal = Idle \/ removal \in [addr : Registered, model : Name]
    /\ adding \in Addr \cup {NoAddr}

\* ProxyServer.__init__: any part of the addresses is configured, some of
\* them without a model; model_schedulers and the global policy give each
\* model a strategy.
Init ==
    /\ \E C \in (SUBSET Addr) \ {{}}, U \in SUBSET Nameless :
          /\ registry = Where(Order, C)
          /\ model = [a \in Addr |-> CASE a \notin C -> NoModel
                                       [] a \in C \cap U -> NoName
                                       [] a \in C \ U -> Serves[a]]
    /\ strategy \in Schedulers
    /\ listed = [n \in Name |-> Where(registry, {a \in Addr : model[a] = n})]
    /\ status = [a \in Addr |-> "up"]
    /\ active = [a \in Addr |-> 0]
    /\ downgraded = {} /\ built = {}
    /\ workers = [n \in Name |-> {}]
    /\ counter = [n \in Name |-> 0]
    /\ removal = Idle /\ adding = NoAddr
    /\ late = {} /\ strays = {}
-----------------------------------------------------------------------------
(* Requests *)

\* _aggregated_instances_for_model
RegisteredFor(m) == {a \in Registered : model[a] = m}
InstancesFor(m) == IF RegisteredFor(m) # {} THEN RegisteredFor(m) ELSE ToSet(listed[m])

\* get_aggregated_instances; no name matches every instance.
AvailableFor(m) ==
    Where(registry, {a \in Addr : status[a] = "up" /\ (m = NoName \/ model[a] = m)})

StrategyOf(m) == IF m \in downgraded THEN "roundrobin" ELSE strategy[m]

\* _get_aggregated_policy
HasPolicy(m) == StrategyOf(m) \in {"ring", "power_of_two"}
WorkersOf(m) == IF m \in built THEN workers[m] ELSE InstancesFor(m)

\* _schedule_aggregated_load_balanced: the first with the fewest requests.
LeastLoaded(s) ==
    CHOOSE a \in ToSet(s) :
        \E i \in DOMAIN s :
            /\ a = s[i]
            /\ \A j \in DOMAIN s : /\ active[a] <= active[s[j]]
                                   /\ j < i => active[a] < active[s[j]]

\* schedule_aggregated: the instances that may be returned.  A ring may
\* return any available worker, depending on the key.
Selectable(m) ==
    LET s == AvailableFor(m)
        C == ToSet(s)
    IN  CASE InstancesFor(m) = {} \/ C = {} -> {}
          [] InstancesFor(m) # {} /\ C # {} /\ StrategyOf(m) = "loadbalanced" ->
                {LeastLoaded(s)}
          [] InstancesFor(m) # {} /\ C # {} /\ StrategyOf(m) = "roundrobin" ->
                {s[(counter[m] % Len(s)) + 1]}
          [] InstancesFor(m) # {} /\ C # {} /\ StrategyOf(m) = "ring" ->
                C \cap WorkersOf(m)
          [] InstancesFor(m) # {} /\ C # {} /\ StrategyOf(m) = "power_of_two" ->
                {a \in C : C = {a} \/ \E b \in C \ {a} : active[a] <= active[b]}

\* Faulty: the counter is not reduced.
CounterGrows(m) == counter[m] + 1

\* The counter after a request of m.
CounterAfter(m) == (counter[m] % Len(AvailableFor(m))) + 1

\* What a request of m does to policies and counters, served or not.
PolicyUsed(m) ==
    LET reached == InstancesFor(m) # {} /\ AvailableFor(m) # << >>
    IN  /\ built' = IF reached /\ HasPolicy(m) THEN built \cup {m} ELSE built
        /\ workers' = IF reached /\ HasPolicy(m)
                        THEN [workers EXCEPT ![m] = WorkersOf(m)] ELSE workers
        /\ counter' = IF reached /\ StrategyOf(m) = "roundrobin"
                        THEN [counter EXCEPT ![m] = CounterAfter(m)] ELSE counter

\* A request of m is served.
Serve(m) ==
    /\ Total(active, Addr) < MaxInFlight
    /\ \E a \in Selectable(m) : active' = [active EXCEPT ![a] = @ + 1]
    /\ PolicyUsed(m)
    /\ UNCHANGED <<registry, model, status, listed, strategy, downgraded,
                   removal, adding, late, strays>>

\* A request of m takes the aggregated path and is answered 503.
Refuse(m) ==
    /\ InstancesFor(m) # {}
    /\ Selectable(m) = {}
    /\ PolicyUsed(m)
    /\ UNCHANGED <<registryVars, listed, strategy, downgraded,
                   removal, adding, late, strays>>

\* schedule_aggregated_completion
Complete(a) ==
    /\ active[a] > 0
    /\ active' = [active EXCEPT ![a] = @ - 1]
    /\ UNCHANGED <<registry, model, status, listed, strategy, downgraded,
                   policyVars, removal, adding, late, strays>>
\* get_from_instance, which changes nothing: all lists one after the other,
\* in some order of the models, and the instances a single probe may go to.
AllListed == UNION {ToSet(listed[m]) : m \in Name}
ProbeTargets ==
    LET preferred == AllListed \cap ToSet(AvailableFor(NoName))
    IN  IF preferred # {} THEN preferred ELSE AllListed
-----------------------------------------------------------------------------
(* Discovery, tokenizers and health *)

\* _probe_models: update_model, and nothing else.
Detect(a) ==
    /\ model[a] = NoName
    /\ model' = [model EXCEPT ![a] = Serves[a]]
    /\ late' = IF Serves[a] \in built THEN late \cup {a} ELSE late
    /\ strays' = IF status[a] = "draining" THEN strays \cup {a} ELSE strays
    /\ UNCHANGED <<registry, status, active, listed, strategy, downgraded,
                   policyVars, removal, adding>>

\* ensure_tokenizer finds no tokenizer for m.
Downgrade(m) ==
    /\ downgraded' = downgraded \cup {m}
    /\ UNCHANGED <<registryVars, listed, strategy, policyVars,
                   removal, adding, late, strays>>

\* A health result or a breaker.
StatusChanges(a) ==
    /\ a \in Registered
    /\ status[a] # "draining"
    /\ status' = [status EXCEPT ![a] = IF @ = "up" THEN "down" ELSE "up"]
    /\ UNCHANGED <<registry, model, active, listed, strategy, downgraded,
                   policyVars, removal, adding, late, strays>>
-----------------------------------------------------------------------------
(* Administration *)

\* add_instance up to the lock: the backend serves a model that is known.
Validate(a) ==
    /\ adding = NoAddr
    /\ \E b \in Registered : model[b] = Serves[a]
    /\ adding' = a
    /\ UNCHANGED <<registryVars, listed, strategy, downgraded, policyVars,
                   removal, late, strays>>

\* Faulty: the address is registered but not listed.
RegisterUnlisted(a) ==
    /\ registry' = Append(registry, a)
    /\ model' = [model EXCEPT ![a] = Serves[a]]
    /\ adding' = NoAddr
    /\ UNCHANGED <<listed, status, active, strategy, downgraded, built, counter,
                   removal, late, strays>>

\* The address is registered and listed, under the model found before.
Register(a) ==
    /\ registry' = Append(registry, a)
    /\ model' = [model EXCEPT ![a] = Serves[a]]
    /\ listed' = [listed EXCEPT ![Serves[a]] = Append(@, a)]
    /\ adding' = NoAddr
    /\ UNCHANGED <<status, active, strategy, downgraded, built, counter,
                   removal, late, strays>>

\* Faulty: a policy that exists already is not told.
AddUnknownToPolicy ==
    /\ removal = Idle
    /\ adding \in Addr \ Registered
    /\ UNCHANGED workers
    /\ Register(adding)

\* add_instance with the lock: the model's other instances may be gone.
Add ==
    /\ removal = Idle
    /\ adding \in Addr \ Registered
    /\ workers' = IF Serves[adding] \in built
                    THEN [workers EXCEPT ![Serves[adding]] = @ \cup {adding}]
                    ELSE workers
    /\ Register(adding)

AddRefused ==
    /\ removal = Idle
    /\ adding \in Registered
    /\ adding' = NoAddr
    /\ UNCHANGED <<registryVars, listed, strategy, downgraded, policyVars,
                   removal, late, strays>>

\* drain_and_remove_instance up to its loop: info is a copy.
StartRemoval(a) ==
    /\ removal = Idle
    /\ a \in Registered
    /\ removal' = [addr |-> a, model |-> model[a]]
    /\ status' = [status EXCEPT ![a] = "draining"]
    /\ UNCHANGED <<registry, model, active, listed, strategy, downgraded,
                   policyVars, adding, late, strays>>

RemovalTimesOut ==
    /\ removal # Idle
    /\ active[removal.addr] > 0
    /\ removal' = Idle
    /\ UNCHANGED <<registryVars, listed, strategy, downgraded, policyVars,
                   adding, late, strays>>

\* The address leaves the registry, and the ghosts with it.
Unregister(a) ==
    /\ registry' = Where(registry, Addr \ {a})
    /\ model' = [model EXCEPT ![a] = NoModel]
    /\ status' = [status EXCEPT ![a] = "up"]
    /\ late' = late \ {a}
    /\ removal' = Idle
    /\ UNCHANGED <<active, strategy, downgraded, built, counter, adding, strays>>

\* Faulty: the cached policy keeps the worker.
FinishRemovalOutsidePolicy ==
    /\ removal # Idle
    /\ active[removal.addr] = 0
    /\ listed' = [listed EXCEPT ![removal.model] = RemoveFirst(@, removal.addr)]
    /\ UNCHANGED workers
    /\ Unregister(removal.addr)

\* Faulty: the list keeps the address.
FinishRemovalListed ==
    /\ removal # Idle
    /\ active[removal.addr] = 0
    /\ UNCHANGED listed
    /\ workers' = [workers EXCEPT ![removal.model] = @ \ {removal.addr}]
    /\ Unregister(removal.addr)

\* The rest of drain_and_remove_instance, under the model of the copy.
FinishRemoval ==
    /\ removal # Idle
    /\ active[removal.addr] = 0
    /\ listed' = [listed EXCEPT ![removal.model] = RemoveFirst(@, removal.addr)]
    /\ workers' = [workers EXCEPT ![removal.model] = @ \ {removal.addr}]
    /\ Unregister(removal.addr)

Next ==
    \/ \E m \in Name : Serve(m) \/ Refuse(m)
    \/ \E a \in Addr : Complete(a) \/ Detect(a) \/ Validate(a) \/ StartRemoval(a)
    \/ \E a \in Flaky : StatusChanges(a)
    \/ \E m \in Untokenized : Downgrade(m)
    \/ Add \/ AddRefused \/ RemovalTimesOut \/ FinishRemoval

Spec == Init /\ [][Next]_vars
-----------------------------------------------------------------------------
\* A named model's list holds registered instances of that model, each once:
\* a removed instance is in no list a request of a named model can fall back
\* on.  The list of no name is not part of this: an instance configured
\* without a model and removed after its model was detected stays there for
\* ever, and requests that name no model keep taking the aggregated path.
NamedListsExact ==
    \A m \in Model : /\ ToSet(listed[m]) \subseteq RegisteredFor(m)
                     /\ IsInjective(listed[m])

\* A request of a named model is refused only if no instance of the model is
\* available, or if the model is on a hash ring and each available instance
\* was detected after the ring was built: those are never added to it.
ServedIfAvailable ==
    \A m \in Model :
        AvailableFor(m) # << >> =>
            \/ Selectable(m) # {}
            \/ StrategyOf(m) = "ring" /\ ToSet(AvailableFor(m)) \subseteq late

\* The endpoints that ask every instance reach all that are registered, and
\* those that ask one never ask one that is known to be down, draining or
\* removed while another is available, although they go by the lists and not
\* by the registry ("must not be answered from a node that is known to be
\* down while healthy nodes are available", proxy.py:834-835).
ProbesReachLive ==
    /\ Registered \subseteq AllListed
    /\ AvailableFor(NoName) # << >> => ProbeTargets \subseteq ToSet(AvailableFor(NoName))

\* No cached policy of a named model keeps a worker that left or has another
\* model, except one whose model was detected while it was drained.
NoStrangers ==
    \A m \in built \ {NoName} : workers[m] \ RegisteredFor(m) \subseteq strays
=============================================================================
