----------------------------- MODULE PolicyPool -----------------------------
(***************************************************************************)
(* The prefill and decode instances of Proxy under a global policy other   *)
(* than loadbalanced: lists built from a topology or from config.instances,*)
(* the cyclers, the hash ring or load table, and the round-robin policy    *)
(* that serves the models without a tokenizer whatever the global policy   *)
(* is.                                                                     *)
(***************************************************************************)
EXTENDS CacheAware, PowerOfTwoChoices, Topology, RoundRobin

CONSTANTS Deployments,  \* topologies of the prefill role
          DecodeList,   \* the decode instances beside them
          Instances,    \* config.instances, a sequence of [addr, role, model]
          Model,        \* model names
          AnyModel,     \* a request that names no model
          LegacyModel,  \* config.model of a deployment by topology
          Key,          \* hashes of routing keys
          NoAddr,       \* no instance
          NoTopology,   \* a deployment by config.instances
          Explored,     \* bound: the deployments whose pool changes
          Joining,      \* bound: the <<address, role>> pairs that may join
          Untokenized,  \* bound: models that may lack a tokenizer, by policy
          MaxInFlight   \* bound: requests in flight under each policy

Policy == {"roundrobin", "consistent_hash", "cache_aware", "power_of_two"}
Role == {"prefill", "decode"}

ASSUME PoolAssumption == /\ IsFiniteSet(Addr)
                         /\ AnyModel \notin Model /\ LegacyModel \in Model
                         /\ NoAddr \notin Addr /\ NoTopology \notin Deployments
                         /\ Explored \subseteq Deployments \cup {NoTopology}
                         /\ \A t \in Deployments :
                               /\ {t.tp, t.dp, t.world} \subseteq Nat
                               /\ t.nodes \in Seq(Range(t.nodes))
                               /\ \A n \in Range(t.nodes) : Port(n) \in Nat
                               /\ Valid(t) => Range(ExpandTopology(t)) \subseteq Addr
                         /\ DecodeList \in Seq(Addr)
                         /\ Instances \in Seq([addr : Addr, role : Role, model : Model])
                         /\ Joining \subseteq Addr \X Role
                         /\ Untokenized \in [Policy -> SUBSET Model]
                         /\ MaxInFlight \in [Policy -> Nat]
                         /\ Key \subseteq Nat /\ \A h \in Key, v \in DOMAIN Hash : Hash[v] # h

VARIABLES topology,    \* the deployment
          policy,      \* the global scheduling policy
          downgraded,  \* _round_robin_models
          role, model, available, active,   \* the registry
          list,        \* prefill_instances and decode_instances
          pos,         \* where the two cyclers are
          ring,        \* the ring or the load table of the global policy
          turn,        \* ghost: who was served since the pool last changed
          wave         \* ghost: the requests since a role was last idle

registryVars == <<role, model, available, active>>
poolVars == <<list, pos, ring>>
vars == <<topology, policy, downgraded, registryVars, poolVars, turn, wave>>

Asked == Model \cup {AnyModel}
Pool == Role \X Asked
Registered == {a \in Addr : role[a] # "none"}

\* The ghost of a cycler: the candidates of the requests it was used for,
\* whether they were not always the same, and how many requests more than
\* the one with the fewest an instance got of them.
NoTurn == [rl \in Role |-> [pool |-> {}, mixed |-> FALSE, lead |-> [a \in Addr |-> 0]]]

\* The ghost of power of two choices: the candidates of the requests since no
\* request of the role was in flight, if they were always the same, all were
\* served by that policy and none has ended.
NoWave == [rl \in Role |-> [pool |-> {}, mixed |-> FALSE]]

PoolTypeOK ==
    /\ downgraded \subseteq Model
    /\ role \in [Addr -> Role \cup {"none"}]
    /\ model \in [Addr -> Asked]
    /\ available \subseteq Registered
    /\ active \in [Addr -> Nat]
    /\ \A rl \in Role : /\ list[rl] \in Seq(Addr)
                        /\ pos[rl] = 0 \/ pos[rl] \in 1 .. Len(list[rl]) - 1
    /\ turn \in [Role -> [pool : SUBSET Addr, mixed : BOOLEAN, lead : [Addr -> Nat]]]
    /\ wave \in [Role -> [pool : SUBSET Addr, mixed : BOOLEAN]]
-----------------------------------------------------------------------------
(* The global policy's ring or load table *)

NewRing == CASE policy = "cache_aware"  -> EmptyLists
             [] policy = "power_of_two" -> NoLoads
             [] OTHER                   -> EmptyRing

\* _add_instance_to_policy
Added(r, a) == CASE policy = "consistent_hash" -> AddWorker(r, a)
                 [] policy = "cache_aware"     -> JoinRing(r, a)
                 [] policy = "power_of_two"    -> AddLoad(r, a)
                 [] OTHER                      -> r

\* _remove_instance_from_policy
Removed(r, a) == CASE policy = "consistent_hash" -> RemoveWorker(r, a)
                   [] policy = "cache_aware"     -> LeaveRing(r, a)
                   [] policy = "power_of_two"    -> RemoveLoad(r, a)
                   [] OTHER                      -> r

\* schedule_completion of the policy, unless a's model has no tokenizer.
Finished(r, a) ==
    IF policy = "power_of_two" /\ model[a] \notin downgraded THEN LowerLoad(r, a) ELSE r
-----------------------------------------------------------------------------
(* ProxyServer.__init__ *)

\* The first entry of each address, of one role, in order.
Listed(rl) ==
    LET first(i) == \A j \in 1 .. i - 1 : \/ Instances[j].addr # Instances[i].addr
                                          \/ Instances[j].role # rl
        kept == Where([i \in DOMAIN Instances |-> i],
                      {i \in DOMAIN Instances : Instances[i].role = rl /\ first(i)})
    IN  [k \in DOMAIN kept |-> Instances[kept[k]].addr]

ModelsConfigured ==
    [a \in Addr |->
        LET at == {i \in DOMAIN Instances : Instances[i].addr = a}
        IN  IF at = {} THEN AnyModel ELSE Instances[Min(at)].model]

\* The legacy lists keep an address that is configured twice, the lists from
\* config.instances do not.
Lists == [rl \in Role |->
            CASE topology = NoTopology -> Listed(rl)
              [] topology # NoTopology /\ rl = "prefill" -> ExpandTopology(topology)
              [] topology # NoTopology /\ rl = "decode"  -> DecodeList]

\* The ring with a list of workers, one after the other.
Built(workers) ==
    LET after[n \in 0 .. Len(workers)] ==
            IF n = 0 THEN NewRing ELSE Added(after[n - 1], workers[n])
    IN  after[Len(workers)]

\* _create_scheduling_policy, and Proxy.__init__ with its two cyclers.
Init == /\ policy \in Policy
        /\ topology \in {t \in Deployments : Valid(t)} \cup {NoTopology}
        /\ list = Lists
        /\ role = [a \in Addr |-> CASE a \in ToSet(list["prefill"]) -> "prefill"
                                    [] a \in ToSet(list["decode"])  -> "decode"
                                    [] OTHER                        -> "none"]
        /\ model = IF topology = NoTopology THEN ModelsConfigured
                   ELSE [a \in Addr |-> IF role[a] = "none" THEN AnyModel
                                        ELSE LegacyModel]
        /\ downgraded = {}
        /\ available = Registered
        /\ active = [a \in Addr |-> 0]
        /\ pos = [rl \in Role |-> 0]
        /\ ring = Built(list["prefill"] \o list["decode"])
        /\ turn = NoTurn
        /\ wave = NoWave
-----------------------------------------------------------------------------
(* Requests *)

Candidates(p) == {a \in available : /\ role[a] = p[1]
                                    /\ p[2] = AnyModel \/ model[a] = p[2]}

UsesRoundRobin(p) == policy = "roundrobin" \/ p[2] \in downgraded

\* What the policy that serves p may return for a request with key k.
Selections(p, k) ==
    LET C == Candidates(p)
    IN  CASE C = {} -> {}
          [] C # {} /\ UsesRoundRobin(p) ->
                IF Finds(list[p[1]], pos[p[1]], C)
                  THEN {Choice(list[p[1]], pos[p[1]], C)} ELSE {}
          [] C # {} /\ ~UsesRoundRobin(p) /\ policy = "consistent_hash" ->
                {SelectFrom(ring, C, k, NoAddr)} \ {NoAddr}
          [] C # {} /\ ~UsesRoundRobin(p) /\ policy = "cache_aware" ->
                {LookupFrom(ring, C, k, NoAddr)} \ {NoAddr}
          [] C # {} /\ ~UsesRoundRobin(p) /\ policy = "power_of_two" ->
                PairChoices(C, CurrentLoad(active, ring))

\* The cycler of the role moves if round robin serves the request.
CyclerAfter(p) ==
    IF UsesRoundRobin(p) /\ Candidates(p) # {}
      THEN [pos EXCEPT ![p[1]] = Advanced(list[p[1]], @, Candidates(p))]
      ELSE pos

\* The ghost after round robin chose a among the candidates C.
TurnAfter(t, instances, C, a) ==
    LET mixed == t.mixed \/ t.pool \notin {{}, C} \/ ~IsInjective(instances)
        more  == [t.lead EXCEPT ![a] = @ + 1]
        least == Min({more[b] : b \in C})
    IN  [pool  |-> IF mixed THEN {} ELSE C,
         mixed |-> mixed,
         lead  |-> [b \in Addr |-> IF mixed \/ b \notin C THEN 0 ELSE more[b] - least]]

\* The ghost after a request of pool p was served.
WaveAfter(w, p) ==
    LET mixed == \/ w.mixed \/ w.pool \notin {{}, Candidates(p)}
                 \/ policy # "power_of_two" \/ UsesRoundRobin(p)
    IN  [pool |-> IF mixed THEN {} ELSE Candidates(p), mixed |-> mixed]

\* The ghost after any other change of pool or load.
WaveOver ==
    [rl \in Role |-> [pool  |-> {},
                     mixed |-> \E a \in Addr : role'[a] = rl /\ active'[a] > 0]]

\* Proxy.schedule finds an instance and counts the request there.
Serve(p) ==
    \E a \in UNION {Selections(p, k) : k \in Key} :
        /\ Total(active, Addr) < MaxInFlight[policy]
        /\ active' = [active EXCEPT ![a] = @ + 1]
        /\ pos' = CyclerAfter(p)
        /\ turn' = IF UsesRoundRobin(p)
                     THEN [turn EXCEPT ![p[1]] =
                              TurnAfter(@, list[p[1]], Candidates(p), a)]
                     ELSE turn
        /\ wave' = [wave EXCEPT ![p[1]] = WaveAfter(@, p)]
        /\ UNCHANGED <<topology, policy, downgraded, role, model, available, list, ring>>

\* It finds none; the draws it made are lost to the next request.
Refuse(p) ==
    /\ \E k \in Key : Selections(p, k) = {}
    /\ pos' = CyclerAfter(p)
    /\ UNCHANGED <<topology, policy, downgraded, registryVars, list, ring, turn, wave>>

\* Proxy.schedule_completion
Complete(a) ==
    /\ active[a] > 0
    /\ active' = [active EXCEPT ![a] = @ - 1]
    /\ ring' = Finished(ring, a)
    /\ UNCHANGED <<topology, policy, downgraded, role, model, available, list, pos, turn>>
    /\ wave' = WaveOver
-----------------------------------------------------------------------------
(* Changes of the pool *)

\* The models _validated_instance_details accepts.
Expected == {model[a] : a \in Registered}
              \cup (IF topology = NoTopology THEN {} ELSE {LegacyModel})

\* add_instance, with the lock held.
Join(a, rl, m) ==
    /\ role[a] = "none"
    /\ m \in Expected
    /\ role' = [role EXCEPT ![a] = rl]
    /\ model' = [model EXCEPT ![a] = m]
    /\ available' = available \cup {a}
    /\ list' = [list EXCEPT ![rl] = Append(@, a)]
    /\ pos' = [pos EXCEPT ![rl] = 0]
    /\ ring' = Added(ring, a)
    /\ turn' = NoTurn
    /\ UNCHANGED <<topology, policy, downgraded, active>>
    /\ wave' = WaveOver

\* The proxy removes an entry of a from the list and so does discovery, which
\* has the same list object: two entries go if a is listed twice.
Without(s, a) == RemoveFirst(RemoveFirst(s, a), a)

\* Faulty: the cycler goes on over the old list.
LeaveKeepsCycler(a) ==
    /\ a \in Registered \ available /\ active[a] = 0
    /\ role' = [role EXCEPT ![a] = "none"]
    /\ model' = [model EXCEPT ![a] = AnyModel]
    /\ available' = available \ {a}
    /\ list' = [list EXCEPT ![role[a]] = Without(@, a)]
    /\ ring' = Removed(ring, a)
    /\ turn' = NoTurn
    /\ UNCHANGED <<topology, policy, downgraded, active, pos>>
    /\ wave' = WaveOver

\* The end of drain_and_remove_instance: a is draining and has no requests.
Leave(a) ==
    /\ a \in Registered \ available /\ active[a] = 0
    /\ role' = [role EXCEPT ![a] = "none"]
    /\ model' = [model EXCEPT ![a] = AnyModel]
    /\ available' = available \ {a}
    /\ list' = [list EXCEPT ![role[a]] = Without(@, a)]
    /\ pos' = [pos EXCEPT ![role[a]] = 0]
    /\ ring' = Removed(ring, a)
    /\ turn' = NoTurn
    /\ UNCHANGED <<topology, policy, downgraded, active>>
    /\ wave' = WaveOver

\* A health result, a breaker, the start of a drain.
AvailabilityChanges(a) ==
    /\ a \in Registered
    /\ available' = IF a \in available THEN available \ {a} ELSE available \cup {a}
    /\ turn' = NoTurn
    /\ UNCHANGED <<topology, policy, downgraded, role, model, active, poolVars>>
    /\ wave' = WaveOver

\* ensure_tokenizer finds no tokenizer for m.
Downgrade(m) ==
    /\ downgraded' = downgraded \cup {m}
    /\ UNCHANGED <<topology, policy, registryVars, poolVars, turn, wave>>

Next ==
    \/ \E p \in Pool : Refuse(p)
    \/ /\ topology \in Explored
       /\ \/ \E p \in Pool : Serve(p)
          \/ \E a \in Addr : Complete(a) \/ Leave(a) \/ AvailabilityChanges(a)
          \/ \E j \in Joining, m \in Model : Join(j[1], j[2], m)
          \/ \E m \in Untokenized[policy] : Downgrade(m)

Spec == Init /\ [][Next]_vars
-----------------------------------------------------------------------------
\* Topology expansion puts exactly the instances whose first rank is on a
\* node there, on consecutive ports from its base port, and no two instances
\* share an endpoint unless the port ranges of two nodes overlap.  It is not
\* what docs/configuration.md says: "instance_port = base_port + (index *
\* tp_size)" (line 128), which leaves gaps where tp > 1, and tp_size has to
\* divide world_size_per_node (line 283), where the code also accepts an
\* instance that spans several nodes.
ExpansionSound ==
    topology # NoTopology =>
        LET t == topology
            E == ExpandTopology(t)
            On(n) == {E[i] : i \in {j \in 1 .. t.dp :
                        (j - 1) * t.tp \in (n - 1) * t.world .. n * t.world - 1}}
        IN  /\ NodesApart(t) => IsInjective(E)
            /\ \A n \in DOMAIN t.nodes :
                  On(n) = IF (n - 1) % Stride(t) = 0
                            THEN {<<Host(t.nodes[n]), Port(t.nodes[n]) + j>> :
                                     j \in 0 .. PerNode(t) - 1}
                            ELSE {}

\* The ring that additions and removals leave behind is the one a proxy
\* started with the present instances would build.
RingExact ==
    /\ policy = "consistent_hash" => WellFormed(ring) /\ ring.workers = Registered
    /\ policy = "cache_aware" => Parallel(ring) /\ ring.workers = Registered

\* Whatever the policy, a request is refused only if no instance of its role
\* and model is available, except that round robin gives up early on a list
\* that has an address twice: it takes the second sight of any address for
\* the end of the cycle (round_robin.py:41-42).
FindsAvailable ==
    \A p \in Pool, k \in Key :
        Candidates(p) # {} => \/ Selections(p, k) # {}
                              \/ UsesRoundRobin(p) /\ ~IsInjective(list[p[1]])

\* "every instance gets exactly the same number of requests over time"
\* (docs/scheduling.md, Round Robin), up to one, while the pool stays as it
\* is, if no address is listed twice and all requests have the same
\* candidates: the cycler is shared by all models of a role.
EvenShare ==
    \A rl \in Role, a \in Addr :
        ~turn[rl].mixed => turn[rl].lead[a] <= 1

\* Power of two choices "achieves near-optimal load distribution"
\* (docs/scheduling.md): however many requests with the same candidates
\* arrive at an idle role, no instance gets two requests ahead of all the
\* others, so two instances never differ by more than one.  It is said of
\* arrivals only: who ends first is for the backends to decide.
PairsKeepLevel ==
    \A rl \in Role : ~wave[rl].mixed =>
        LET C == wave[rl].pool
        IN  \A a \in C : \/ active[a] <= 1 \/ C = {a}
                         \/ \E b \in C \ {a} : active[a] <= active[b] + 1
-----------------------------------------------------------------------------
\* Refinement: where the ring sends each key of each pool.
HasRing == policy \in {"consistent_hash", "cache_aware"}

Home(p, k) == IF policy = "consistent_hash" THEN SelectFrom(ring, Candidates(p), k, NoAddr)
              ELSE LookupFrom(ring, Candidates(p), k, NoAddr)

Pools == [p \in Pool |-> IF HasRing THEN Candidates(p) ELSE {}]
Homes == [pk \in Pool \X Key |-> IF HasRing THEN Home(pk[1], pk[2]) ELSE NoAddr]

Abstract == INSTANCE Affinity WITH candidates <- Pools, home <- Homes

\* "When an instance is removed, only sessions mapped to that instance are
\* redistributed" (docs/scheduling.md): both rings implement Affinity, when
\* instances are added, removed, drained, found unhealthy or tripped.
RefinesAffinity == Abstract!Spec
=============================================================================
