----------------------------- MODULE Discovery -----------------------------
(***************************************************************************)
(* discovery.py with Proxy.ensure_tokenizer: a loop that probes every      *)
(* instance, learns which model it serves, has the tokenizer of a new      *)
(* model loaded in a worker thread, and decides whether the proxy serves   *)
(* requests at all.  Instances are added and removed at runtime while      *)
(* probes of theirs are in flight.                                         *)
(***************************************************************************)
EXTENDS FiniteSets

CONSTANTS Addr,           \* addresses of backend instances
          Model,          \* model names
          NoModel,        \* the empty model name
          InitRole,       \* the configured instances, [Addr -> Role \cup {"none"}]
          Loadable        \* the models whose tokenizer can be loaded

Role == {"prefill", "decode", "aggregated"}

ASSUME DiscoveryAssumption == /\ NoModel \notin Model
                              /\ InitRole \in [Addr -> Role \cup {"none"}]
                              /\ Loadable \subseteq Model

VARIABLES role,       \* the instance lists: the role of each listed address
          model,      \* the model the registry has for it
          up,         \* environment: the instances whose server answers
          cycle,      \* where _probe_loop is
          probe,      \* where the probe of each address is
          healthy,    \* healthy_prefill, healthy_decode, healthy_aggregated
          ready,      \* the _ready event
          notified,   \* _notified_models
          tokenizer,  \* what ensure_tokenizer made of each model
          strict      \* whether tokenizer_path is set

vars == <<role, model, up, cycle, probe, healthy, ready, notified, tokenizer, strict>>

\* at: "done", or the answer that is awaited; role: the list the address was
\* taken from; model: the model whose tokenizer is awaited.
Probe == [at : {"done", "health", "models", "tokenizer"},
          role : Role \cup {"none"}, model : Model \cup {NoModel}]
Done == [at |-> "done", role |-> "none", model |-> NoModel]

DiscoveryTypeOK ==
    /\ role \in [Addr -> Role \cup {"none"}]
    /\ model \in [Addr -> Model \cup {NoModel}]
    /\ up \subseteq Addr
    /\ cycle \in {"sleeping", "probing"}
    /\ probe \in [Addr -> Probe]
    /\ healthy \in [Role -> SUBSET Addr]
    /\ ready \in BOOLEAN
    /\ notified \subseteq Model
    /\ tokenizer \in [Model -> {"none", "loaded", "fallback", "failed"}]
    /\ strict \in BOOLEAN

\* _probe_all: one probe for each listed address, awaiting /health.
Started(lists) ==
    [a \in Addr |-> IF lists[a] = "none" THEN Done
                    ELSE [at |-> "health", role |-> lists[a], model |-> NoModel]]

\* Models may be configured or left to be discovered; no server is up yet.
Init == /\ role = InitRole
        /\ model \in {[a \in Addr |-> IF InitRole[a] = "none" THEN NoModel ELSE m]
                         : m \in Model \cup {NoModel}}
        /\ up = {}
        /\ cycle = "probing"
        /\ probe = Started(InitRole)
        /\ healthy = [rl \in Role |-> {}]
        /\ ready = FALSE
        /\ notified = {}
        /\ tokenizer = [m \in Model |-> "none"]
        /\ strict \in BOOLEAN

Listed(rl) == {a \in Addr : role[a] = rl}

\* is_ready, which the readiness middleware asks before every request.
IsReady ==
    \/ /\ Listed("decode") \cap healthy["decode"] # {}
       /\ \/ Listed("prefill") = {}
          \/ Listed("prefill") \cap healthy["prefill"] # {}
    \/ Listed("aggregated") \cap healthy["aggregated"] # {}
-----------------------------------------------------------------------------
(* One cycle of _probe_loop *)

\* The sleep is over and the next cycle starts.
ProbeAll ==
    /\ cycle = "sleeping"
    /\ cycle' = "probing"
    /\ probe' = Started(role)
    /\ UNCHANGED <<role, model, up, healthy, ready, notified, tokenizer, strict>>

\* The gather is over: the rest of the loop body, up to the sleep.
CycleEnds ==
    /\ cycle = "probing"
    /\ \A a \in Addr : probe[a].at = "done"
    /\ cycle' = "sleeping"
    /\ ready' = (ready \/ IsReady)
    /\ UNCHANGED <<role, model, up, probe, healthy, notified, tokenizer, strict>>

\* The probe of a is over; whether its role's healthy set keeps a.
Finish(a) == probe' = [probe EXCEPT ![a] = Done]
Discard(a) == healthy' = [healthy EXCEPT ![probe[a].role] = @ \ {a}]

\* Faulty: the model counts as notified only after the load.
NotifyLate(a, m) ==
    /\ UNCHANGED notified
    /\ IF tokenizer[m] # "none" THEN Finish(a)
       ELSE probe' = [probe EXCEPT ![a].at = "tokenizer", ![a].model = m]

\* _notify_model_discovered: the first to see m has its tokenizer loaded.
Notify(a, m) ==
    IF m \in notified
      THEN Finish(a) /\ UNCHANGED notified
      ELSE /\ notified' = notified \cup {m}
           /\ probe' = [probe EXCEPT ![a].at = "tokenizer", ![a].model = m]

\* Faulty: the list is not looked at again after the await.
HealthOkUnlisted(a) ==
    /\ probe[a].at = "health"
    /\ a \in up
    /\ healthy' = [healthy EXCEPT ![probe[a].role] = @ \cup {a}]
    /\ IF model[a] # NoModel
         THEN Notify(a, model[a])
         ELSE /\ probe' = [probe EXCEPT ![a].at = "models"]
              /\ UNCHANGED notified
    /\ UNCHANGED <<role, model, up, cycle, ready, tokenizer, strict>>

\* Faulty: an empty model name is taken for a model.
HealthOkNameless(a) ==
    /\ probe[a].at = "health"
    /\ a \in up
    /\ IF role[a] # probe[a].role
         THEN Discard(a) /\ Finish(a) /\ UNCHANGED notified
         ELSE /\ healthy' = [healthy EXCEPT ![role[a]] = @ \cup {a}]
              /\ Notify(a, model[a])
    /\ UNCHANGED <<role, model, up, cycle, ready, tokenizer, strict>>

\* _probe_node: /health answered 200.  An address that left the list in the
\* meantime is dropped; otherwise _probe_models starts.
HealthOk(a) ==
    /\ probe[a].at = "health"
    /\ a \in up
    /\ IF role[a] # probe[a].role
         THEN Discard(a) /\ Finish(a) /\ UNCHANGED notified
         ELSE /\ healthy' = [healthy EXCEPT ![role[a]] = @ \cup {a}]
              /\ IF model[a] # NoModel
                   THEN Notify(a, model[a])
                   ELSE /\ probe' = [probe EXCEPT ![a].at = "models"]
                        /\ UNCHANGED notified
    /\ UNCHANGED <<role, model, up, cycle, ready, tokenizer, strict>>

\* _probe_node: another status, a timeout or a connection error.
HealthFails(a) ==
    /\ probe[a].at = "health"
    /\ a \notin up
    /\ Discard(a)
    /\ Finish(a)
    /\ UNCHANGED <<role, model, up, cycle, ready, notified, tokenizer, strict>>

\* _probe_models: /v1/models names m.  For an address that is gone the
\* KeyError of update_model is swallowed.
ModelsAnswer(a, m) ==
    /\ probe[a].at = "models"
    /\ a \in up
    /\ IF role[a] = "none"
         THEN Finish(a) /\ UNCHANGED <<model, notified>>
         ELSE model' = [model EXCEPT ![a] = m] /\ Notify(a, m)
    /\ UNCHANGED <<role, up, cycle, healthy, ready, tokenizer, strict>>

\* Faulty: an instance that does not name its model is not healthy.
ModelsFailDiscards(a) ==
    /\ probe[a].at = "models"
    /\ Discard(a)
    /\ Finish(a)
    /\ UNCHANGED <<role, model, up, cycle, ready, notified, tokenizer, strict>>

\* _probe_models: no usable answer; the instance stays healthy.
ModelsFail(a) ==
    /\ probe[a].at = "models"
    /\ Finish(a)
    /\ UNCHANGED <<role, model, up, cycle, healthy, ready, notified, tokenizer, strict>>

\* What ensure_tokenizer makes of m.
Loaded(m) == IF m \in Loadable THEN "loaded"
             ELSE IF strict THEN "failed"
             ELSE "fallback"

\* The worker thread is done with m.  Its ValueError ends up in the handler
\* of _probe_node, which discards the instance.
TokenizerDone(a) ==
    LET m == probe[a].model
    IN  /\ probe[a].at = "tokenizer"
        /\ tokenizer' = [tokenizer EXCEPT ![m] = Loaded(m)]
        /\ IF Loaded(m) = "failed" THEN Discard(a) ELSE UNCHANGED healthy
        /\ Finish(a)
        /\ UNCHANGED <<role, model, up, cycle, ready, notified, strict>>
-----------------------------------------------------------------------------
(* Changes at runtime *)

\* add_instance; the instance was validated and serves m.
AddInstance(a, rl, m) ==
    /\ role[a] = "none"
    /\ a \in up
    /\ role' = [role EXCEPT ![a] = rl]
    /\ model' = [model EXCEPT ![a] = m]
    /\ healthy' = [healthy EXCEPT ![rl] = @ \cup {a}]
    /\ UNCHANGED <<up, cycle, probe, ready, notified, tokenizer, strict>>

\* remove_instance and the removal from the registry.
RemoveInstance(a) ==
    /\ role[a] # "none"
    /\ role' = [role EXCEPT ![a] = "none"]
    /\ model' = [model EXCEPT ![a] = NoModel]
    /\ healthy' = [healthy EXCEPT ![role[a]] = @ \ {a}]
    /\ UNCHANGED <<up, cycle, probe, ready, notified, tokenizer, strict>>

\* A backend server starts or stops.
ServerChanges(a) ==
    /\ up' = IF a \in up THEN up \ {a} ELSE up \cup {a}
    /\ UNCHANGED <<role, model, cycle, probe, healthy, ready, notified, tokenizer, strict>>

ProbeStep(a) ==
    \/ HealthOk(a) \/ HealthFails(a) \/ ModelsFail(a) \/ TokenizerDone(a)
    \/ \E m \in Model : ModelsAnswer(a, m)

Next ==
    \/ ProbeAll \/ CycleEnds
    \/ \E a \in Addr :
          \/ ProbeStep(a) \/ RemoveInstance(a) \/ ServerChanges(a)
          \/ \E rl \in Role, m \in Model : AddInstance(a, rl, m)

Spec == Init /\ [][Next]_vars

\* The same without changes of the lists at runtime.
ConfiguredNext == \/ ProbeAll \/ CycleEnds
                  \/ \E a \in Addr : ProbeStep(a) \/ ServerChanges(a)

ConfiguredSpec == Init /\ [][ConfiguredNext]_vars

\* Every HTTP probe has a client timeout of 5 s and a tokenizer download ends;
\* the loop itself never stops.
FairSpec == Spec /\ WF_vars(ProbeAll) /\ WF_vars(CycleEnds)
                 /\ \A a \in Addr : WF_vars(ProbeStep(a))
-----------------------------------------------------------------------------
\* A probe that was in flight when its instance was removed never puts it
\* back: readiness rests only on instances of the current lists, each under
\* the role it has now, also when an address comes back under another role.
HealthyAreListed == \A rl \in Role : healthy[rl] \subseteq Listed(rl)

\* However many instances report a model at the same time, its tokenizer is
\* loaded by exactly one of their probes, once.
OneLoader ==
    \A m \in Model :
        Cardinality({a \in Addr : probe[a].model = m})
            = IF m \in notified /\ tokenizer[m] = "none" THEN 1 ELSE 0

UsableAndUp ==
    \/ /\ Listed("decode") \cap up # {}
       /\ Listed("prefill") = {} \/ Listed("prefill") \cap up # {}
    \/ Listed("aggregated") \cap up # {}

\* The proxy becomes ready and stays ready once the listed servers are a
\* usable topology and stay up, whatever happened to them, to their probes,
\* to downloads of tokenizers or to the lists before and since, unless a
\* tokenizer of the configured tokenizer_path could not be loaded: that, by
\* docs/configuration.md:90-91, "stops the proxy" (in the code it costs the
\* instance one cycle and the proxy goes on).
BecomesReady ==
    <>[](/\ UsableAndUp
         /\ \A a \in Addr : role[a] # "none" => a \in up
         /\ \A m \in Model : tokenizer[m] # "failed") => <>[]IsReady
=============================================================================
