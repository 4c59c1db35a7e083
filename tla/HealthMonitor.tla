--------------------------- MODULE HealthMonitor ---------------------------
(***************************************************************************)
(* health_monitor.py: a loop that probes /health of every node at once,    *)
(* waits for all answers, sleeps and starts over.  A probe is in flight    *)
(* across any number of other steps, so its result may arrive after the    *)
(* instance was drained, removed or registered again.                      *)
(***************************************************************************)
EXTENDS InstanceRegistry

CONSTANT MonitorEnabled   \* health_check.enabled

ASSUME MonitorAssumption == MonitorEnabled \in BOOLEAN

VARIABLES nodes,    \* HealthMonitor.nodes, empty when there is no monitor
          probing   \* the nodes whose probe of this cycle is in flight

monitorVars == <<nodes, probing>>

MonitorTypeOK == nodes \subseteq Addr /\ probing \subseteq Addr

\* _probe_all: one probe for each node known when the cycle starts.
ProbeAll == /\ probing = {}
            /\ nodes # {}
            /\ probing' = nodes
            /\ UNCHANGED <<registryVars, nodes>>

\* _probe_node: the answer (or the error) for a arrives and is reported to
\* the registry; a KeyError because a is gone is swallowed.
ProbeResult(a, s) == /\ a \in probing
                     /\ probing' = probing \ {a}
                     /\ IF a \in Registered THEN Mark(a, s)
                        ELSE UNCHANGED registryVars
                     /\ UNCHANGED nodes
=============================================================================
