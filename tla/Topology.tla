------------------------------ MODULE Topology ------------------------------
(***************************************************************************)
(* topology.py: a role's node list with TP and DP sizes becomes the list   *)
(* of its instances.  A node is <<host, base port>>, as is an instance;    *)
(* ranks are numbered through the nodes, world of them on each, and        *)
(* instance i starts at rank i * tp.                                       *)
(***************************************************************************)
EXTENDS Naturals, Sequences, FiniteSets

Host(n) == n[1]
Port(n) == n[2]

\* _is_power_of_two
PowerOfTwo(n) ==
    LET power[k \in 0 .. n] == IF k = 0 THEN 1 ELSE 2 * power[k - 1]
    IN  \E k \in 0 .. n : n = power[k]

\* validate_topology accepts the parameters t.
Valid(t) == /\ t.tp >= 1 /\ t.dp >= 1 /\ t.world >= 1
            /\ PowerOfTwo(t.tp) /\ PowerOfTwo(t.dp)
            /\ t.tp * t.dp = Len(t.nodes) * t.world

\* Faulty: the node of the last rank of the instance.
MainNodeOfLast(t, i) == (i * t.tp + t.tp - 1) \div t.world

\* The node, counted from 0, of the first rank of instance i.
MainNode(t, i) == (i * t.tp) \div t.world

\* The instances before i that node_instance_counts has on the same node.
LocalIndex(t, i) ==
    Cardinality({j \in 0 .. i - 1 : MainNode(t, j) = MainNode(t, i)})

\* expand_topology
ExpandTopology(t) ==
    [k \in 1 .. t.dp |->
        LET node == t.nodes[MainNode(t, k - 1) + 1]
        IN  <<Host(node), Port(node) + LocalIndex(t, k - 1)>>]
-----------------------------------------------------------------------------
\* How many instances start on a node that has any.
PerNode(t) == IF t.tp <= t.world THEN t.world \div t.tp ELSE 1

\* Every this many nodes there is one with instances.
Stride(t) == IF t.tp <= t.world THEN 1 ELSE t.tp \div t.world

\* The node ranges PerNode reserves are disjoint.
NodesApart(t) ==
    \A m, n \in DOMAIN t.nodes : m # n /\ Host(t.nodes[m]) = Host(t.nodes[n]) =>
        \/ Port(t.nodes[m]) + PerNode(t) <= Port(t.nodes[n])
        \/ Port(t.nodes[n]) + PerNode(t) <= Port(t.nodes[m])
=============================================================================
