---------------------------- MODULE MCPolicyPool ----------------------------
(* PolicyPool for TLC: deployments, addresses and a table for the hash. *)
EXTENDS PolicyPool

\* Nodes whose ranges overlap (h:1 and h:2 on one host) or not, up to four;
\* with four ranks on a node two instances of two ranks each start there.
Nodes == {<<"h", 1>>, <<"h", 2>>, <<"g", 1>>}
Topologies == [nodes : UNION {[1 .. n -> Nodes] : n \in 1 .. 4},
               tp : 1 .. 4, dp : 1 .. 4, world : 1 .. 2]
              \cup [nodes : UNION {[1 .. n -> Nodes] : n \in 1 .. 4},
                    tp : {2, 4}, dp : {2, 4}, world : {4}]

\* h:1, h:2, h:2, h:3.
Overlapping ==
    [nodes |-> << <<"h", 1>>, <<"h", 2>> >>, tp |-> 1, dp |-> 4, world |-> 2]

ExploredDeployments == {Overlapping, NoTopology}

Decoders == << <<"d", 1>> >>

\* Two models; an address is configured twice.
TwoModels ==
    << [addr |-> <<"h", 1>>, role |-> "prefill", model |-> "m1"],
       [addr |-> <<"h", 2>>, role |-> "prefill", model |-> "m2"],
       [addr |-> <<"h", 1>>, role |-> "prefill", model |-> "m2"],
       [addr |-> <<"g", 1>>, role |-> "prefill", model |-> "m1"],
       [addr |-> <<"d", 1>>, role |-> "decode",  model |-> "m1"] >>

\* Two virtual nodes each, interleaved around the ring.
HashTable ==
    LET first == <<"h", 1>> :> 0 @@ <<"h", 2>> :> 12 @@ <<"h", 3>> :> 6
                   @@ <<"g", 1>> :> 16 @@ <<"g", 2>> :> 20 @@ <<"d", 1>> :> 4
        second == <<"h", 1>> :> 14 @@ <<"h", 2>> :> 2 @@ <<"h", 3>> :> 18
                   @@ <<"g", 1>> :> 8 @@ <<"g", 2>> :> 22 @@ <<"d", 1>> :> 10
    IN  [v \in (DOMAIN first) \X (0 .. 1) |-> IF v[2] = 0 THEN first[v[1]] ELSE second[v[1]]]

AllAddr == {v[1] : v \in DOMAIN HashTable}
KeyHashes == {1, 11, 23}
JoiningPairs == {<< <<"h", 2>>, "prefill">>, << <<"g", 1>>, "decode">>}
InFlight == "power_of_two" :> 3 @@ "roundrobin" :> 1
              @@ "consistent_hash" :> 1 @@ "cache_aware" :> 1
Downgradable == [pol \in Policy |-> IF pol = "power_of_two" THEN {"m2"} ELSE {}]
=============================================================================
