----------------------------- MODULE CacheAware -----------------------------
(***************************************************************************)
(* scheduler/cache_aware.py: ConsistentHashRing keeps two parallel lists,  *)
(* the hashes and their workers.  A routing key is the hash of a prompt's  *)
(* first tokens.  The hash of a virtual node is that of ConsistentHash.    *)
(***************************************************************************)
EXTENDS ConsistentHash

EmptyLists == [workers |-> {}, keys |-> << >>, owners |-> << >>]

\* One virtual node of a enters both lists at the same place.
InsertNode(ring, a, i) ==
    LET at == BisectLeft(ring.keys, Hash[a, i]) + 1
    IN  [workers |-> ring.workers,
         keys    |-> InsertAt(ring.keys, at, Hash[a, i]),
         owners  |-> InsertAt(ring.owners, at, a)]

\* ConsistentHashRing.add_worker
JoinRing(ring, a) ==
    IF a \in ring.workers THEN ring
    ELSE LET after[n \in 0 .. VirtualNodes] ==
                 IF n = 0 THEN [workers |-> ring.workers \cup {a}, keys |-> ring.keys,
                                owners |-> ring.owners]
                 ELSE InsertNode(after[n - 1], a, n - 1)
         IN  after[VirtualNodes]

\* ConsistentHashRing.remove_worker rebuilds both lists.
LeaveRing(ring, a) ==
    IF a \notin ring.workers THEN ring
    ELSE LET places == Zip(ring.keys, ring.owners)
             kept == Where(places, {kw \in ToSet(places) : kw[2] # a})
         IN  [workers |-> ring.workers \ {a},
              keys    |-> [i \in DOMAIN kept |-> kept[i][1]],
              owners  |-> [i \in DOMAIN kept |-> kept[i][2]]]

\* lookup_from: the nearest place clockwise that holds a candidate.
LookupFrom(ring, candidates, key, none) ==
    LET hits == {i \in 0 .. Len(ring.keys) - 1 : ring.owners[i + 1] \in candidates}
    IN  IF hits = {} THEN none
        ELSE ring.owners[NearestFrom(Start(ring, key), hits) + 1]

\* The lists are parallel, sorted, and exactly the workers' virtual nodes.
Parallel(ring) ==
    /\ Len(ring.keys) = Len(ring.owners)
    /\ ToSet(Zip(ring.keys, ring.owners))
         = {<<Hash[v], v[1]>> : v \in ring.workers \X Index}
    /\ \A i \in 1 .. Len(ring.keys) - 1 : ring.keys[i] < ring.keys[i + 1]
=============================================================================
