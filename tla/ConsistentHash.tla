--------------------------- MODULE ConsistentHash ---------------------------
(***************************************************************************)
(* scheduler/consistent_hash.py: the ring is the sorted list of the hashes *)
(* of the workers' virtual nodes and a dict from hash to worker.  SHA-256  *)
(* is an injective function, given as a table; a routing key is its hash.  *)
(***************************************************************************)
EXTENDS Collections

CONSTANTS Addr,
          VirtualNodes,  \* virtual nodes per worker
          Hash           \* _hash, [Addr \X (0 .. VirtualNodes - 1) -> Nat]

ASSUME HashAssumption ==
    /\ VirtualNodes \in Nat \ {0}
    /\ Hash \in [Addr \X (0 .. VirtualNodes - 1) -> Nat]
    /\ \A v, w \in DOMAIN Hash : Hash[v] = Hash[w] => v = w

\* Python's indices count from 0: bisect returns how many are before.
BisectLeft(keys, h) == Cardinality({i \in DOMAIN keys : keys[i] < h})
BisectRight(keys, h) == Cardinality({i \in DOMAIN keys : keys[i] <= h})

EmptyRing == [workers |-> {}, keys |-> << >>, map |-> [h \in {} |-> 0]]

Index == 0 .. VirtualNodes - 1

\* One virtual node of a; a hash that is taken is skipped.
AddNode(ring, a, i) ==
    LET h == Hash[a, i]
    IN  IF h \in DOMAIN ring.map THEN ring
        ELSE [workers |-> ring.workers,
              keys    |-> InsertAt(ring.keys, BisectRight(ring.keys, h) + 1, h),
              map     |-> [g \in DOMAIN ring.map \cup {h} |->
                              IF g = h THEN a ELSE ring.map[g]]]

\* _add_worker_unlocked
AddWorker(ring, a) ==
    IF a \in ring.workers THEN ring
    ELSE LET after[n \in 0 .. VirtualNodes] ==
                 IF n = 0 THEN [workers |-> ring.workers \cup {a}, keys |-> ring.keys,
                                map |-> ring.map]
                 ELSE AddNode(after[n - 1], a, n - 1)
         IN  after[VirtualNodes]

\* One virtual node of a leaves the ring, if it is there and a's.
RemoveNode(ring, a, i) ==
    LET h == Hash[a, i]
    IN  IF h \notin DOMAIN ring.map \/ ring.map[h] # a THEN ring
        ELSE [workers |-> ring.workers,
              keys    |-> RemoveAt(ring.keys, BisectLeft(ring.keys, h) + 1),
              map     |-> [g \in DOMAIN ring.map \ {h} |-> ring.map[g]]]

\* Faulty: the last virtual node stays behind.
RemoveWorkerButOne(ring, a) ==
    IF a \notin ring.workers THEN ring
    ELSE LET after[n \in 0 .. VirtualNodes - 1] ==
                 IF n = 0 THEN [workers |-> ring.workers \ {a}, keys |-> ring.keys,
                                map |-> ring.map]
                 ELSE RemoveNode(after[n - 1], a, n - 1)
         IN  after[VirtualNodes - 1]

\* _remove_worker_unlocked
RemoveWorker(ring, a) ==
    IF a \notin ring.workers THEN ring
    ELSE LET after[n \in 0 .. VirtualNodes] ==
                 IF n = 0 THEN [workers |-> ring.workers \ {a}, keys |-> ring.keys,
                                map |-> ring.map]
                 ELSE RemoveNode(after[n - 1], a, n - 1)
         IN  after[VirtualNodes]

\* Faulty: the key's place is its hash modulo the number of places.
StartModulo(ring, key) == key % Len(ring.keys)

\* The place of the first virtual node clockwise from key.
Start(ring, key) == BisectRight(ring.keys, key) % Len(ring.keys)

\* The smallest i of at least start, else the smallest at all, for which the
\* loop over (start + i) % n finds a candidate.
NearestFrom(start, hits) ==
    LET ahead == {i \in hits : i >= start}
    IN  IF ahead # {} THEN Min(ahead) ELSE Min(hits)

\* select_from: the first place clockwise that holds a candidate.
SelectFrom(ring, candidates, key, none) ==
    LET hits == {i \in 0 .. Len(ring.keys) - 1 :
                    ring.map[ring.keys[i + 1]] \in candidates}
    IN  IF hits = {} THEN none
        ELSE ring.map[ring.keys[NearestFrom(Start(ring, key), hits) + 1]]

\* The ring is exactly the virtual nodes of its workers, in order.
WellFormed(ring) ==
    /\ DOMAIN ring.map = {Hash[v] : v \in ring.workers \X Index}
    /\ \A v \in ring.workers \X Index : ring.map[Hash[v]] = v[1]
    /\ ToSet(ring.keys) = DOMAIN ring.map
    /\ \A i \in 1 .. Len(ring.keys) - 1 : ring.keys[i] < ring.keys[i + 1]
=============================================================================
