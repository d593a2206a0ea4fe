--------------------------- MODULE MCDynamicLease ---------------------------
(* Small instances of DynamicLease for TLC.                                *)
EXTENDS DynamicLease, TLC

Symmetry == Permutations(Clients) \cup Permutations(Pool) \cup Permutations(Ids)
                \cup Permutations(Addresses) \cup Permutations(Params)
                \cup Permutations(Calls) \cup Permutations(Conns)

\* While the pool takes part, one API call is in progress and no connection is
\* open: the pool with connections is LeaseManager's.
PoolTakesPart ==
    \/ \E p \in Pool : proxies[p].status # "idle"
    \/ pendingNew \cup pendingRefs # {}
    \/ \E r \in Callers : calls[r].pc \in {"reserve", "poolprobe"}
Focus ==
    PoolTakesPart =>
        /\ \A k \in Conns : conns[k] = FreeConn
        /\ \A r, s \in Calls : calls[r].pc # "idle" /\ calls[s].pc # "idle" => r = s
=============================================================================
