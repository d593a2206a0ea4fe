--------------------------- MODULE MCLeaseManager ---------------------------
(* Small instances of LeaseManager for TLC.                                *)
EXTENDS LeaseManager, TLC

Symmetry == Permutations(Clients) \cup Permutations(Proxies)
                \cup Permutations(Requests) \cup Permutations(Conns)
=============================================================================
