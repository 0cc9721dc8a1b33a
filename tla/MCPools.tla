------------------------------ MODULE MCPools ------------------------------
(* Pools on small instances.  Requests, pool objects, connections and databases   *)
(* are each interchangeable: Pools names none of them.                            *)
EXTENDS Pools, TLC

Symm == Permutations(Req) \cup Permutations(Pool) \cup Permutations(Conn) \cup Permutations(Db)
=============================================================================
