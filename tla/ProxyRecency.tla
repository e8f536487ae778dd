---------------------------- MODULE ProxyRecency ----------------------------
(***************************************************************************)
(* The composed handler with the history of Recency.                        *)
(***************************************************************************)
EXTENDS Proxy

VARIABLE since  \* since[k]: the keys used since k was used last

hvars == <<vars, since>>

History == INSTANCE Recency

RecentInit == Init /\ History!NothingUsed

RecentSpec == RecentInit /\ [][Next /\ History!Remember]_hvars

(***************************************************************************)
(* Also with routing and failover inside, a response that has not expired  *)
(* leaves the cache only when at least Size other queries were answered    *)
(* from it or stored since that response was last used (`get` promotes,    *)
(* `put` evicts the least recently used).                                  *)
(***************************************************************************)
EvictsOnlyTheColdest == [][History!ColdestLeaves]_hvars

=============================================================================
