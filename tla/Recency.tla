------------------------------ MODULE Recency ------------------------------
(***************************************************************************)
(* The cache with a history the program does not keep: for every key, the   *)
(* other keys that were stored or hit since it was.                         *)
(***************************************************************************)
EXTENDS Cache

VARIABLE since  \* since[k]: the keys used since k was used last

hvars == <<vars, since>>

\* A step uses k when it answers a query from k or stores under k.
Touched(k) ==
  \E t \in Tasks :
    /\ pc[t] \in {"get", "insert"} /\ pc'[t] = "done"
    /\ cache_key(req[t]) = k

Used == { k \in Keys : Touched(k) }

Remember ==
  since' = [k \in Keys |->
    IF entries'[k] = NoEntry \/ Touched(k) THEN {} ELSE since[k] \cup Used]

NothingUsed == since = [k \in Keys |-> {}]

RecentSpec == Init /\ NothingUsed /\ [][Next /\ Remember]_hvars

(***************************************************************************)
(* What a step may never do: drop a response that has not expired unless   *)
(* at least Size other queries were answered from the cache or stored      *)
(* since that response was last used (`get` promotes, `put` evicts the     *)
(* least recently used).                                                   *)
(***************************************************************************)
ColdestLeaves ==
  \A k \in Keys :
    (entries[k] # NoEntry /\ entries'[k] = NoEntry /\ ~Expired(entries[k]))
      => Cardinality(Used \cup since[k]) >= Size

=============================================================================
