----------------------------- MODULE RoundRobin -----------------------------
(***************************************************************************)
(* UpstreamGroup with two history variables: how many round-robin queries   *)
(* of a group began, and which upstream each of them tried first.           *)
(***************************************************************************)
EXTENDS UpstreamGroup, Functions

VARIABLES
  begun,  \* begun[g]: the round-robin queries of g that had an upstream to try
  first   \* first[g][u]: how many of them tried u first

hvars == <<vars, begun, first>>

\* Some query of g is ordered in this step and will try u first.
Begins(g, u) ==
  \E q \in Queries :
    /\ mode = "RoundRobin" /\ pc[q] = "idle" /\ pc'[q] = "try" /\ grp'[q] = g
    /\ rest'[q] # <<>> /\ Head(rest'[q]) = u

Counted ==
  /\ begun' = [g \in Groups |->
                 IF \E u \in Upstreams : Begins(g, u) THEN begun[g] + 1 ELSE begun[g]]
  /\ first' = [g \in Groups |-> [u \in Upstreams |->
                 IF Begins(g, u) THEN first[g][u] + 1 ELSE first[g][u]]]

CountedInit ==
  /\ Init
  /\ begun = [g \in Groups |-> 0]
  /\ first = [g \in Groups |-> [u \in Upstreams |-> 0]]

CountedSpec == CountedInit /\ [][Next /\ Counted]_hvars

(***************************************************************************)
(* Round-robin spreads the first attempts of each group evenly, whatever   *)
(* other groups and concurrent queries do: two upstreams of a group that   *)
(* lists none twice differ by at most one, plus one for every time the     *)
(* cursor wrapped around (`fetch_add`, then `% len`).                      *)
(***************************************************************************)
Balanced ==
  mode = "RoundRobin" =>
    \A g \in Groups : IsInjective(Members[g]) => \A u, v \in Elements(Members[g]) :
      first[g][u] - first[g][v] <= 1 + (begun[g] \div CursorMod)
=============================================================================
