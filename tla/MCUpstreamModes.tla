-------------------------- MODULE MCUpstreamModes --------------------------
(***************************************************************************)
(* The three modes over groups of different sizes, with RoundRobin's count *)
(* of where queries began.                                                 *)
(***************************************************************************)
EXTENDS MCUpstreamGroup, RoundRobin

CONSTANTS
  MaxBegun,  \* bound on the round-robin queries to trio
  u4,
  trio,      \* a group of three none of which always answers
  empty      \* the default group when every line is a rule

FourGroups ==
  (dflt :> <<u1, u2>>) @@ (rule :> <<u1>>) @@ (trio :> <<u1, u3, u4>>) @@ (empty :> <<>>)

HInit ==
  /\ CountedInit
  /\ grp = [q \in Queries |-> empty]

\* Load balancing is explored over the small groups, round-robin over the others,
\* both other modes with one latency; only u1 is ever down for good.
Bounds ==
  /\ begun'[trio] <= MaxBegun /\ begun'[dflt] <= 1
  /\ mode = "LoadBalance" => \A q \in Queries : grp'[q] # trio
  /\ mode = "RoundRobin" => \A q \in Queries : grp'[q] # rule
  /\ mode # "LoadBalance" => \A u \in Upstreams : avg'[u] \in {Untested, 1}
  /\ Upstreams \ {u1} \subseteq up'

CountedInBounds == Counted /\ Bounds

HNext ==
  \/ \E q \in Queries, g \in Groups : Arrive(q, g) /\ CountedInBounds
  \/ \E q \in Queries : Scan(q) /\ CountedInBounds
  \/ \E q \in Queries : SortBegin(q) /\ CountedInBounds
  \/ \E q \in Queries : SortEnd(q) /\ CountedInBounds
  \/ \E q \in Queries : SortPanic(q) /\ CountedInBounds
  \/ \E q \in Queries, s \in Samples : AttemptOk(q, s) /\ CountedInBounds
  \/ \E q \in Queries : AttemptErr(q) /\ CountedInBounds
  \/ \E q \in Queries : GiveUp(q) /\ CountedInBounds
  \/ \E u \in Upstreams : Toggle(u) /\ CountedInBounds

HFairSpec == HInit /\ [][HNext]_hvars /\ \A q \in Queries : WF_vars(Step(q))
=============================================================================
