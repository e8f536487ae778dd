------------------------------ MODULE MCProxy ------------------------------
(***************************************************************************)
(* Values of the constants of Proxy for TLC.                                *)
(***************************************************************************)
EXTENDS ProxyRecency, TLC

TaskSymmetry == Permutations(Tasks)

Query(id, q) ==
  [id |-> id, questions |-> 1, question |-> q,
   dnssec_ok |-> FALSE, checking_disabled |-> FALSE]

\* Three questions over a cache of two, and a message without a question.
MCRequests ==
  { Query(1, "a"), Query(1, "b"), Query(1, "c"), [Query(1, "") EXCEPT !.questions = 0] }

\* Answers to the right question, to the wrong one and to none, none of them
\* with the id of a query.
MCMessages ==
  [id : {0}, questions : {0, 1}, question : {"a", "b"}, recs : { {[opt |-> FALSE, ttl |-> 1]} }]
  \cup [id : {0}, questions : {1}, question : {"c"}, recs : { {[opt |-> FALSE, ttl |-> 1]} }]

\* a has a rule of its own; everything else goes to the default group.
MCGroups ==
  [n \in {"", "a", "b", "c"} |-> IF n = "a" THEN <<"private">> ELSE <<"u1", "u2">>]

\* Next /\ History!Remember, distributed over the actions.
HNext ==
  \/ Tick /\ History!Remember
  \/ \E t \in Tasks, r \in Requests : Arrive(t, r) /\ History!Remember
  \/ \E t \in Tasks : Hit(t) /\ History!Remember
  \/ \E t \in Tasks : Miss(t) /\ History!Remember
  \/ \E t \in Tasks, m \in Messages : Accept(t, m) /\ History!Remember
  \/ \E t \in Tasks, m \in Messages : Panic(t, m) /\ History!Remember
  \/ \E t \in Tasks : Refuse(t) /\ History!Remember
  \/ \E t \in Tasks : GiveUp(t) /\ History!Remember
  \/ \E t \in Tasks : Put(t) /\ History!Remember

HSpec == RecentInit /\ [][HNext]_hvars

=============================================================================
