------------------------------ MODULE MCCache ------------------------------
(***************************************************************************)
(* Values of the constants of Cache for TLC.                                *)
(***************************************************************************)
EXTENDS Cache, TLC

TaskSymmetry == Permutations(Tasks)

Query(id, q, do, cd) ==
  [id |-> id, questions |-> 1, question |-> q,
   dnssec_ok |-> do, checking_disabled |-> cd]

\* One question asked twice with different ids, once with CD set, and a
\* message with two questions.
MCRequests ==
  { Query(1, "a", FALSE, FALSE), Query(2, "a", FALSE, FALSE),
    Query(1, "a", FALSE, TRUE),
    [Query(2, "a", FALSE, FALSE) EXCEPT !.questions = 2] }

RR(n)  == [opt |-> FALSE, ttl |-> n]
Opt(n) == [opt |-> TRUE, ttl |-> n]

\* TTLs below the floor and above the ceiling, two records with different TTLs
\* beside an OPT record whose TTL field is smaller, and a message with nothing
\* cacheable; with the id of one of the queries or of none.
MCAnswers ==
  { [id |-> 0, recs |-> {RR(0)}], [id |-> 1, recs |-> {RR(3)}],
    [id |-> 2, recs |-> {RR(1), RR(2), Opt(0)}], [id |-> 0, recs |-> {Opt(1)}] }

=============================================================================
