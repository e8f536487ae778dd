------------------------------- MODULE Proxy -------------------------------
(***************************************************************************)
(* The handler main.rs puts behind every listener: the cache of Cache       *)
(* wrapped around UpstreamConfig::exchange, which tries the upstreams of    *)
(* the rule for the name in turn, each ending in validate_response of       *)
(* src/src/client/wire.rs.  Cache leaves the inner handler open; here it is *)
(* the routing, the failover and the validation.                            *)
(***************************************************************************)
EXTENDS Naturals, Sequences, FiniteSets

CONSTANTS
  Tasks, Requests, Size, MinTtl, MaxTtl, Unbounded, TicksPerSec, U32, MaxTime,
  Messages,  \* what an upstream may send back
  Groups     \* Groups[n]: the upstreams group_for finds for the name n

VARIABLES
  now, entries, lru, pc, req, pending, out,
  todo,    \* the upstreams a task has not tried yet, in order
  origin,  \* the upstream and the question of the message a task returns
  stored   \* the same for the message under each key of the cache

cache == <<now, entries, lru, pc, req, pending, out>>
vars == <<cache, todo, origin, stored>>

Message ==
  [id : Nat, questions : Nat, question : STRING, recs : SUBSET [opt : BOOLEAN, ttl : Nat]]

ASSUME ProxyAssumption ==
  /\ Messages \subseteq Message
  /\ Groups \in [DOMAIN Groups -> Seq(STRING)]
  /\ "" \in DOMAIN Groups
  /\ \A r \in Requests : r.question \in DOMAIN Groups

\* What of a message the cache looks at.
Contents(m) == [id |-> m.id, recs |-> m.recs]

Answers == { Contents(m) : m \in Messages }

Handler == INSTANCE Cache

\* What main.rs gives the cache; a record's TTL has 32 bits.
ASSUME CacheOptionsAssumption ==
  /\ Requests \subseteq Handler!Request
  /\ Size \in Nat \ {0}
  /\ MinTtl \in Nat
  /\ MaxTtl \in Nat \/ MaxTtl = Unbounded
  /\ TicksPerSec \in Nat \ {0}
  /\ U32 \in Nat \ {0}
  /\ \A m \in Messages : \A r \in m.recs : r.ttl < U32

NoOrigin == [by |-> "", question |-> ""]

\* The group for the first question's name, or for "" without a question.
GroupFor(r) == Groups[IF r.questions = 0 THEN "" ELSE r.question]

\* The message must have one question, the query's first; `req.queries[0]`
\* panics when the query has none.
validate_response(r, m) ==
  IF m.questions # 1 THEN "error"
  ELSE IF r.questions = 0 THEN "panic"
  ELSE IF r.question # m.question THEN "error"
  ELSE "ok"

----------------------------------------------------------------------------
\* The ghost of an entry goes when the entry does.
Keep(s) ==
  stored' = [k \in DOMAIN s |-> IF entries'[k] = Handler!NoEntry THEN NoOrigin ELSE s[k]]

\* A query arrives; one the cache does not apply to goes to its group at once.
Arrive(t, r) ==
  /\ Handler!Arrive(t, r)
  /\ todo' = [todo EXCEPT ![t] = IF Handler!HasKey(r) THEN <<>> ELSE GroupFor(r)]
  /\ origin' = [origin EXCEPT ![t] = NoOrigin]
  /\ UNCHANGED stored

Hit(t) ==
  /\ Handler!GetHit(t)
  /\ origin' = [origin EXCEPT ![t] = stored[Handler!cache_key(req[t])]]
  /\ UNCHANGED <<todo, stored>>

\* Mutant of Miss: every miss goes to the default group.
MissToDefault(t) ==
  /\ Handler!GetMiss(t) \/ Handler!GetExpired(t)
  /\ todo' = [todo EXCEPT ![t] = Groups[""]]
  /\ Keep(stored)
  /\ UNCHANGED origin

\* A miss: UpstreamConfig::exchange looks up the group of the name.
Miss(t) ==
  /\ Handler!GetMiss(t) \/ Handler!GetExpired(t)
  /\ todo' = [todo EXCEPT ![t] = GroupFor(req[t])]
  /\ Keep(stored)
  /\ UNCHANGED origin

Asking(t) == pc[t] \in {"forward", "bypass"} /\ todo[t] # <<>>

\* The upstream being tried sends a message that is accepted.
Accept(t, m) ==
  /\ Asking(t)
  /\ validate_response(req[t], m) = "ok"
  /\ Handler!HandlerOk(t, Contents(m))
  /\ origin' = [origin EXCEPT ![t] = [by |-> Head(todo[t]), question |-> m.question]]
  /\ todo' = [todo EXCEPT ![t] = <<>>]
  /\ UNCHANGED stored

\* It fails, or its message is refused: the next one is tried.
Refuse(t) ==
  /\ Asking(t)
  /\ todo' = [todo EXCEPT ![t] = Tail(@)]
  /\ UNCHANGED <<cache, origin, stored>>

\* The comparison with a question the query does not have panics; the task
\* ends, and its client gets no answer, as after an error.
Panic(t, m) ==
  /\ Asking(t)
  /\ validate_response(req[t], m) = "panic"
  /\ Handler!HandlerErr(t)
  /\ todo' = [todo EXCEPT ![t] = <<>>]
  /\ UNCHANGED <<origin, stored>>

\* No upstream is left: the last error is returned.
GiveUp(t) ==
  /\ todo[t] = <<>>
  /\ Handler!HandlerErr(t)
  /\ UNCHANGED <<todo, origin, stored>>

Put(t) ==
  /\ Handler!Put(t)
  /\ Keep([stored EXCEPT ![Handler!cache_key(req[t])] = origin[t]])
  /\ UNCHANGED <<todo, origin>>

Tick == Handler!Tick /\ UNCHANGED <<todo, origin, stored>>

Init ==
  /\ Handler!Init
  /\ todo = [t \in Tasks |-> <<>>]
  /\ origin = [t \in Tasks |-> NoOrigin]
  /\ stored = [k \in Handler!Keys |-> NoOrigin]

TaskStep(t) ==
  \/ \E r \in Requests : Arrive(t, r)
  \/ Hit(t)
  \/ Miss(t)
  \/ \E m \in Messages : Accept(t, m) \/ Panic(t, m)
  \/ Refuse(t)
  \/ GiveUp(t)
  \/ Put(t)

Next == Tick \/ \E t \in Tasks : TaskStep(t)

Spec == Init /\ [][Next]_vars

----------------------------------------------------------------------------
(* Properties *)

\* The message came from the group of r's name, in answer to that name.
FromTheRule(o, r) ==
  /\ o.question = r.question
  /\ \E i \in DOMAIN GroupFor(r) : GroupFor(r)[i] = o.by

\* Whatever a task returns, from the cache or not, was sent by an upstream of
\* the group its own name is routed to, with that name in its question: an
\* answer to another question is neither returned nor cached for later ones,
\* and no cached answer crosses from one rule to another.
AnswersComeFromTheRule ==
  \A t \in Tasks : out[t].kind \in {"hit", "forwarded"} => FromTheRule(origin[t], req[t])
=============================================================================
