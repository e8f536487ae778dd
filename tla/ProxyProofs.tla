---------------------------- MODULE ProxyProofs ----------------------------
(***************************************************************************)
(* The composed handler, for any tasks, queries, groups and messages: what  *)
(* it returns comes from the rule of the name, and what is proved of Cache  *)
(* around any handler holds of it.                                          *)
(***************************************************************************)
EXTENDS ProxyRecency, TLAPS

LEMMA EmptyIsSeq == ASSUME NEW S PROVE <<>> \in Seq(S)
OBVIOUS

LEMMA EmptyDomain == DOMAIN <<>> = {}
OBVIOUS

LEMMA TailIsSeq == ASSUME NEW S, NEW s \in Seq(S), s # <<>> PROVE Tail(s) \in Seq(S)
OBVIOUS

LEMMA HeadIsFirst ==
  ASSUME NEW S, NEW s \in Seq(S), s # <<>>
  PROVE  1 \in DOMAIN s /\ Head(s) = s[1]
OBVIOUS

LEMMA TailIsLater ==
  ASSUME NEW S, NEW s \in Seq(S), s # <<>>, NEW i \in DOMAIN Tail(s)
  PROVE  i + 1 \in DOMAIN s /\ Tail(s)[i] = s[i + 1]
OBVIOUS

LEMMA ContentsAreTyped ==
  ASSUME NEW m \in Message
  PROVE  /\ Contents(m) \in [id : Nat, recs : SUBSET [opt : BOOLEAN, ttl : Nat]]
         /\ Contents(m).recs = m.recs
BY DEF Message, Contents

USE ProxyAssumption

\* A step of the proxy is a step of the cache, or leaves the cache alone.
LEMMA StepIsCache == [Next]_vars => [Handler!Next]_cache
<1> SUFFICES ASSUME [Next]_vars PROVE [Handler!Next]_cache
  BY ZenonT(30)
<1> USE DEF Handler!Next, Handler!TaskStep
<1>1. CASE UNCHANGED vars
  BY <1>1, ZenonT(30) DEF vars, cache
<1>2. CASE Tick
  BY <1>2, ZenonT(30) DEF Tick
<1>3. ASSUME NEW t \in Tasks, NEW r \in Requests, Arrive(t, r) PROVE Handler!Next
  BY <1>3, ZenonT(30) DEF Arrive
<1>4. ASSUME NEW t \in Tasks, Hit(t) \/ Miss(t) \/ GiveUp(t) \/ Put(t) PROVE Handler!Next
  BY <1>4, ZenonT(30) DEF Hit, Miss, GiveUp, Put
<1>5. ASSUME NEW t \in Tasks, NEW m \in Messages, Accept(t, m) \/ Panic(t, m)
      PROVE  Handler!Next
  BY <1>5, ZenonT(30) DEF Accept, Panic, Answers
<1>6. ASSUME NEW t \in Tasks, Refuse(t) PROVE UNCHANGED cache
  BY <1>6, ZenonT(30) DEF Refuse
<1> QED
  BY <1>1, <1>2, <1>3, <1>4, <1>5, <1>6, ZenonT(30) DEF Next, TaskStep

----------------------------------------------------------------------------
(* Where the answers come from *)

Labels == {"done", "get", "bypass", "forward", "insert"}

Functions ==
  /\ pc \in [Tasks -> Labels]
  /\ req \in [Tasks -> Requests]
  /\ out = [t \in Tasks |-> out[t]]
  /\ todo \in [Tasks -> Seq(STRING)]
  /\ origin = [t \in Tasks |-> origin[t]]
  /\ entries = [k \in Handler!Keys |-> entries[k]]
  /\ stored = [k \in Handler!Keys |-> stored[k]]

\* Only queries with a key are looked up and stored.
KeyedTasks ==
  \A t \in Tasks : pc[t] \in {"get", "forward", "insert"} => Handler!HasKey(req[t])

\* Every upstream of the list is one of the query's group.
OfTheGroup(list, r) ==
  \A i \in DOMAIN list : \E j \in DOMAIN GroupFor(r) : GroupFor(r)[j] = list[i]

\* A task asks only upstreams of its query's group.
AsksTheRule == \A t \in Tasks : OfTheGroup(todo[t], req[t])

\* What a task is about to store comes from its rule,
InsertsFromTheRule ==
  \A t \in Tasks : pc[t] = "insert" => FromTheRule(origin[t], req[t])

\* and what is stored from the rule of the query that it answered.
StoredFromTheRule ==
  \A k \in Handler!Keys : entries[k] # Handler!NoEntry =>
    \E r \in Requests :
      Handler!HasKey(r) /\ Handler!cache_key(r) = k /\ FromTheRule(stored[k], r)

IInv ==
  /\ Functions
  /\ KeyedTasks
  /\ AsksTheRule
  /\ InsertsFromTheRule
  /\ StoredFromTheRule
  /\ AnswersComeFromTheRule

\* Queries with the same key are routed to the same group.
LEMMA KeyRoutes ==
  ASSUME NEW r, NEW s, NEW o, Handler!HasKey(r), Handler!HasKey(s),
         Handler!cache_key(r) = Handler!cache_key(s), FromTheRule(o, r)
  PROVE  FromTheRule(o, s)
<1>1. r.question = s.question /\ r.questions = 1 /\ s.questions = 1
  BY ZenonT(30) DEF Handler!HasKey, Handler!cache_key
<1>2. GroupFor(r) = GroupFor(s)
  BY <1>1, ZenonT(30) DEF GroupFor
<1> QED
  BY <1>1, <1>2, ZenonT(30) DEF FromTheRule

LEMMA EmptyOfTheGroup == ASSUME NEW r PROVE OfTheGroup(<<>>, r)
BY EmptyDomain, ZenonT(30) DEF OfTheGroup

LEMMA GroupOfTheGroup == ASSUME NEW r PROVE OfTheGroup(GroupFor(r), r)
BY ZenonT(30) DEF OfTheGroup

LEMMA TailOfTheGroup ==
  ASSUME NEW list \in Seq(STRING), NEW r, list # <<>>, OfTheGroup(list, r)
  PROVE  OfTheGroup(Tail(list), r)
<1>1. \A i \in DOMAIN Tail(list) : i + 1 \in DOMAIN list /\ Tail(list)[i] = list[i + 1]
  BY TailIsLater, ZenonT(30)
<1> QED
  BY <1>1, ZenonT(30) DEF OfTheGroup

\* group_for always finds a list of upstreams.
LEMMA GroupIsSeq == ASSUME NEW r \in Requests PROVE GroupFor(r) \in Seq(STRING)
BY ZenonT(30) DEF GroupFor

LEMMA FunctionsPreserved == IInv /\ [Next]_vars => Functions'
<1> SUFFICES ASSUME IInv, [Next]_vars PROVE Functions'
  BY ZenonT(30)
<1> USE DEF IInv, Functions, Labels
<1>1. CASE UNCHANGED vars
  BY <1>1, ZenonT(30) DEF vars, cache
<1>2. CASE Tick
  BY <1>2, ZenonT(30) DEF Tick, Handler!Tick
<1>3. ASSUME NEW t \in Tasks, NEW r \in Requests, Arrive(t, r) PROVE Functions'
  BY <1>3, GroupIsSeq, EmptyIsSeq, ZenonT(30) DEF Arrive, Handler!Arrive
<1>4. ASSUME NEW t \in Tasks, Hit(t) PROVE Functions'
  BY <1>4, ZenonT(30) DEF Hit, Handler!GetHit, Handler!Finish
<1>5. ASSUME NEW t \in Tasks, Miss(t) PROVE Functions'
  <2>1. GroupFor(req[t]) \in Seq(STRING)
    BY GroupIsSeq, ZenonT(30)
  <2> QED
    BY <1>5, <2>1, ZenonT(30) DEF Miss, Keep, Handler!GetMiss, Handler!GetExpired, Handler!LruPop
<1>6. ASSUME NEW t \in Tasks, NEW m \in Messages, Accept(t, m) PROVE Functions'
  BY <1>6, EmptyIsSeq, ZenonT(30) DEF Accept, Handler!HandlerOk, Handler!Finish
<1>7. ASSUME NEW t \in Tasks, NEW m \in Messages, Panic(t, m) PROVE Functions'
  BY <1>7, EmptyIsSeq, ZenonT(30) DEF Panic, Handler!HandlerErr, Handler!Finish
<1>8. ASSUME NEW t \in Tasks, Refuse(t) PROVE Functions'
  <2>1. Tail(todo[t]) \in Seq(STRING)
    BY <1>8, TailIsSeq, ZenonT(30) DEF Refuse, Asking
  <2> QED
    BY <1>8, <2>1, ZenonT(30) DEF Refuse, cache
<1>9. ASSUME NEW t \in Tasks, GiveUp(t) PROVE Functions'
  BY <1>9, ZenonT(30) DEF GiveUp, Handler!HandlerErr, Handler!Finish
<1>10. ASSUME NEW t \in Tasks, Put(t) PROVE Functions'
  BY <1>10, ZenonT(30) DEF Put, Keep, Handler!Put, Handler!LruPut, Handler!Finish
<1> QED
  BY <1>1, <1>2, <1>3, <1>4, <1>5, <1>6, <1>7, <1>8, <1>9, <1>10, ZenonT(30) DEF Next, TaskStep

\* The part of the invariant that is about the rules.
Sourced ==
  KeyedTasks /\ AsksTheRule /\ InsertsFromTheRule /\ StoredFromTheRule /\ AnswersComeFromTheRule

LEMMA SourcedPreserved == IInv /\ [Next]_vars => Sourced'
<1> SUFFICES ASSUME IInv, [Next]_vars PROVE Sourced'
  BY ZenonT(30)
<1>0. Functions'
  BY FunctionsPreserved, ZenonT(30)
<1> USE DEF IInv, Functions, Labels
<1>1. CASE UNCHANGED vars
  BY <1>1, ZenonT(30) DEF vars, cache, Sourced, KeyedTasks, AsksTheRule, InsertsFromTheRule,
              StoredFromTheRule, AnswersComeFromTheRule
<1>2. CASE Tick
  BY <1>2, ZenonT(30) DEF Tick, Handler!Tick, Sourced, KeyedTasks, AsksTheRule, InsertsFromTheRule,
              StoredFromTheRule, AnswersComeFromTheRule
<1>3. ASSUME NEW t \in Tasks, NEW r \in Requests, Arrive(t, r) PROVE Sourced'
  <2>1. KeyedTasks'
    BY <1>3, ZenonT(30) DEF Arrive, Handler!Arrive, KeyedTasks
  <2>2. AsksTheRule'
    <3>1. todo'[t] = <<>> \/ todo'[t] = GroupFor(r)
      BY <1>3, ZenonT(30) DEF Arrive
    <3>2. req'[t] = r /\ \A u \in Tasks : u # t => todo'[u] = todo[u] /\ req'[u] = req[u]
      BY <1>3, ZenonT(30) DEF Arrive, Handler!Arrive
    <3> QED
      BY <3>1, <3>2, EmptyOfTheGroup, GroupOfTheGroup, ZenonT(30) DEF AsksTheRule
  <2>3. InsertsFromTheRule'
    BY <1>3, ZenonT(30) DEF Arrive, Handler!Arrive, InsertsFromTheRule
  <2>4. StoredFromTheRule'
    BY <1>3, ZenonT(30) DEF Arrive, Handler!Arrive, StoredFromTheRule
  <2>5. AnswersComeFromTheRule'
    BY <1>3, ZenonT(30) DEF Arrive, Handler!Arrive, Handler!Result, AnswersComeFromTheRule
  <2> QED
    BY <2>1, <2>2, <2>3, <2>4, <2>5, ZenonT(30) DEF Sourced
<1>4. ASSUME NEW t \in Tasks, Hit(t) PROVE Sourced'
  <2> DEFINE k == Handler!cache_key(req[t])
  <2>1. /\ pc[t] = "get" /\ entries[k] # Handler!NoEntry /\ k \in Handler!Keys
        /\ origin' = [origin EXCEPT ![t] = stored[k]]
        /\ UNCHANGED <<todo, stored, entries, req>>
    BY <1>4, ZenonT(30) DEF Hit, Handler!GetHit, Handler!Stored
  <2>2. pc' = [pc EXCEPT ![t] = "done"]
    BY <1>4, ZenonT(30) DEF Hit, Handler!GetHit, Handler!Finish
  <2>3. \A u \in Tasks : u # t => out'[u] = out[u]
    BY <1>4, ZenonT(30) DEF Hit, Handler!GetHit, Handler!Finish
  <2>4. PICK r \in Requests :
          Handler!HasKey(r) /\ Handler!cache_key(r) = k /\ FromTheRule(stored[k], r)
    BY <2>1, ZenonT(30) DEF StoredFromTheRule
  <2>5. FromTheRule(origin'[t], req[t])
    BY <2>1, <2>4, KeyRoutes, ZenonT(30) DEF KeyedTasks
  <2>6. KeyedTasks' /\ AsksTheRule' /\ StoredFromTheRule'
    BY <2>1, <2>2, ZenonT(30) DEF KeyedTasks, AsksTheRule, StoredFromTheRule
  <2>7. InsertsFromTheRule'
    BY <2>1, <2>2, ZenonT(30) DEF InsertsFromTheRule
  <2>8. AnswersComeFromTheRule'
    BY <2>1, <2>3, <2>5, ZenonT(30) DEF AnswersComeFromTheRule
  <2> QED
    BY <2>6, <2>7, <2>8, ZenonT(30) DEF Sourced
<1>5. ASSUME NEW t \in Tasks, Miss(t) PROVE Sourced'
  <2>1. /\ pc[t] = "get" /\ pc' = [pc EXCEPT ![t] = "forward"]
        /\ todo' = [todo EXCEPT ![t] = GroupFor(req[t])]
        /\ UNCHANGED <<origin, req, out>>
    BY <1>5, ZenonT(30) DEF Miss, Handler!GetMiss, Handler!GetExpired
  <2>2. KeyedTasks' /\ AsksTheRule' /\ InsertsFromTheRule' /\ AnswersComeFromTheRule'
    BY <2>1, GroupOfTheGroup, ZenonT(30) DEF KeyedTasks, AsksTheRule, InsertsFromTheRule,
                                 AnswersComeFromTheRule
  <2>3. \A k \in Handler!Keys : entries'[k] # Handler!NoEntry =>
          entries[k] # Handler!NoEntry /\ stored'[k] = stored[k]
    BY <1>5, ZenonT(30) DEF Miss, Keep, Handler!GetMiss, Handler!GetExpired, Handler!LruPop
  <2>4. StoredFromTheRule'
    BY <2>3, ZenonT(30) DEF StoredFromTheRule
  <2> QED
    BY <2>2, <2>4, ZenonT(30) DEF Sourced
<1>6. ASSUME NEW t \in Tasks, NEW m \in Messages, Accept(t, m) PROVE Sourced'
  <2> DEFINE o == [by |-> Head(todo[t]), question |-> m.question]
  <2>1. /\ pc[t] \in {"forward", "bypass"} /\ todo[t] # <<>>
        /\ origin' = [origin EXCEPT ![t] = o]
        /\ todo' = [todo EXCEPT ![t] = <<>>]
        /\ UNCHANGED <<stored, entries, req>>
    BY <1>6, ZenonT(30) DEF Accept, Asking, Handler!HandlerOk
  <2>2. /\ pc' = [pc EXCEPT ![t] = pc'[t]] /\ pc'[t] \in {"insert", "done"}
        /\ pc'[t] = "insert" => pc[t] = "forward"
    BY <1>6, ZenonT(30) DEF Accept, Handler!HandlerOk, Handler!Finish
  <2>3. \A u \in Tasks : u # t => out'[u] = out[u]
    BY <1>6, ZenonT(30) DEF Accept, Handler!HandlerOk, Handler!Finish
  <2>4. o.question = req[t].question
    BY <1>6, ZenonT(30) DEF Accept, validate_response
  <2>5. 1 \in DOMAIN todo[t] /\ Head(todo[t]) = todo[t][1]
    BY <2>1, HeadIsFirst, ZenonT(30)
  <2>6. FromTheRule(o, req[t])
    BY <2>4, <2>5, ZenonT(30) DEF FromTheRule, AsksTheRule, OfTheGroup
  <2>7. KeyedTasks' /\ StoredFromTheRule'
    BY <2>1, <2>2, ZenonT(30) DEF KeyedTasks, StoredFromTheRule
  <2>8. AsksTheRule'
    BY <2>1, EmptyOfTheGroup, ZenonT(30) DEF AsksTheRule
  <2>9. InsertsFromTheRule'
    BY <2>1, <2>2, <2>6, ZenonT(30) DEF InsertsFromTheRule
  <2>10. AnswersComeFromTheRule'
    BY <2>1, <2>3, <2>6, ZenonT(30) DEF AnswersComeFromTheRule
  <2> QED
    BY <2>7, <2>8, <2>9, <2>10, ZenonT(30) DEF Sourced
<1>7. ASSUME NEW t \in Tasks, Handler!HandlerErr(t), UNCHANGED <<origin, stored>>,
             todo' = [todo EXCEPT ![t] = <<>>] \/ UNCHANGED todo
      PROVE  Sourced'
  <2>1. /\ pc' = [pc EXCEPT ![t] = "done"]
        /\ out' = [out EXCEPT ![t] = Handler!Result("error", <<>>)]
        /\ UNCHANGED <<entries, req>>
    BY <1>7, ZenonT(30) DEF Handler!HandlerErr, Handler!Finish
  <2>2. KeyedTasks' /\ StoredFromTheRule' /\ InsertsFromTheRule'
    BY <1>7, <2>1, ZenonT(30) DEF KeyedTasks, StoredFromTheRule, InsertsFromTheRule
  <2>3. AsksTheRule'
    BY <1>7, <2>1, EmptyOfTheGroup, ZenonT(30) DEF AsksTheRule
  <2>4. AnswersComeFromTheRule'
    BY <1>7, <2>1, ZenonT(30) DEF AnswersComeFromTheRule, Handler!Result
  <2> QED
    BY <2>2, <2>3, <2>4, ZenonT(30) DEF Sourced
<1>8. ASSUME NEW t \in Tasks, Refuse(t) PROVE Sourced'
  <2>1. /\ todo[t] # <<>> /\ todo' = [todo EXCEPT ![t] = Tail(todo[t])]
        /\ UNCHANGED <<pc, req, out, entries, origin, stored>>
    BY <1>8, ZenonT(30) DEF Refuse, Asking, cache
  <2>2. OfTheGroup(Tail(todo[t]), req[t])
    BY <2>1, TailOfTheGroup, ZenonT(30) DEF AsksTheRule
  <2>3. AsksTheRule'
    BY <2>1, <2>2, ZenonT(30) DEF AsksTheRule
  <2>4. KeyedTasks' /\ StoredFromTheRule' /\ InsertsFromTheRule' /\ AnswersComeFromTheRule'
    BY <2>1, ZenonT(30) DEF KeyedTasks, StoredFromTheRule, InsertsFromTheRule, AnswersComeFromTheRule
  <2> QED
    BY <2>3, <2>4, ZenonT(30) DEF Sourced
<1>9. ASSUME NEW t \in Tasks, Put(t) PROVE Sourced'
  <2> DEFINE k == Handler!cache_key(req[t])
  <2>1. /\ pc[t] = "insert" /\ pc' = [pc EXCEPT ![t] = "done"]
        /\ k \in Handler!Keys /\ UNCHANGED <<todo, origin, req>>
    BY <1>9, ZenonT(30) DEF Put, Handler!Put, Handler!Finish, Handler!Keys
  <2>2. \A u \in Tasks : u # t => out'[u] = out[u]
    BY <1>9, ZenonT(30) DEF Put, Handler!Put, Handler!Finish
  <2>3. FromTheRule(origin[t], req[t]) /\ Handler!HasKey(req[t]) /\ req[t] \in Requests
    BY <2>1, ZenonT(30) DEF InsertsFromTheRule, KeyedTasks
  <2>4. ASSUME NEW j \in Handler!Keys, entries'[j] # Handler!NoEntry
        PROVE  stored'[j] = IF j = k THEN origin[t] ELSE stored[j]
    BY <1>9, <2>1, <2>4, ZenonT(30) DEF Put, Keep
  <2>5. ASSUME NEW j \in Handler!Keys, entries'[j] # Handler!NoEntry, j # k
        PROVE  entries[j] # Handler!NoEntry
    BY <1>9, <2>1, <2>5, ZenonT(30) DEF Put, Handler!Put, Handler!LruPut
  <2>6. StoredFromTheRule'
    BY <2>3, <2>4, <2>5, ZenonT(30) DEF StoredFromTheRule
  <2>7. KeyedTasks' /\ AsksTheRule' /\ InsertsFromTheRule'
    BY <2>1, ZenonT(30) DEF KeyedTasks, AsksTheRule, InsertsFromTheRule
  <2>8. AnswersComeFromTheRule'
    BY <2>1, <2>2, <2>3, ZenonT(30) DEF AnswersComeFromTheRule
  <2> QED
    BY <2>6, <2>7, <2>8, ZenonT(30) DEF Sourced
<1> QED
  BY <1>1, <1>2, <1>3, <1>4, <1>5, <1>6, <1>7, <1>8, <1>9, ZenonT(30) DEF Next, TaskStep, Panic, GiveUp

LEMMA InitIInv == Init => IInv
<1> SUFFICES ASSUME Init PROVE IInv
  BY ZenonT(30)
<1> USE DEF Init, Handler!Init
<1>1. pc = [t \in Tasks |-> "done"] /\ out = [t \in Tasks |-> Handler!Result("none", <<>>)]
  BY ZenonT(30) DEF Handler!Result
<1>2. Functions
  BY <1>1, EmptyIsSeq, ZenonT(30) DEF Functions, Labels
<1>3. AsksTheRule
  BY EmptyOfTheGroup, ZenonT(30) DEF AsksTheRule
<1>4. KeyedTasks /\ InsertsFromTheRule /\ StoredFromTheRule
  BY <1>1, ZenonT(30) DEF KeyedTasks, InsertsFromTheRule, StoredFromTheRule
<1>5. AnswersComeFromTheRule
  <2>1. Handler!Result("none", <<>>).kind = "none"
    BY ZenonT(30) DEF Handler!Result
  <2>2. \A t \in Tasks : out[t] = Handler!Result("none", <<>>)
    BY <1>1, ZenonT(30)
  <2>3. \A t \in Tasks : out[t].kind = "none"
    BY <2>1, <2>2, ZenonT(30)
  <2> QED
    BY <2>3, ZenonT(30) DEF AnswersComeFromTheRule
<1> QED
  BY <1>2, <1>3, <1>4, <1>5, ZenonT(30) DEF IInv

\* Whatever the groups, the messages and the order of the steps, an answer that
\* is returned, cached or fresh, was sent by an upstream of the rule of its name
\* and repeats that name.
THEOREM Sources == Spec => []AnswersComeFromTheRule
<1>1. IInv /\ [Next]_vars => IInv'
  BY FunctionsPreserved, SourcedPreserved, ZenonT(30) DEF IInv, Sourced
<1>2. IInv => AnswersComeFromTheRule
  BY ZenonT(30) DEF IInv
<1> QED
  BY InitIInv, <1>1, <1>2, PTL DEF Spec

----------------------------------------------------------------------------
(* What the cache promises, promised by the composed handler.  Lru holds the *)
(* proofs about Cache; its operators are those of Handler and History.       *)

Lru == INSTANCE CacheProofs

\* The options satisfy what the proofs about the cache assume.
LEMMA OptionsOfTheCache == Lru!CacheAssumption
<1>1. ASSUME NEW a \in Answers
      PROVE  a \in [id : Nat, recs : SUBSET Lru!Rec] /\ \A r \in a.recs : r.ttl < U32
  <2>1. PICK m \in Messages : a = Contents(m)
    BY ZenonT(30) DEF Answers
  <2>2. m \in Message
    BY ZenonT(30)
  <2>3. \A r \in m.recs : r.ttl < U32
    BY CacheOptionsAssumption, ZenonT(30)
  <2> QED
    BY <2>1, <2>2, <2>3, ContentsAreTyped, ZenonT(30) DEF Lru!Rec
<1> QED
  BY <1>1, CacheOptionsAssumption, ZenonT(30) DEF Handler!Request, Lru!CacheAssumption, Lru!Request

LEMMA SameKeys ==
  /\ Handler!Keys = Lru!Keys
  /\ Handler!NoEntry = Lru!NoEntry
BY ZenonT(30) DEF Handler!Keys, Handler!cache_key, Handler!NoEntry, Lru!Keys, Lru!cache_key, Lru!NoEntry

LEMMA SameInit == Handler!Init => Lru!Init
BY SameKeys, ZenonT(30) DEF Handler!Init, Handler!Result, Lru!Init, Lru!Result

LEMMA SameNext == Handler!Next => Lru!Next
BY SameKeys, ZenonT(60)
   DEF Handler!Next, Handler!TaskStep, Handler!Arrive, Handler!GetMiss, Handler!GetExpired,
       Handler!GetHit, Handler!HandlerOk, Handler!HandlerErr, Handler!Put, Handler!Tick,
       Handler!HasKey, Handler!Variant, Handler!cache_key, Handler!Keys, Handler!NoEntry,
       Handler!cacheable_records, Handler!LeastTtl, Handler!Clamped, Handler!response_ttl,
       Handler!Remaining, Handler!Expired, Handler!all_records_mut, Handler!Stored,
       Handler!Without, Handler!LruPromote, Handler!LruPop, Handler!LruPut, Handler!Result,
       Handler!Finish,
       Lru!Next, Lru!TaskStep, Lru!Arrive, Lru!GetMiss, Lru!GetExpired, Lru!GetHit,
       Lru!HandlerOk, Lru!HandlerErr, Lru!Put, Lru!Tick, Lru!HasKey, Lru!Variant,
       Lru!cache_key, Lru!Keys, Lru!NoEntry, Lru!cacheable_records, Lru!LeastTtl,
       Lru!Clamped, Lru!response_ttl, Lru!Remaining, Lru!Expired, Lru!all_records_mut,
       Lru!Stored, Lru!Without, Lru!LruPromote, Lru!LruPop, Lru!LruPut, Lru!Result, Lru!Finish

LEMMA SameRemember == History!Remember => Lru!Remember
BY ZenonT(30) DEF History!Remember, History!Used, History!Touched, History!cache_key, History!Keys,
             History!NoEntry, Lru!Remember, Lru!Used, Lru!Touched, Lru!cache_key, Lru!Keys,
             Lru!NoEntry

LEMMA SameEviction == Lru!ColdestLeaves => History!ColdestLeaves
<1>1. History!Keys = Lru!Keys /\ History!NoEntry = Lru!NoEntry
  BY ZenonT(30) DEF History!cache_key, History!Keys, History!NoEntry, Lru!cache_key, Lru!Keys,
                    Lru!NoEntry
<1>2. History!Used = Lru!Used
  BY ZenonT(30) DEF History!Used, History!Touched, History!cache_key, History!Keys, Lru!Used,
                    Lru!Touched, Lru!cache_key, Lru!Keys
<1>3. \A e : History!Expired(e) <=> Lru!Expired(e)
  BY ZenonT(30) DEF History!Expired, Lru!Expired
<1>4. \A S : History!Cardinality(S) = Lru!Cardinality(S)
  BY ZenonT(30) DEF History!Cardinality, Lru!Cardinality, History!IsFiniteSet, Lru!IsFiniteSet
<1> QED
  BY <1>1, <1>2, <1>3, <1>4, ZenonT(30) DEF History!ColdestLeaves, Lru!ColdestLeaves

\* The inductive invariant of the cache and of its recency list.
CInv == Lru!IInv /\ Lru!LruConsistent

LEMMA CacheInit == Init => CInv
<1> SUFFICES ASSUME Init PROVE CInv
  BY ZenonT(30)
<1>1. Lru!Init
  BY SameInit, ZenonT(30) DEF Init
<1>2. Lru!IInv
  BY <1>1, OptionsOfTheCache, Lru!InitInvariant, ZenonT(30)
<1>3. Lru!LruConsistent
  BY <1>1, OptionsOfTheCache, Lru!InitConsistent, ZenonT(30)
<1> QED
  BY <1>2, <1>3, ZenonT(30) DEF CInv

LEMMA CacheStep == CInv /\ [Next]_vars => CInv'
<1> SUFFICES ASSUME CInv, [Next]_vars PROVE CInv'
  BY ZenonT(30)
<1>1. [Lru!Next]_Lru!vars
  BY StepIsCache, SameNext, ZenonT(30) DEF cache, Lru!vars
<1>2. Lru!IInv'
  BY <1>1, OptionsOfTheCache, Lru!NextInvariant, ZenonT(30) DEF CInv
<1>3. Lru!LruConsistent'
  BY <1>1, OptionsOfTheCache, Lru!LruStep, ZenonT(30) DEF CInv
<1> QED
  BY <1>2, <1>3, ZenonT(30) DEF CInv

\* Behind routing, failover and validation as behind any other handler: no hit
\* is served past the lifetime of the upstream's message it copies, and every
\* hit has its query's id and copies a message fetched for its question, DO and
\* CD bits (cache.rs).
THEOREM CacheKeepsItsPromises == Spec => [](Handler!HitIsFresh /\ Handler!AnswersOwnQuery)
<1>1. CInv => Handler!HitIsFresh
  BY ZenonT(30) DEF CInv, Lru!IInv, Handler!HitIsFresh, Handler!Lifetime, Handler!response_ttl,
               Handler!Clamped, Handler!LeastTtl, Handler!cacheable_records, Lru!HitIsFresh,
               Lru!Lifetime, Lru!response_ttl, Lru!Clamped, Lru!LeastTtl, Lru!cacheable_records
<1>2. CInv => Handler!AnswersOwnQuery
  BY ZenonT(30) DEF CInv, Lru!IInv, Handler!AnswersOwnQuery, Handler!Variant, Lru!AnswersOwnQuery,
               Lru!Variant
<1> QED
  BY <1>1, <1>2, CacheInit, CacheStep, PTL DEF Spec

\* Also with routing and failover inside, a response that has not expired leaves
\* the cache only when at least Size other keys were used since it was.
THEOREM EvictsTheColdest == RecentSpec => EvictsOnlyTheColdest
<1> DEFINE EInv == CInv /\ Lru!RInv
<1>1. RecentInit => EInv
  <2> SUFFICES ASSUME RecentInit PROVE EInv
    BY ZenonT(30)
  <2>1. Lru!Init /\ CInv
    BY SameInit, CacheInit, ZenonT(30) DEF RecentInit, Init
  <2>2. Lru!NothingUsed
    BY ZenonT(30) DEF RecentInit, History!NothingUsed, History!Keys, History!cache_key, Lru!NothingUsed,
           Lru!Keys, Lru!cache_key
  <2> QED
    BY <2>1, <2>2, OptionsOfTheCache, Lru!InitRecency, ZenonT(30)
<1>2. EInv /\ [Next /\ History!Remember]_hvars => EInv' /\ [History!ColdestLeaves]_hvars
  <2> SUFFICES ASSUME EInv, [Next /\ History!Remember]_hvars
               PROVE  EInv' /\ [History!ColdestLeaves]_hvars
    BY ZenonT(30)
  <2>1. CInv'
    BY CacheStep, ZenonT(30) DEF hvars
  <2>2. CASE UNCHANGED hvars
    <3>1. UNCHANGED <<lru, since, pc, req>>
      BY <2>2, ZenonT(30) DEF hvars, vars, cache
    <3>2. Lru!RInv'
      BY <3>1, ZenonT(30) DEF Lru!RInv, Lru!Warmer, Lru!Keys, Lru!cache_key
    <3> QED
      BY <2>1, <2>2, <3>2, ZenonT(30)
  <2>3. ASSUME Next, History!Remember PROVE Lru!RInv' /\ History!ColdestLeaves
    <3>1. Lru!Remember
      BY <2>3, SameRemember, ZenonT(30)
    <3>2. CASE Lru!Next
      BY <3>1, <3>2, OptionsOfTheCache, SameEviction, Lru!RecencyStep, Lru!EvictionStep, ZenonT(30) DEF CInv
    <3>3. CASE UNCHANGED cache
      <4>1. UNCHANGED <<entries, lru, pc>>
        BY <3>3, ZenonT(30) DEF cache
      <4>2. Lru!RInv'
        BY <2>1, <3>1, <4>1, OptionsOfTheCache, Lru!IdleStep, ZenonT(30) DEF CInv
      <4>3. History!ColdestLeaves
        BY <4>1, ZenonT(30) DEF History!ColdestLeaves
      <4> QED
        BY <4>2, <4>3, ZenonT(30)
    <3> QED
      BY <2>3, <3>2, <3>3, StepIsCache, SameNext, ZenonT(30)
  <2> QED
    BY <2>1, <2>2, <2>3, ZenonT(30)
<1> QED
  BY <1>1, <1>2, PTL DEF RecentSpec, EvictsOnlyTheColdest
=============================================================================
