---------------------------- MODULE CacheProofs ----------------------------
(***************************************************************************)
(* Proofs about Cache, for every set of tasks, queries and answers and for  *)
(* every size, TTL bound and clock resolution.                              *)
(***************************************************************************)
EXTENDS Recency, TLAPS, WellFoundedInduction, SequenceTheorems, FunctionTheorems, FiniteSetTheorems

----------------------------------------------------------------------------
(* Lifetimes *)

\* A non-empty set of naturals has a least element.
LEMMA LeastNatural ==
  ASSUME NEW S \in SUBSET Nat, S # {}
  PROVE  \E n \in S : \A m \in S : n <= m
<1>1. PICK n \in S : \A m \in S : ~(<<m, n>> \in OpToRel(<, Nat))
  BY NatLessThanWellFounded, WFMin, ZenonT(30)
<1>2. \A m \in S : ~(m < n)
  BY <1>1, ZenonT(30) DEF OpToRel
<1>3. QED
  BY <1>2

\* LeastTtl of a non-empty record set is one of its TTLs and a lower bound.
LEMMA LeastTtlProperty ==
  ASSUME NEW recs \in SUBSET Rec, recs # {}
  PROVE  /\ LeastTtl(recs) \in Nat
         /\ \A r \in recs : LeastTtl(recs) <= r.ttl
<1> DEFINE S == { r.ttl : r \in recs }
<1>1. S \in SUBSET Nat /\ S # {}
  BY DEF Rec
<1>2. PICK n \in S : \A m \in S : n <= m
  BY <1>1, LeastNatural, ZenonT(30)
<1>3. \E m \in S : \A r \in recs : m <= r.ttl
  BY <1>2
<1>4. LeastTtl(recs) \in S /\ \A r \in recs : LeastTtl(recs) <= r.ttl
  BY <1>3 DEF LeastTtl
<1>5. QED
  BY <1>1, <1>4

\* The lifetime of a message with a cacheable record is a natural number.
LEMMA ResponseTtlType ==
  ASSUME NEW recs \in SUBSET Rec, cacheable_records(recs) # {}
  PROVE  response_ttl(recs) \in Nat
<1>1. cacheable_records(recs) \in SUBSET Rec
  BY DEF cacheable_records
<1>2. LeastTtl(cacheable_records(recs)) \in Nat
  BY <1>1, LeastTtlProperty
<1>3. Clamped(LeastTtl(cacheable_records(recs))) \in Nat
  BY <1>2, CacheAssumption DEF Clamped
<1>4. QED
  BY <1>3, CacheAssumption DEF response_ttl

\* What `as_secs() as u32` keeps of a duration never exceeds it.
LEMMA SecondsAtMost ==
  ASSUME NEW d \in Nat
  PROVE  /\ (d \div TicksPerSec) % U32 \in Nat
         /\ ((d \div TicksPerSec) % U32) * TicksPerSec <= d
<1> DEFINE q == d \div TicksPerSec
           s == q % U32
<1>1. q \in Nat /\ q * TicksPerSec <= d
  BY CacheAssumption, Z3
<1>2. s \in Nat /\ s <= q
  BY <1>1, CacheAssumption, Z3
<1>3. s * TicksPerSec <= q * TicksPerSec
  BY <1>1, <1>2, CacheAssumption, Z3
<1>4. QED
  BY <1>1, <1>2, <1>3, CacheAssumption

----------------------------------------------------------------------------
(* The recency list *)

\* Detaching a key leaves a list of the remaining keys.
LEMMA WithoutType ==
  ASSUME NEW S, NEW s \in Seq(S), NEW k
  PROVE  Without(s, k) \in Seq(S)
<1>1. CASE \E i \in 1..Len(s) : s[i] = k
  <2> DEFINE i == CHOOSE i \in 1..Len(s) : s[i] = k
             f == [j \in 1..(Len(s) - 1) |-> IF j < i THEN s[j] ELSE s[j + 1]]
  <2>1. i \in 1..Len(s)
    BY <1>1
  <2>2. Len(s) \in Nat /\ \A j \in 1..Len(s) : s[j] \in S
    OBVIOUS
  <2>3. Len(s) - 1 \in Nat
    BY <2>1, <2>2
  <2>4. \A j \in 1..(Len(s) - 1) : f[j] \in S
    BY <2>1, <2>2
  <2>5. f \in [1..(Len(s) - 1) -> S]
    BY <2>4
  <2>6. f \in Seq(S)
    BY <2>3, <2>5, SeqDef
  <2>7. QED
    BY <1>1, <2>6 DEF Without
<1>2. CASE ~ \E i \in 1..Len(s) : s[i] = k
  BY <1>2 DEF Without
<1>3. QED
  BY <1>1, <1>2

\* Using a key keeps a list of keys.
LEMMA LruPromoteType ==
  ASSUME NEW k \in Keys, lru \in Seq(Keys)
  PROVE  LruPromote(k) \in Seq(Keys)
  BY WithoutType, AppendProperties DEF LruPromote

----------------------------------------------------------------------------
(* The inductive invariant.  TypeOK alone is not inductive: a hit's TTLs are *)
(* natural numbers only because a stored entry is never dated in the future. *)

IInv == TypeOK /\ EntriesAreGenuine /\ HitIsFresh /\ AnswersOwnQuery

\* The key a task looks up is one of the keys, and is the query's variant.
LEMMA KeyType ==
  ASSUME NEW r \in Requests
  PROVE  cache_key(r) \in Keys /\ cache_key(r) \in CacheKey /\ cache_key(r) = Variant(r)
  BY CacheAssumption DEF Keys, cache_key, Variant, Request, CacheKey

\* Rewriting the TTLs of a message's records to a number keeps them records.
LEMMA RewrittenType ==
  ASSUME NEW recs \in SUBSET Rec, NEW ttl \in Nat
  PROVE  /\ all_records_mut(recs, ttl) \in SUBSET Rec
         /\ \A r \in cacheable_records(all_records_mut(recs, ttl)) : r.ttl = ttl
  BY DEF all_records_mut, cacheable_records, Rec

\* What a fresh hit of a genuine entry returns.
LEMMA HitProperty ==
  ASSUME now \in Nat, NEW k, NEW e \in Entry, Genuine(e, k), ~Expired(e)
  PROVE  /\ Remaining(e) \in Nat
         /\ now - e.response.src.born < Lifetime(e.response.src)
         /\ Remaining(e) * TicksPerSec + (now - e.response.src.born)
              <= Lifetime(e.response.src)
<1> DEFINE d == e.ttl - (now - e.stored_at)
<1>1. /\ e.stored_at \in Nat /\ e.ttl \in Nat /\ e.stored_at <= now
      /\ e.stored_at = e.response.src.born
      /\ e.ttl = Lifetime(e.response.src)
  BY DEF Entry, Genuine
<1>2. d \in Nat /\ now - e.stored_at < e.ttl
  BY <1>1 DEF Expired
<1>3. (d \div TicksPerSec) % U32 \in Nat /\ ((d \div TicksPerSec) % U32) * TicksPerSec <= d
  BY <1>2, SecondsAtMost
<1>4. Remaining(e) \in Nat /\ Remaining(e) * TicksPerSec <= d
  BY <1>3 DEF Remaining
<1>5. Remaining(e) * TicksPerSec \in Nat
  BY <1>4, CacheAssumption
<1> HIDE DEF d
<1>6. d = e.ttl - (now - e.stored_at)
  BY DEF d
<1>7. QED
  BY <1>1, <1>2, <1>4, <1>5, <1>6

\* Nothing is cached, pending or returned initially.
LEMMA InitInvariant == Init => IInv
<1> SUFFICES ASSUME Init PROVE IInv
  OBVIOUS
<1>1. TypeOK
  BY DEF Init, TypeOK, Result
<1>2. EntriesAreGenuine
  BY DEF Init, EntriesAreGenuine, Stored
<1>3. HitIsFresh /\ AnswersOwnQuery
  BY DEF Init, HitIsFresh, AnswersOwnQuery, Result
<1>4. QED
  BY <1>1, <1>2, <1>3 DEF IInv

\* A step that returns nothing new, and changes no query that has returned
\* something, keeps what was returned.
LEMMA OutUnchanged ==
  ASSUME HitIsFresh, AnswersOwnQuery, UNCHANGED <<out, req>>
  PROVE  HitIsFresh' /\ AnswersOwnQuery'
  BY DEF HitIsFresh, AnswersOwnQuery, Lifetime

\* A step of task t only has to be checked for what t returns.
LEMMA OutChanged ==
  ASSUME TypeOK, HitIsFresh, AnswersOwnQuery, NEW t \in Tasks, NEW res,
         out' = [out EXCEPT ![t] = res],
         \A u \in Tasks \ {t} : req'[u] = req[u],
         res.kind = "hit" =>
           /\ res.at - res.resp.src.born < Lifetime(res.resp.src)
           /\ \A r \in cacheable_records(res.resp.recs) :
                r.ttl * TicksPerSec + (res.at - res.resp.src.born) <= Lifetime(res.resp.src),
         res.kind = "hit" =>
           res.resp.id = req'[t].id /\ res.resp.src.key = Variant(req'[t])
  PROVE  HitIsFresh' /\ AnswersOwnQuery'
<1>1. out'[t] = res /\ \A u \in Tasks \ {t} : out'[u] = out[u]
  BY DEF TypeOK
<1>2. HitIsFresh'
  BY <1>1 DEF HitIsFresh, Lifetime
<1>3. AnswersOwnQuery'
  BY <1>1 DEF AnswersOwnQuery
<1>4. QED
  BY <1>2, <1>3

\* A new query replaces the one task t had finished.
LEMMA ArriveInvariant ==
  ASSUME IInv, NEW t \in Tasks, NEW r \in Requests, Arrive(t, r)
  PROVE  IInv'
<1> USE DEF IInv
<1>1. TypeOK'
  BY DEF Arrive, TypeOK, Result
<1>2. EntriesAreGenuine'
  BY SMTT(30) DEF Arrive, TypeOK, EntriesAreGenuine, Genuine, Stored
<1>3. HitIsFresh' /\ AnswersOwnQuery'
  <2> DEFINE res == Result("none", <<>>)
  <2>1. /\ out' = [out EXCEPT ![t] = res]
        /\ \A u \in Tasks \ {t} : req'[u] = req[u]
    BY DEF Arrive, TypeOK
  <2>2. res.kind = "none"
    BY DEF Result
  <2> HIDE DEF res
  <2>3. QED
    BY <2>1, <2>2, OutChanged, ZenonT(30)
<1>4. QED
  BY <1>1, <1>2, <1>3

\* A lookup that finds nothing changes only where the task is.
LEMMA GetMissInvariant ==
  ASSUME IInv, NEW t \in Tasks, GetMiss(t)
  PROVE  IInv'
<1> USE DEF IInv
<1>1. TypeOK'
  BY DEF GetMiss, TypeOK
<1>2. EntriesAreGenuine'
  BY SMTT(30) DEF GetMiss, TypeOK, EntriesAreGenuine, Genuine, Stored
<1>3. HitIsFresh' /\ AnswersOwnQuery'
  BY OutUnchanged DEF GetMiss
<1>4. QED
  BY <1>1, <1>2, <1>3

\* A lookup that finds an expired entry only removes it.
LEMMA GetExpiredInvariant ==
  ASSUME IInv, NEW t \in Tasks, GetExpired(t)
  PROVE  IInv'
<1> USE DEF IInv
<1> DEFINE k == cache_key(req[t])
<1>0. k \in Keys
  BY KeyType DEF TypeOK
<1>1. entries' = [entries EXCEPT ![k] = NoEntry] /\ lru' = Without(lru, k)
  BY DEF GetExpired, LruPop
<1>2. TypeOK'
  <2>1. lru' \in Seq(Keys)
    BY <1>1, WithoutType DEF TypeOK
  <2>2. QED
    BY <1>1, <2>1, ZenonT(30) DEF GetExpired, TypeOK
<1>3. EntriesAreGenuine'
  BY <1>0, <1>1, ZenonT(30) DEF GetExpired, TypeOK, EntriesAreGenuine, Genuine, Stored
<1>4. HitIsFresh' /\ AnswersOwnQuery'
  BY OutUnchanged DEF GetExpired
<1>5. QED
  BY <1>2, <1>3, <1>4

\* A fresh hit returns a genuine entry within its lifetime.
LEMMA GetHitInvariant ==
  ASSUME IInv, NEW t \in Tasks, GetHit(t)
  PROVE  IInv'
<1> USE DEF IInv
<1> DEFINE k == cache_key(req[t])
           e == entries[k]
           recs == all_records_mut(e.response.recs, Remaining(e))
           resp == [id |-> req[t].id, src |-> e.response.src, recs |-> recs]
           res == Result("hit", resp)
<1>1. k \in Keys /\ k \in Stored /\ k = Variant(req[t]) /\ req[t] \in Requests
  BY KeyType, SMTT(30) DEF TypeOK, GetHit
<1>2. e \in Entry /\ Genuine(e, k) /\ ~Expired(e) /\ now \in Nat
  BY <1>1, SMTT(30) DEF TypeOK, EntriesAreGenuine, Stored, GetHit
<1>3. /\ Remaining(e) \in Nat
      /\ now - e.response.src.born < Lifetime(e.response.src)
      /\ Remaining(e) * TicksPerSec + (now - e.response.src.born) <= Lifetime(e.response.src)
  BY <1>2, HitProperty
<1>4. e.response.recs \in SUBSET Rec
  BY <1>2 DEF Entry, Response
<1>5. recs \in SUBSET Rec /\ \A r \in cacheable_records(recs) : r.ttl = Remaining(e)
  BY <1>3, <1>4, RewrittenType, ZenonT(30)
<1>6. /\ lru' = LruPromote(k)
      /\ pc' = [pc EXCEPT ![t] = "done"]
      /\ out' = [out EXCEPT ![t] = res]
      /\ UNCHANGED <<now, entries, req, pending>>
  BY DEF GetHit, Finish
<1>7. req[t].id \in Nat /\ e.response.src \in [key : CacheKey, recs : SUBSET Rec, born : Nat]
  BY <1>1, <1>2, CacheAssumption DEF Request, Entry, Response
<1>8. TypeOK'
  <2>1. lru' \in Seq(Keys)
    BY <1>1, <1>6, LruPromoteType, SMTT(30) DEF TypeOK
  <2> HIDE DEF recs
  <2>2. resp \in Response
    BY <1>5, <1>7, SMTT(30) DEF Response
  <2> HIDE DEF resp
  <2>3. res \in [kind : {"hit", "forwarded"}, resp : Response, at : Nat]
    BY <2>2, <1>2 DEF Result
  <2> HIDE DEF res
  <2>4. QED
    BY <1>6, <2>1, <2>3 DEF TypeOK
<1>9. EntriesAreGenuine'
  BY <1>6, SMTT(30) DEF TypeOK, EntriesAreGenuine, Genuine, Stored
<1>10. HitIsFresh' /\ AnswersOwnQuery'
  <2>1. /\ res.resp.src = e.response.src /\ res.resp.recs = recs /\ res.at = now
        /\ res.resp.id = req[t].id
    BY SMTT(30) DEF Result
  <2>2. e.response.src.key = Variant(req[t])
    BY <1>1, <1>2, SMTT(30) DEF Genuine
  <2> HIDE DEF res, recs, e, k
  <2>3. QED
    BY <1>3, <1>5, <1>6, <2>1, <2>2, OutChanged, ZenonT(30)
<1>11. QED
  BY <1>8, <1>9, <1>10

\* An answer is stamped with its arrival and given its own lifetime.
LEMMA HandlerOkInvariant ==
  ASSUME IInv, NEW t \in Tasks, NEW m \in Answers, HandlerOk(t, m)
  PROVE  IInv'
<1> USE DEF IInv
<1> DEFINE src == [key |-> Variant(req[t]), recs |-> m.recs, born |-> now]
           resp == [id |-> m.id, recs |-> m.recs, src |-> src]
           e == [response |-> resp, stored_at |-> now, ttl |-> response_ttl(m.recs)]
           res == Result("forwarded", resp)
<1>1. req[t] \in Requests /\ Variant(req[t]) \in CacheKey
  BY KeyType, CacheAssumption, SMTT(30) DEF TypeOK, Request
<1>2. m.id \in Nat /\ m.recs \in SUBSET Rec /\ now \in Nat
  BY CacheAssumption DEF TypeOK
<1>3. src \in [key : CacheKey, recs : SUBSET Rec, born : Nat]
  BY <1>1, <1>2
<1>4. resp \in Response
  <2> HIDE DEF src
  <2> QED BY <1>1, <1>2, <1>3 DEF Response
<1>5. UNCHANGED <<now, entries, lru, req>>
  BY SMTT(30) DEF HandlerOk
<1>6. CASE pc[t] = "forward" /\ cacheable_records(m.recs) # {}
  <2>1. /\ pending' = [pending EXCEPT ![t] = e]
        /\ pc' = [pc EXCEPT ![t] = "insert"]
        /\ out' = out
    BY <1>6, SMTT(30) DEF HandlerOk
  <2>2. e \in Entry
    <3>1. response_ttl(m.recs) \in Nat
      BY <1>2, <1>6, ResponseTtlType
    <3> HIDE DEF resp
    <3> QED BY <1>2, <1>4, <3>1 DEF Entry
  <2>3. e # NoEntry
    BY SMTT(30) DEF NoEntry
  <2>4. Genuine(e, Variant(req[t]))
    BY <1>2, <1>6, SMTT(30) DEF Genuine, Lifetime
  <2> HIDE DEF e
  <2>5. TypeOK'
    BY <1>5, <2>1, <2>2, SMTT(30) DEF TypeOK
  <2>6. EntriesAreGenuine'
    BY <1>5, <2>1, <2>3, <2>4, ZenonT(30) DEF TypeOK, EntriesAreGenuine, Genuine, Stored
  <2>7. HitIsFresh' /\ AnswersOwnQuery'
    BY <1>5, <2>1, OutUnchanged, SMTT(30)
  <2>8. QED
    BY <2>5, <2>6, <2>7
<1>7. CASE ~(pc[t] = "forward" /\ cacheable_records(m.recs) # {})
  <2>1. /\ pc' = [pc EXCEPT ![t] = "done"]
        /\ out' = [out EXCEPT ![t] = res]
        /\ pending' = pending
    BY <1>7, SMTT(30) DEF HandlerOk, Finish
  <2>2. res \in [kind : {"hit", "forwarded"}, resp : Response, at : Nat]
    <3> HIDE DEF resp
    <3> QED BY <1>2, <1>4 DEF Result
  <2>3. res.kind = "forwarded"
    BY DEF Result
  <2> HIDE DEF res
  <2>4. TypeOK'
    BY <1>5, <2>1, <2>2 DEF TypeOK
  <2>5. EntriesAreGenuine'
    BY <1>5, <2>1, SMTT(30) DEF TypeOK, EntriesAreGenuine, Genuine, Stored
  <2>6. HitIsFresh' /\ AnswersOwnQuery'
    BY <1>5, <2>1, <2>3, OutChanged, ZenonT(30)
  <2>7. QED
    BY <2>4, <2>5, <2>6
<1>8. QED
  BY <1>6, <1>7

\* A failed query returns an error and stores nothing.
LEMMA HandlerErrInvariant ==
  ASSUME IInv, NEW t \in Tasks, HandlerErr(t)
  PROVE  IInv'
<1> USE DEF IInv
<1> DEFINE res == Result("error", <<>>)
<1>1. /\ pc' = [pc EXCEPT ![t] = "done"]
      /\ out' = [out EXCEPT ![t] = res]
      /\ UNCHANGED <<now, entries, lru, req, pending>>
  BY DEF HandlerErr, Finish
<1>2. res.kind = "error" /\ res \in [kind : {"none", "error"}, resp : {<<>>}, at : Nat]
  BY SMTT(30) DEF Result, TypeOK
<1> HIDE DEF res
<1>3. TypeOK'
  BY <1>1, <1>2, SMTT(30) DEF TypeOK
<1>4. EntriesAreGenuine'
  BY <1>1, SMTT(30) DEF TypeOK, EntriesAreGenuine, Genuine, Stored
<1>5. HitIsFresh' /\ AnswersOwnQuery'
  BY <1>1, <1>2, OutChanged, ZenonT(30)
<1>6. QED
  BY <1>3, <1>4, <1>5

\* Filing an entry under a key touches only that key and an evicted one.
LEMMA LruPutType ==
  ASSUME TypeOK, NEW k \in Keys, NEW e \in Entry, LruPut(k, e)
  PROVE  /\ entries' \in [Keys -> Entry \cup {NoEntry}]
         /\ lru' \in Seq(Keys)
         /\ \A j \in Keys : entries'[j] = (IF j = k THEN e ELSE entries[j])
                            \/ (j # k /\ entries'[j] = NoEntry)
<1>1. CASE k \in Stored \/ Len(lru) < Size
  <2>1. entries' = [entries EXCEPT ![k] = e] /\ lru' = LruPromote(k)
    BY <1>1 DEF LruPut
  <2>2. QED
    BY <2>1, LruPromoteType, ZenonT(30) DEF TypeOK
<1>2. CASE ~(k \in Stored \/ Len(lru) < Size)
  <2>1. /\ entries' = [entries EXCEPT ![Head(lru)] = NoEntry, ![k] = e]
        /\ lru' = Append(Tail(lru), k)
    BY <1>2 DEF LruPut
  <2>2. lru \in Seq(Keys) /\ lru # <<>>
    BY <1>2, CacheAssumption DEF TypeOK
  <2>3. Head(lru) \in Keys /\ Tail(lru) \in Seq(Keys)
    BY <2>2
  <2>4. lru' \in Seq(Keys)
    BY <2>1, <2>3, AppendProperties
  <2>5. QED
    BY <2>1, <2>3, <2>4 DEF TypeOK
<1>3. QED
  BY <1>1, <1>2

\* Obtaining the lock in `insert` files a genuine entry under its own key.
LEMMA PutInvariant ==
  ASSUME IInv, NEW t \in Tasks, Put(t)
  PROVE  IInv'
<1> USE DEF IInv
<1> DEFINE k == cache_key(req[t])
           e == pending[t]
           res == Result("forwarded", e.response)
<1>1. k \in Keys /\ k = Variant(req[t])
  BY KeyType, SMTT(30) DEF TypeOK
<1>2. e \in Entry /\ Genuine(e, k) /\ now \in Nat
  BY <1>1, SMTT(30) DEF Put, TypeOK, EntriesAreGenuine
<1>3. /\ LruPut(k, e)
      /\ pending' = [pending EXCEPT ![t] = NoEntry]
      /\ pc' = [pc EXCEPT ![t] = "done"]
      /\ out' = [out EXCEPT ![t] = res]
      /\ UNCHANGED <<now, req>>
  BY DEF Put, Finish
<1>4. /\ res \in [kind : {"hit", "forwarded"}, resp : Response, at : Nat]
      /\ res.kind = "forwarded"
  BY <1>1, <1>2, SMTT(30) DEF Result, Entry, Genuine
<1>5. /\ entries' \in [Keys -> Entry \cup {NoEntry}]
      /\ lru' \in Seq(Keys)
      /\ \A j \in Keys : entries'[j] = (IF j = k THEN e ELSE entries[j])
                         \/ (j # k /\ entries'[j] = NoEntry)
  BY <1>1, <1>2, <1>3, LruPutType, SMTT(30)
<1> HIDE DEF res, k, e
<1>6. TypeOK'
  BY <1>3, <1>4, <1>5, ZenonT(30) DEF TypeOK
<1>7. EntriesAreGenuine'
  <2>1. ASSUME NEW j \in Keys, entries'[j] # NoEntry
        PROVE  Genuine(entries[j], j)'
    <3>1. CASE j = k
      BY <1>2, <1>3, <1>5, <3>1, ZenonT(30) DEF Genuine, Lifetime
    <3>2. CASE j # k
      <4>1. entries'[j] = entries[j] /\ j \in Stored
        BY <1>5, <2>1, <3>2 DEF Stored
      <4>2. Genuine(entries[j], j)
        BY <4>1 DEF EntriesAreGenuine
      <4>3. QED
        BY <1>3, <4>1, <4>2, ZenonT(30) DEF Genuine, Lifetime
    <3>3. QED
      BY <3>1, <3>2
  <2>2. ASSUME NEW u \in Tasks, pc'[u] = "insert"
        PROVE  (/\ pending[u] # NoEntry
                /\ Genuine(pending[u], Variant(req[u])))'
    <3>1. u # t /\ pc[u] = "insert" /\ pending'[u] = pending[u]
      BY <1>3, <2>2, ZenonT(30) DEF TypeOK
    <3>2. QED
      BY <1>3, <3>1, SMTT(30) DEF EntriesAreGenuine, Genuine, Lifetime
  <2>3. QED
    BY <2>1, <2>2 DEF EntriesAreGenuine, Stored
<1>8. HitIsFresh' /\ AnswersOwnQuery'
  BY <1>3, <1>4, OutChanged, ZenonT(30)
<1>9. QED
  BY <1>6, <1>7, <1>8

\* Time passing never dates an entry in the future.
LEMMA TickInvariant ==
  ASSUME IInv, Tick
  PROVE  IInv'
<1> USE DEF IInv
<1>1. TypeOK'
  BY SMTT(30) DEF Tick, TypeOK
<1>2. EntriesAreGenuine'
  <2>1. /\ now \in Nat /\ now' = now + 1
        /\ UNCHANGED <<entries, lru, pc, req, pending, out>>
    BY DEF Tick, TypeOK
  <2>2. (\A k \in Stored : Genuine(entries[k], k))'
    BY <2>1, SMTT(30) DEF TypeOK, EntriesAreGenuine, Stored, Genuine, Entry, Lifetime
  <2>3. (\A t \in Tasks : pc[t] = "insert" =>
          /\ pending[t] # NoEntry
          /\ Genuine(pending[t], Variant(req[t])))'
    BY <2>1, SMTT(30) DEF TypeOK, EntriesAreGenuine, Genuine, Entry, Lifetime
  <2>4. QED
    BY <2>2, <2>3 DEF EntriesAreGenuine
<1>3. HitIsFresh' /\ AnswersOwnQuery'
  BY OutUnchanged DEF Tick
<1>4. QED
  BY <1>1, <1>2, <1>3

\* Every step of the cached handler preserves the inductive invariant.
LEMMA NextInvariant == IInv /\ [Next]_vars => IInv'
<1> SUFFICES ASSUME IInv, [Next]_vars PROVE IInv'
  OBVIOUS
<1>1. CASE Tick
  BY <1>1, TickInvariant
<1>2. ASSUME NEW t \in Tasks, TaskStep(t) PROVE IInv'
  BY <1>2, ArriveInvariant, GetMissInvariant, GetExpiredInvariant, GetHitInvariant,
     HandlerOkInvariant, HandlerErrInvariant, PutInvariant DEF TaskStep
<1>3. CASE UNCHANGED vars
  <2>1. TypeOK' /\ EntriesAreGenuine'
    BY <1>3, ZenonT(30) DEF vars, IInv, TypeOK, EntriesAreGenuine, Genuine, Stored, Lifetime
  <2>2. HitIsFresh' /\ AnswersOwnQuery'
    BY <1>3, OutUnchanged DEF vars, IInv
  <2>3. QED
    BY <2>1, <2>2, ZenonT(30) DEF IInv
<1>4. QED
  BY <1>1, <1>2, <1>3 DEF Next

\* The variables keep their types: in particular the remaining TTL `get`
\* computes never underflows.
THEOREM TypeCorrect == Spec => []TypeOK
<1>1. IInv => TypeOK
  BY DEF IInv
<1>2. QED
  BY <1>1, InitInvariant, NextInvariant, PTL DEF Spec

\* Stored and pending responses are genuine upstream messages, filed under
\* the query they answered and dated by their arrival.
THEOREM EntriesStayGenuine == Spec => []EntriesAreGenuine
<1>1. IInv => EntriesAreGenuine
  BY DEF IInv
<1>2. QED
  BY <1>1, InitInvariant, NextInvariant, PTL DEF Spec

\* A hit is served, and advertised, strictly within the clamped lifetime of
\* the upstream message it copies.
THEOREM HitsAreFresh == Spec => []HitIsFresh
<1>1. IInv => HitIsFresh
  BY DEF IInv
<1>2. QED
  BY <1>1, InitInvariant, NextInvariant, PTL DEF Spec

\* Every hit has the id of its own query and copies a message fetched for its
\* question, DO and CD bits.
THEOREM AnswersMatchQueries == Spec => []AnswersOwnQuery
<1>1. IInv => AnswersOwnQuery
  BY DEF IInv
<1>2. QED
  BY <1>1, InitInvariant, NextInvariant, PTL DEF Spec

\* When the floor is not above the ceiling, stored TTLs lie between the two.
THEOREM StoredTtlsAreClamped ==
  ASSUME MaxTtl # Unbounded => MinTtl <= MaxTtl
  PROVE  Spec => []StoredTtlClamped
<1>1. IInv => StoredTtlClamped
  <2> SUFFICES ASSUME IInv, NEW k \in Stored
               PROVE  /\ entries[k].ttl >= MinTtl * TicksPerSec
                      /\ MaxTtl # Unbounded => entries[k].ttl <= MaxTtl * TicksPerSec
    BY SMTT(30) DEF StoredTtlClamped
  <2> DEFINE recs == entries[k].response.src.recs
             secs == LeastTtl(cacheable_records(recs))
  <2>1. entries[k] \in Entry /\ Genuine(entries[k], k)
    BY SMTT(30) DEF IInv, TypeOK, EntriesAreGenuine, Stored
  <2>2. cacheable_records(recs) # {} /\ cacheable_records(recs) \in SUBSET Rec
    BY <2>1, SMTT(30) DEF Genuine, Entry, Response, cacheable_records
  <2>3. secs \in Nat
    BY <2>2, LeastTtlProperty
  <2>4. entries[k].ttl = TicksPerSec * Clamped(secs)
    BY <2>1, SMTT(30) DEF Genuine, Lifetime, response_ttl
  <2> HIDE DEF secs
  <2>5. /\ Clamped(secs) \in Nat /\ Clamped(secs) >= MinTtl
        /\ MaxTtl # Unbounded => MaxTtl \in Nat /\ Clamped(secs) <= MaxTtl
    BY <2>3, CacheAssumption DEF Clamped
  <2>6. QED
    BY <2>4, <2>5, CacheAssumption, Z3, ZenonT(30)
<1>2. QED
  BY <1>1, InitInvariant, NextInvariant, PTL DEF Spec

----------------------------------------------------------------------------
(* The LRU map *)

Elements(s) == { s[i] : i \in 1..Len(s) }

Distinct(s) == \A i, j \in 1..Len(s) : s[i] = s[j] => i = j

\* Detaching a key from a list without repetitions removes just that key.
LEMMA WithoutElements ==
  ASSUME NEW S, NEW s \in Seq(S), NEW k \in Elements(s), Distinct(s)
  PROVE  /\ Len(Without(s, k)) = Len(s) - 1
         /\ Elements(Without(s, k)) = Elements(s) \ {k}
         /\ Distinct(Without(s, k))
<1> DEFINE n == Len(s)
           i == CHOOSE i \in 1..n : s[i] = k
           w == [j \in 1..(n - 1) |-> IF j < i THEN s[j] ELSE s[j + 1]]
<1>1. \E j \in 1..n : s[j] = k
  BY SMTT(30) DEF Elements
<1>2. i \in 1..n /\ s[i] = k /\ n \in Nat
  BY <1>1
<1>3. Without(s, k) = w
  BY <1>1 DEF Without
<1>4. w \in Seq(S) /\ Len(w) = n - 1
  <2>1. Without(s, k) \in Seq(S)
    BY WithoutType
  <2>2. DOMAIN w = 1..(n - 1) /\ n - 1 \in Nat
    BY <1>2
  <2>3. w \in Seq(S)
    BY <1>3, <2>1
  <2> HIDE DEF w
  <2>4. QED
    BY <2>2, <2>3, LenProperties
<1> HIDE DEF i
<1>5. Elements(w) = Elements(s) \ {k}
  <2>1. ASSUME NEW j \in 1..(n - 1) PROVE w[j] \in Elements(s) \ {k}
    <3>1. CASE j < i
      BY <1>2, <3>1 DEF Elements, Distinct
    <3>2. CASE ~(j < i)
      <4>1. j + 1 \in 1..n /\ w[j] = s[j + 1] /\ j + 1 # i
        BY <1>2, <3>2
      <4>2. QED
        BY <1>2, <4>1, SMTT(30) DEF Elements, Distinct
    <3>3. QED
      BY <3>1, <3>2
  <2>2. ASSUME NEW m \in 1..n, s[m] # k PROVE \E j \in 1..(n - 1) : w[j] = s[m]
    <3>1. CASE m < i
      <4>1. m \in 1..(n - 1) /\ w[m] = s[m]
        BY <1>2, <3>1
      <4>2. QED
        BY <4>1
    <3>2. CASE ~(m < i)
      <4>1. m # i
        BY <1>2, <2>2
      <4>2. m - 1 \in 1..(n - 1) /\ w[m - 1] = s[m]
        BY <1>2, <3>2, <4>1
      <4>3. QED
        BY <4>2
    <3>3. QED
      BY <3>1, <3>2
  <2> HIDE DEF w
  <2>3. QED
    BY <1>4, <2>1, <2>2, SMTT(30) DEF Elements
<1>6. Distinct(w)
  <2>1. \A a, b \in 1..(n - 1) : w[a] = w[b] => a = b
    BY <1>2, SMTT(30) DEF Distinct
  <2> HIDE DEF w
  <2>2. QED
    BY <1>4, <2>1 DEF Distinct
<1>7. QED
  BY <1>3, <1>4, <1>5, <1>6

\* Appending a key that is not in the list adds just that key.
LEMMA AppendElements ==
  ASSUME NEW S, NEW s \in Seq(S), NEW k \in S, k \notin Elements(s), Distinct(s)
  PROVE  /\ Len(Append(s, k)) = Len(s) + 1
         /\ Elements(Append(s, k)) = Elements(s) \cup {k}
         /\ Distinct(Append(s, k))
<1>1. /\ Len(Append(s, k)) = Len(s) + 1 /\ Len(s) \in Nat
      /\ Append(s, k)[Len(s) + 1] = k
      /\ \A i \in 1..Len(s) : Append(s, k)[i] = s[i]
  BY AppendProperties
<1>2. Elements(Append(s, k)) = Elements(s) \cup {k}
  BY <1>1 DEF Elements
<1>3. Distinct(Append(s, k))
  BY <1>1 DEF Distinct, Elements
<1>4. QED
  BY <1>1, <1>2, <1>3

\* Using a key keeps the other keys, puts this one last, and lengthens the
\* list only if the key is new.
LEMMA PromoteElements ==
  ASSUME lru \in Seq(Keys), Distinct(lru), NEW k \in Keys
  PROVE  /\ Len(LruPromote(k)) = IF k \in Elements(lru) THEN Len(lru) ELSE Len(lru) + 1
         /\ Elements(LruPromote(k)) = Elements(lru) \cup {k}
         /\ Distinct(LruPromote(k))
<1> DEFINE w == Without(lru, k)
<1>0. Len(lru) \in Nat
  OBVIOUS
<1>1. CASE k \in Elements(lru)
  <2>1. Len(w) = Len(lru) - 1 /\ Elements(w) = Elements(lru) \ {k} /\ Distinct(w)
    BY <1>1, WithoutElements, SMTT(30)
  <2>2. w \in Seq(Keys)
    BY WithoutType
  <2> HIDE DEF w
  <2>3. /\ Len(Append(w, k)) = Len(w) + 1
        /\ Elements(Append(w, k)) = Elements(w) \cup {k}
        /\ Distinct(Append(w, k))
    BY <2>1, <2>2, AppendElements
  <2>4. LruPromote(k) = Append(w, k)
    BY DEF LruPromote, w
  <2>5. QED
    BY <1>0, <1>1, <2>1, <2>3, <2>4
<1>2. CASE k \notin Elements(lru)
  <2>1. Without(lru, k) = lru
    BY <1>2 DEF Without, Elements
  <2>2. QED
    BY <1>2, <2>1, AppendElements DEF LruPromote
<1>3. QED
  BY <1>1, <1>2

\* Dropping the first key of the list removes just that key.
LEMMA TailElements ==
  ASSUME NEW S, NEW s \in Seq(S), s # <<>>, Distinct(s)
  PROVE  /\ Len(Tail(s)) = Len(s) - 1 /\ Tail(s) \in Seq(S)
         /\ Elements(Tail(s)) = Elements(s) \ {Head(s)}
         /\ Distinct(Tail(s))
<1>1. /\ Len(s) \in Nat \ {0} /\ Len(Tail(s)) = Len(s) - 1 /\ Tail(s) \in Seq(S)
      /\ Head(s) = s[1]
      /\ \A i \in 1..(Len(s) - 1) : Tail(s)[i] = s[i + 1]
  BY HeadTailProperties, EmptySeq
<1>2. \A m \in 2..Len(s) : m - 1 \in 1..(Len(s) - 1) /\ Tail(s)[m - 1] = s[m]
  BY <1>1
<1>3. Elements(Tail(s)) = Elements(s) \ {Head(s)}
  <2>1. ASSUME NEW i \in 1..(Len(s) - 1) PROVE Tail(s)[i] \in Elements(s) \ {Head(s)}
    <3>1. i + 1 \in 1..Len(s) /\ i + 1 # 1 /\ 1 \in 1..Len(s)
      BY <1>1
    <3>2. QED
      BY <1>1, <3>1 DEF Elements, Distinct
  <2>2. ASSUME NEW m \in 1..Len(s), s[m] # Head(s)
        PROVE  \E i \in 1..(Len(s) - 1) : Tail(s)[i] = s[m]
    <3>1. m \in 2..Len(s)
      BY <1>1, <2>2
    <3>2. QED
      BY <1>2, <3>1
  <2>3. Elements(Tail(s)) \subseteq Elements(s) \ {Head(s)}
    <3>1. SUFFICES ASSUME NEW x \in Elements(Tail(s)) PROVE x \in Elements(s) \ {Head(s)}
      OBVIOUS
    <3>2. PICK i \in 1..(Len(s) - 1) : x = Tail(s)[i]
      BY <1>1 DEF Elements
    <3>3. QED
      BY <2>1, <3>2
  <2>4. Elements(s) \ {Head(s)} \subseteq Elements(Tail(s))
    <3>1. SUFFICES ASSUME NEW x \in Elements(s), x # Head(s) PROVE x \in Elements(Tail(s))
      OBVIOUS
    <3>2. PICK m \in 1..Len(s) : x = s[m]
      BY DEF Elements
    <3>3. PICK i \in 1..(Len(s) - 1) : Tail(s)[i] = x
      BY <2>2, <3>1, <3>2
    <3>4. QED
      BY <1>1, <3>3, ZenonT(30) DEF Elements
  <2>5. QED
    BY <2>3, <2>4, Zenon
<1>4. Distinct(Tail(s))
  <2>1. \A i \in 1..(Len(s) - 1) : i + 1 \in 1..Len(s)
    BY <1>1
  <2>2. QED
    BY <1>1, <2>1, SMTT(30) DEF Distinct
<1>5. QED
  BY <1>1, <1>3, <1>4

\* The recency list is the stored keys, without repetition.
LEMMA ListFacts ==
  ASSUME TypeOK, LruConsistent
  PROVE  /\ lru \in Seq(Keys) /\ Distinct(lru) /\ Elements(lru) = Stored
         /\ Len(lru) <= Size /\ Len(lru) \in Nat /\ Size \in Nat \ {0}
BY CacheAssumption, SMTT(30) DEF TypeOK, LruConsistent, Distinct, Elements

\* `put` replaces, adds, or evicts the least recently used key and adds.
LEMMA LruPutConsistent ==
  ASSUME TypeOK, LruConsistent, NEW k \in Keys, NEW e \in Entry, e # NoEntry, LruPut(k, e)
  PROVE  LruConsistent'
<1>1. /\ lru \in Seq(Keys) /\ Distinct(lru) /\ Elements(lru) = Stored
      /\ Len(lru) <= Size /\ Len(lru) \in Nat /\ Size \in Nat \ {0}
  BY ListFacts
<1>2. CASE k \in Stored \/ Len(lru) < Size
  <2>1. entries' = [entries EXCEPT ![k] = e] /\ lru' = LruPromote(k)
    BY <1>2 DEF LruPut
  <2>2. Stored' = Stored \cup {k}
    BY <2>1, SMTT(30) DEF Stored, TypeOK
  <2>3. /\ Len(lru') = IF k \in Stored THEN Len(lru) ELSE Len(lru) + 1
        /\ Elements(lru') = Stored \cup {k}
        /\ Distinct(lru')
    BY <1>1, <2>1, PromoteElements, SMTT(30)
  <2>4. Len(lru') <= Size
    BY <1>1, <1>2, <2>3, SMTT(30)
  <2>5. QED
    BY <2>2, <2>3, <2>4, SMTT(30) DEF LruConsistent, Elements, Distinct
<1>3. CASE ~(k \in Stored \/ Len(lru) < Size)
  <2> DEFINE h == Head(lru)
             tl == Tail(lru)
  <2>1. entries' = [entries EXCEPT ![h] = NoEntry, ![k] = e] /\ lru' = Append(tl, k)
    BY <1>3, SMTT(30) DEF LruPut
  <2>2. lru # <<>> /\ Len(lru) = Size
    BY <1>1, <1>3
  <2>3. h \in Keys /\ h # k /\ h \in Stored
    <3>1. h = lru[1] /\ 1 \in 1..Len(lru)
      BY <1>1, <2>2
    <3>2. h \in Elements(lru)
      BY <3>1 DEF Elements
    <3>3. QED
      BY <1>1, <1>3, <3>2 DEF Stored
  <2>4. /\ Len(tl) = Len(lru) - 1 /\ tl \in Seq(Keys)
        /\ Elements(tl) = Stored \ {h} /\ Distinct(tl)
    BY <1>1, <2>2, TailElements
  <2> HIDE DEF h, tl
  <2>5. Stored' = (Stored \ {h}) \cup {k}
    BY <2>1, <2>3, SMTT(30) DEF Stored, TypeOK
  <2>6. /\ Len(lru') = Len(tl) + 1 /\ Elements(lru') = Elements(tl) \cup {k}
        /\ Distinct(lru')
    BY <1>3, <2>1, <2>4, AppendElements, SMTT(30)
  <2>7. Len(lru') <= Size
    BY <1>1, <2>2, <2>4, <2>6, SMTT(30)
  <2>8. QED
    BY <2>4, <2>5, <2>6, <2>7, ZenonT(30) DEF LruConsistent, Elements, Distinct
<1>4. QED
  BY <1>2, <1>3

\* Every step of the cache leaves map and recency list in agreement.
LEMMA LruStep == IInv /\ LruConsistent /\ [Next]_vars => LruConsistent'
<1> SUFFICES ASSUME IInv, LruConsistent, [Next]_vars PROVE LruConsistent'
  OBVIOUS
<1>0. /\ lru \in Seq(Keys) /\ Distinct(lru) /\ Elements(lru) = Stored
      /\ Len(lru) <= Size /\ Len(lru) \in Nat /\ Size \in Nat
  BY ListFacts DEF IInv
<1>1. CASE UNCHANGED <<entries, lru>>
  BY <1>1, SMTT(30) DEF LruConsistent, Stored
<1>2. ASSUME NEW t \in Tasks, GetExpired(t) PROVE LruConsistent'
  <2> DEFINE k == cache_key(req[t])
  <2>1. k \in Stored /\ entries' = [entries EXCEPT ![k] = NoEntry] /\ lru' = Without(lru, k)
    BY <1>2, SMTT(30) DEF GetExpired, LruPop
  <2> HIDE DEF k
  <2>2. Stored' = Stored \ {k}
    BY <2>1, SMTT(30) DEF Stored, IInv, TypeOK
  <2>3. /\ Len(lru') = Len(lru) - 1 /\ Elements(lru') = Stored \ {k} /\ Distinct(lru')
    BY <1>0, <2>1, WithoutElements, SMTT(30)
  <2>4. QED
    BY <1>0, <2>2, <2>3, SMTT(30) DEF LruConsistent, Elements, Distinct
<1>3. ASSUME NEW t \in Tasks, GetHit(t) PROVE LruConsistent'
  <2> DEFINE k == cache_key(req[t])
  <2>1. k \in Stored /\ k \in Keys /\ entries' = entries /\ lru' = LruPromote(k)
    BY <1>3, ZenonT(30) DEF GetHit, Stored
  <2> HIDE DEF k
  <2>2. /\ Len(lru') = Len(lru) /\ Elements(lru') = Stored /\ Distinct(lru')
    BY <1>0, <2>1, PromoteElements, ZenonT(30)
  <2>3. QED
    BY <1>0, <2>1, <2>2, ZenonT(30) DEF LruConsistent, Elements, Distinct, Stored
<1>4. ASSUME NEW t \in Tasks, Put(t) PROVE LruConsistent'
  <2>1. LruPut(cache_key(req[t]), pending[t]) /\ pc[t] = "insert"
    BY <1>4, ZenonT(30) DEF Put
  <2>2. pending[t] # NoEntry /\ pending[t] \in Entry /\ cache_key(req[t]) \in Keys
    BY <2>1, KeyType, SMTT(30) DEF IInv, EntriesAreGenuine, TypeOK
  <2>3. QED
    BY <2>1, <2>2, LruPutConsistent, SMTT(30) DEF IInv
<1>5. ASSUME NEW t \in Tasks, TaskStep(t) PROVE LruConsistent'
  BY <1>1, <1>2, <1>3, <1>4, <1>5, ZenonT(30) DEF TaskStep, Arrive, GetMiss, HandlerOk, HandlerErr
<1>6. QED
  BY <1>1, <1>5 DEF Next, Tick, vars

LEMMA InitConsistent == Init => LruConsistent
BY CacheAssumption, SMTT(30) DEF Init, LruConsistent, Stored

\* The recency list always enumerates exactly the stored keys, each once, and
\* the map never holds more than Size responses.
THEOREM LruStaysConsistent == Spec => []LruConsistent
BY InitConsistent, LruStep, InitInvariant, NextInvariant, PTL DEF Spec

----------------------------------------------------------------------------
(* Eviction *)

\* A list without repetitions has as many elements as places.
LEMMA Counted ==
  ASSUME NEW S, NEW s \in Seq(S), Distinct(s)
  PROVE  IsFiniteSet(Elements(s)) /\ Cardinality(Elements(s)) = Len(s)
<1>1. Len(s) \in Nat /\ s \in [1..Len(s) -> Elements(s)]
  BY DEF Elements
<1>2. /\ \A a, b \in 1..Len(s) : s[a] = s[b] => a = b
      /\ \A x \in Elements(s) : \E a \in 1..Len(s) : s[a] = x
  BY DEF Elements, Distinct
<1>3. s \in Bijection(1..Len(s), Elements(s))
  BY <1>1, <1>2, Fun_IsBij, ZenonT(30)
<1>4. ExistsBijection(1..Len(s), Elements(s))
  BY <1>3 DEF ExistsBijection
<1>5. QED
  BY <1>1, <1>4, FS_NatBijection, FS_CountingElements

\* w keeps some elements of s in the order they have there.
Keeps(w, s) ==
  \A i, j \in 1..Len(w) : i < j =>
    \E a, b \in 1..Len(s) : a < b /\ s[a] = w[i] /\ s[b] = w[j]

\* Detaching a key leaves the others in order.
LEMMA WithoutKeeps ==
  ASSUME NEW S, NEW s \in Seq(S), NEW k
  PROVE  Keeps(Without(s, k), s)
<1> DEFINE n == Len(s)
           i == CHOOSE i \in 1..n : s[i] = k
           w == [j \in 1..(n - 1) |-> IF j < i THEN s[j] ELSE s[j + 1]]
<1>0. n \in Nat
  OBVIOUS
<1>1. CASE \E j \in 1..n : s[j] = k
  <2>1. i \in 1..n /\ s[i] = k
    BY <1>1
  <2>2. Without(s, k) = w
    BY <1>1 DEF Without
  <2>3. n - 1 \in Nat /\ Without(s, k) \in Seq(S) /\ DOMAIN w = 1..(n - 1)
    BY <1>0, <2>1, WithoutType
  <2> HIDE DEF i
  <2>4. ASSUME NEW a \in 1..(n - 1), NEW b \in 1..(n - 1), a < b
        PROVE  \E c, d \in 1..n : c < d /\ s[c] = w[a] /\ s[d] = w[b]
    <3> DEFINE c == IF a < i THEN a ELSE a + 1
               d == IF b < i THEN b ELSE b + 1
    <3>1. c \in 1..n /\ d \in 1..n /\ c < d
      BY <1>0, <2>1, <2>4
    <3>2. s[c] = w[a] /\ s[d] = w[b]
      OBVIOUS
    <3> HIDE DEF c, d, w
    <3>3. QED
      BY <3>1, <3>2
  <2> HIDE DEF w
  <2>5. Len(w) = n - 1
    BY <2>2, <2>3, LenProperties
  <2>6. Keeps(w, s)
    BY <2>4, <2>5, SMTT(30) DEF Keeps
  <2>7. QED
    BY <2>2, <2>6
<1>2. CASE ~\E j \in 1..n : s[j] = k
  <2>1. Without(s, k) = s
    BY <1>2 DEF Without
  <2>2. QED
    BY <2>1 DEF Keeps
<1>3. QED
  BY <1>1, <1>2

\* Dropping the first key leaves the others in order.
LEMMA TailKeeps ==
  ASSUME NEW S, NEW s \in Seq(S), s # <<>>
  PROVE  Keeps(Tail(s), s)
<1>1. /\ Len(s) \in Nat \ {0} /\ Len(Tail(s)) = Len(s) - 1
      /\ \A i \in 1..(Len(s) - 1) : Tail(s)[i] = s[i + 1]
  BY HeadTailProperties, EmptySeq
<1>2. SUFFICES ASSUME NEW i \in 1..(Len(s) - 1), NEW j \in 1..(Len(s) - 1), i < j
               PROVE  \E a, b \in 1..Len(s) : a < b /\ s[a] = Tail(s)[i] /\ s[b] = Tail(s)[j]
  BY <1>1 DEF Keeps
<1>3. /\ i + 1 \in 1..Len(s) /\ j + 1 \in 1..Len(s) /\ i + 1 < j + 1
      /\ s[i + 1] = Tail(s)[i] /\ s[j + 1] = Tail(s)[j]
  BY <1>1, <1>2
<1>4. QED
  BY <1>3

\* The recency list agrees with the history: what stands behind a key was used
\* since that key was.
Warmer(s, h) == \A i, j \in 1..Len(s) : i < j => s[j] \in h[s[i]]

RInv ==
  /\ since \in [Keys -> SUBSET Keys]
  /\ \A k \in Keys : IsFiniteSet(since[k])
  /\ Warmer(lru, since)

\* A list that keeps the order keeps agreeing with a growing history.
LEMMA KeepsWarmer ==
  ASSUME NEW w \in Seq(Keys), NEW s \in Seq(Keys), Keeps(w, s), NEW h, NEW g, Warmer(s, h),
         \A x \in Elements(w) : h[x] \subseteq g[x]
  PROVE  Warmer(w, g)
<1>1. SUFFICES ASSUME NEW i \in 1..Len(w), NEW j \in 1..Len(w), i < j PROVE w[j] \in g[w[i]]
  BY DEF Warmer
<1>2. PICK a \in 1..Len(s), b \in 1..Len(s) : a < b /\ s[a] = w[i] /\ s[b] = w[j]
  BY <1>1 DEF Keeps
<1>3. w[j] \in h[w[i]]
  BY <1>2, ZenonT(30) DEF Warmer
<1>4. w[i] \in Elements(w)
  BY DEF Elements
<1>5. QED
  BY <1>3, <1>4

\* A key put last agrees with a history that adds it to every other key.
LEMMA AppendWarmer ==
  ASSUME NEW w \in Seq(Keys), NEW k \in Keys, NEW g, Warmer(w, g),
         \A x \in Elements(w) : k \in g[x]
  PROVE  Warmer(Append(w, k), g)
<1>1. /\ Len(Append(w, k)) = Len(w) + 1 /\ Len(w) \in Nat
      /\ Append(w, k)[Len(w) + 1] = k
      /\ \A i \in 1..Len(w) : Append(w, k)[i] = w[i]
  BY AppendProperties
<1>2. SUFFICES ASSUME NEW i \in 1..(Len(w) + 1), NEW j \in 1..(Len(w) + 1), i < j
               PROVE  Append(w, k)[j] \in g[Append(w, k)[i]]
  BY <1>1 DEF Warmer
<1>3. i \in 1..Len(w) /\ Append(w, k)[i] = w[i] /\ w[i] \in Elements(w)
  BY <1>1, <1>2 DEF Elements
<1>4. CASE j = Len(w) + 1
  BY <1>1, <1>3, <1>4
<1>5. CASE j \in 1..Len(w)
  BY <1>1, <1>2, <1>3, <1>5, ZenonT(30) DEF Warmer
<1>6. QED
  BY <1>1, <1>4, <1>5


\* A step that ends no task in `get` or `insert` uses no key.
LEMMA UsesNone ==
  ASSUME \A t \in Tasks : pc[t] \in {"get", "insert"} => pc'[t] # "done"
  PROVE  Used = {}
BY DEF Used, Touched

\* The end of one task in `get` or `insert` uses the key of its query.
LEMMA UsesOne ==
  ASSUME TypeOK, NEW t \in Tasks, pc[t] \in {"get", "insert"}, pc' = [pc EXCEPT ![t] = "done"]
  PROVE  Used = {cache_key(req[t])}
<1> DEFINE k == cache_key(req[t])
<1>1. k \in Keys
  BY KeyType DEF TypeOK
<1>2. \A u \in Tasks : (pc[u] \in {"get", "insert"} /\ pc'[u] = "done") => u = t
  BY DEF TypeOK
<1>3. pc'[t] = "done"
  BY DEF TypeOK
<1>4. \A j : Touched(j) <=> j = k
  BY <1>2, <1>3, ZenonT(30) DEF Touched
<1> HIDE DEF k
<1>5. Used = {k}
  BY <1>1, <1>4 DEF Used
<1>6. QED
  BY <1>5 DEF k

\* The history stays a finite set of keys for each key, and a stored key that
\* is not used itself gains what is.
LEMMA Remembered ==
  ASSUME RInv, Remember, IsFiniteSet(Used)
  PROVE  /\ since' \in [Keys -> SUBSET Keys]
         /\ \A k \in Keys : IsFiniteSet(since'[k])
         /\ \A k \in Keys : entries'[k] # NoEntry /\ k \notin Used => since'[k] = since[k] \cup Used
<1>1. \A k \in Keys : since'[k] =
        IF entries'[k] = NoEntry \/ Touched(k) THEN {} ELSE since[k] \cup Used
  BY DEF Remember
<1>2. Used \subseteq Keys /\ \A k \in Keys : Touched(k) <=> k \in Used
  BY DEF Used
<1>3. \A k \in Keys : IsFiniteSet(since[k] \cup Used)
  BY FS_Union, ZenonT(30) DEF RInv
<1>4. \A k \in Keys : IsFiniteSet(since'[k])
  BY <1>1, <1>3, FS_EmptySet, ZenonT(30)
<1>5. since' \in [Keys -> SUBSET Keys]
  BY <1>2, SMTT(30) DEF RInv, Remember
<1>6. QED
  BY <1>1, <1>2, <1>4, <1>5

\* Without a use, removing keys from the recency list keeps the agreement.
LEMMA QuietStep ==
  ASSUME RInv, Remember, TypeOK, TypeOK', LruConsistent', Used = {}, Keeps(lru', lru)
  PROVE  RInv'
<1>1. /\ since' \in [Keys -> SUBSET Keys]
      /\ \A k \in Keys : IsFiniteSet(since'[k])
      /\ \A k \in Keys : entries'[k] # NoEntry => since'[k] = since[k]
  BY Remembered, FS_EmptySet
<1>2. lru \in Seq(Keys) /\ lru' \in Seq(Keys) /\ Warmer(lru, since)
  BY DEF TypeOK, RInv
<1>3. \A x \in Elements(lru') : x \in Keys /\ entries'[x] # NoEntry
  BY DEF LruConsistent, Elements, Stored
<1>4. Warmer(lru', since')
  BY <1>1, <1>2, <1>3, KeepsWarmer
<1>5. QED
  BY <1>1, <1>4 DEF RInv

\* A use that puts its key last keeps the agreement.
LEMMA UseStep ==
  ASSUME RInv, Remember, TypeOK, LruConsistent', NEW k \in Keys, Used = {k},
         NEW w \in Seq(Keys), Keeps(w, lru), k \notin Elements(w), lru' = Append(w, k)
  PROVE  RInv'
<1>1. /\ since' \in [Keys -> SUBSET Keys]
      /\ \A j \in Keys : IsFiniteSet(since'[j])
      /\ \A j \in Keys : entries'[j] # NoEntry /\ j # k => since'[j] = since[j] \cup {k}
  BY Remembered, FS_Singleton, ZenonT(30)
<1>2. lru \in Seq(Keys) /\ Warmer(lru, since)
  BY SMTT(30) DEF TypeOK, RInv
<1>3. ASSUME NEW x \in Elements(w) PROVE x \in Keys /\ x # k /\ entries'[x] # NoEntry
  <2>1. PICK i \in 1..Len(w) : x = w[i]
    BY DEF Elements
  <2>2. i \in 1..Len(lru') /\ lru'[i] = x
    BY <2>1, AppendProperties
  <2>3. x \in Stored'
    BY <2>2 DEF LruConsistent
  <2>4. QED
    BY <2>3 DEF Stored
<1>4. \A x \in Elements(w) : since'[x] = since[x] \cup {k}
  BY <1>1, <1>3
<1>5. Warmer(w, since')
  <2>1. \A x \in Elements(w) : since[x] \subseteq since'[x]
    BY <1>4, ZenonT(30)
  <2>2. QED
    BY <1>2, <2>1, KeepsWarmer, ZenonT(30)
<1>6. Warmer(lru', since')
  BY <1>4, <1>5, AppendWarmer
<1>7. QED
  BY <1>1, <1>6 DEF RInv

\* Every step of the cache keeps recency list and history in agreement.
LEMMA RecencyStep ==
  ASSUME IInv, LruConsistent, RInv, Next, Remember
  PROVE  RInv'
<1>0. TypeOK /\ TypeOK' /\ LruConsistent'
  BY NextInvariant, LruStep, SMTT(30) DEF IInv
<1>1. /\ lru \in Seq(Keys) /\ Distinct(lru) /\ Elements(lru) = Stored
      /\ Size \in Nat \ {0} /\ Len(lru) \in Nat
  BY <1>0, ListFacts
<1>2. Keeps(lru, lru)
  BY DEF Keeps
<1>3. CASE Tick
  <2>1. pc' = pc /\ lru' = lru
    BY <1>3 DEF Tick
  <2>2. Used = {}
    BY <2>1, UsesNone
  <2>3. QED
    BY <1>0, <1>2, <2>1, <2>2, QuietStep
<1>4. ASSUME NEW t \in Tasks,
             \/ \E r \in Requests : Arrive(t, r)
             \/ GetMiss(t)
             \/ \E m \in Answers : HandlerOk(t, m)
             \/ HandlerErr(t)
      PROVE  RInv'
  <2>1. lru' = lru
    BY <1>4, ZenonT(30) DEF Arrive, GetMiss, HandlerOk, HandlerErr
  <2>2. \E v : pc' = [pc EXCEPT ![t] = v]
    BY <1>4, ZenonT(30) DEF Arrive, GetMiss, HandlerOk, HandlerErr, Finish
  <2>3. pc[t] \in {"done", "forward", "bypass"} \/ pc' = [pc EXCEPT ![t] = "forward"]
    BY <1>4, ZenonT(30) DEF Arrive, GetMiss, HandlerOk, HandlerErr
  <2>4. \A u \in Tasks : pc[u] \in {"get", "insert"} => pc'[u] # "done"
    BY <1>0, <2>2, <2>3, ZenonT(30) DEF TypeOK
  <2>5. Used = {}
    BY <2>4, UsesNone, ZenonT(30)
  <2>6. QED
    BY <1>0, <1>2, <2>1, <2>5, QuietStep
<1>5. ASSUME NEW t \in Tasks, GetExpired(t) PROVE RInv'
  <2>1. lru' = Without(lru, cache_key(req[t])) /\ pc' = [pc EXCEPT ![t] = "forward"]
    BY <1>5 DEF GetExpired, LruPop
  <2>2. \A u \in Tasks : pc[u] \in {"get", "insert"} => pc'[u] # "done"
    BY <1>0, <2>1, ZenonT(30) DEF TypeOK
  <2>3. Used = {}
    BY <2>2, UsesNone
  <2>4. Keeps(lru', lru)
    BY <1>1, <2>1, WithoutKeeps
  <2>5. QED
    BY <1>0, <2>3, <2>4, QuietStep
<1>6. ASSUME NEW k \in Keys, Used = {k}, lru' = LruPromote(k) PROVE RInv'
  <2> DEFINE w == Without(lru, k)
  <2>1. w \in Seq(Keys) /\ Keeps(w, lru) /\ lru' = Append(w, k)
    BY <1>1, <1>6, WithoutType, WithoutKeeps, SMTT(30) DEF LruPromote
  <2>2. k \notin Elements(w)
    <3>1. CASE k \in Elements(lru)
      BY <1>1, <3>1, WithoutElements
    <3>2. CASE k \notin Elements(lru)
      BY <3>2, ZenonT(30) DEF Without, Elements
    <3>3. QED
      BY <3>1, <3>2
  <2> HIDE DEF w
  <2>3. QED
    BY <1>0, <1>6, <2>1, <2>2, UseStep
<1>7. ASSUME NEW t \in Tasks, GetHit(t) PROVE RInv'
  <2>1. /\ lru' = LruPromote(cache_key(req[t])) /\ cache_key(req[t]) \in Keys
        /\ pc[t] = "get" /\ pc' = [pc EXCEPT ![t] = "done"]
    BY <1>7 DEF GetHit, Finish, Stored
  <2>2. Used = {cache_key(req[t])}
    BY <1>0, <2>1, UsesOne, ZenonT(30)
  <2>3. QED
    BY <1>6, <2>1, <2>2
<1>8. ASSUME NEW t \in Tasks, Put(t) PROVE RInv'
  <2> DEFINE k == cache_key(req[t])
  <2>1. /\ LruPut(k, pending[t])
        /\ pc[t] = "insert" /\ pc' = [pc EXCEPT ![t] = "done"]
    BY <1>8 DEF Put, Finish
  <2>2. k \in Keys
    BY <1>0, KeyType, ZenonT(30) DEF TypeOK
  <2>3. Used = {k}
    BY <1>0, <2>1, UsesOne, ZenonT(30)
  <2> HIDE DEF k
  <2>4. CASE k \in Stored \/ Len(lru) < Size
    BY <1>6, <2>1, <2>2, <2>3, <2>4 DEF LruPut
  <2>5. CASE ~(k \in Stored \/ Len(lru) < Size)
    <3>1. lru' = Append(Tail(lru), k) /\ lru # <<>>
      BY <1>1, <2>1, <2>5, SMTT(30) DEF LruPut
    <3>2. /\ Tail(lru) \in Seq(Keys) /\ Keeps(Tail(lru), lru)
          /\ Elements(Tail(lru)) = Elements(lru) \ {Head(lru)}
      BY <1>1, <3>1, TailElements, TailKeeps, ZenonT(30)
    <3>3. k \notin Elements(Tail(lru))
      BY <1>1, <2>5, <3>2, ZenonT(30)
    <3>4. QED
      BY <1>0, <2>2, <2>3, <3>1, <3>2, <3>3, UseStep, ZenonT(30)
  <2>6. QED
    BY <2>4, <2>5
<1>9. QED
  BY <1>3, <1>4, <1>5, <1>7, <1>8, ZenonT(30) DEF Next, TaskStep

\* A live response leaves only from the front of a full recency list, and all
\* that stands behind it there was used since it was.
LEMMA EvictionStep ==
  ASSUME IInv, LruConsistent, RInv, Next, Remember
  PROVE  ColdestLeaves
<1>1. SUFFICES ASSUME NEW k \in Keys, entries[k] # NoEntry, entries'[k] = NoEntry,
                      ~Expired(entries[k])
               PROVE  Cardinality(Used \cup since[k]) >= Size
  BY ZenonT(30) DEF ColdestLeaves
<1>2. ASSUME NEW t \in Tasks, GetExpired(t) PROVE FALSE
  <2> DEFINE j == cache_key(req[t])
  <2>1. Expired(entries[j]) /\ entries' = [entries EXCEPT ![j] = NoEntry]
    BY <1>2, ZenonT(30) DEF GetExpired, LruPop
  <2> HIDE DEF j
  <2>2. k # j
    BY <1>1, <2>1, Zenon
  <2>3. QED
    BY <1>1, <2>1, <2>2 DEF IInv, TypeOK
<1>3. PICK t \in Tasks : Put(t)
  <2>1. entries' # entries
    BY <1>1, SMTT(30)
  <2>2. QED
    BY <1>2, <2>1, ZenonT(30) DEF Next, TaskStep, Tick, Arrive, GetMiss, GetHit, HandlerOk, HandlerErr
<1> DEFINE q == cache_key(req[t])
<1>4. /\ LruPut(q, pending[t])
      /\ pc[t] = "insert" /\ pc' = [pc EXCEPT ![t] = "done"]
  BY <1>3 DEF Put, Finish
<1>5. q \in Keys /\ pending[t] # NoEntry /\ pending[t] \in Entry
  BY <1>4, KeyType, ZenonT(30) DEF IInv, EntriesAreGenuine, TypeOK
<1>6. Used = {q}
  BY <1>4, UsesOne, ZenonT(30) DEF IInv
<1> HIDE DEF q
<1>7. /\ lru \in Seq(Keys) /\ Distinct(lru) /\ Elements(lru) = Stored
      /\ Size \in Nat \ {0} /\ Len(lru) \in Nat /\ Len(lru) <= Size
  BY ListFacts DEF IInv
<1>8. ~(q \in Stored \/ Len(lru) < Size) /\ k = Head(lru)
  <2>1. CASE q \in Stored \/ Len(lru) < Size
    <3>1. entries' = [entries EXCEPT ![q] = pending[t]]
      BY <1>4, <2>1, SMTT(30) DEF LruPut
    <3>2. QED
      BY <1>1, <1>5, <3>1, SMTT(30) DEF IInv, TypeOK
  <2>2. CASE ~(q \in Stored \/ Len(lru) < Size)
    <3>1. entries' = [entries EXCEPT ![Head(lru)] = NoEntry, ![q] = pending[t]]
      BY <1>4, <2>2, SMTT(30) DEF LruPut
    <3>2. QED
      BY <1>1, <1>5, <2>2, <3>1 DEF IInv, TypeOK
  <2>3. QED
    BY <2>1, <2>2
<1>9. /\ lru # <<>> /\ Len(lru) = Size /\ k = lru[1]
  BY <1>7, <1>8
<1>10. Elements(lru) \ {k} \subseteq since[k]
  <2>1. SUFFICES ASSUME NEW x \in Elements(lru), x # k PROVE x \in since[k]
    OBVIOUS
  <2>2. PICK i \in 1..Len(lru) : x = lru[i]
    BY DEF Elements
  <2>3. 1 \in 1..Len(lru) /\ 1 < i
    BY <1>7, <1>9, <2>1, <2>2
  <2>4. QED
    BY <1>9, <2>2, <2>3 DEF RInv, Warmer
<1> DEFINE others == (Elements(lru) \ {k}) \cup {q}
<1>11. IsFiniteSet(others) /\ Cardinality(others) = Size
  <2>1. IsFiniteSet(Elements(lru)) /\ Cardinality(Elements(lru)) = Size
    BY <1>7, <1>9, Counted
  <2>2. k \in Elements(lru) /\ q \notin Elements(lru)
    BY <1>7, <1>8, <1>9 DEF Elements
  <2>3. IsFiniteSet(Elements(lru) \ {k}) /\ Cardinality(Elements(lru) \ {k}) = Size - 1
    BY <2>1, <2>2, FS_RemoveElement, ZenonT(30)
  <2>4. IsFiniteSet(others) /\ Cardinality(others) = (Size - 1) + 1
    BY <2>2, <2>3, FS_AddElement, ZenonT(30)
  <2>5. QED
    BY <1>7, <2>4
<1>12. others \subseteq Used \cup since[k]
  BY <1>6, <1>10
<1>13. IsFiniteSet(Used \cup since[k])
  BY <1>6, FS_Union, FS_Singleton, ZenonT(30) DEF RInv
<1> HIDE DEF others
<1>14. Cardinality(others) <= Cardinality(Used \cup since[k])
  BY <1>12, <1>13, FS_Subset
<1>15. Cardinality(Used \cup since[k]) \in Nat
  BY <1>13, FS_CardinalityType
<1>16. QED
  BY <1>7, <1>11, <1>14, <1>15, ZenonT(30)

\* A step that leaves the cache alone keeps them in agreement too.
LEMMA IdleStep ==
  ASSUME IInv, LruConsistent, IInv', LruConsistent', RInv, Remember, UNCHANGED <<entries, lru, pc>>
  PROVE  RInv'
<1>1. Used = {}
  BY UsesNone
<1>2. Keeps(lru', lru)
  BY DEF Keeps
<1>3. QED
  BY <1>1, <1>2, QuietStep DEF IInv

\* Nothing is stored and nothing was used initially.
LEMMA InitRecency ==
  ASSUME Init, NothingUsed
  PROVE  RInv
<1>1. lru = <<>> /\ Len(lru) = 0
  BY DEF Init
<1>2. since \in [Keys -> SUBSET Keys] /\ \A k \in Keys : IsFiniteSet(since[k])
  BY FS_EmptySet DEF NothingUsed
<1>3. Warmer(lru, since)
  BY <1>1 DEF Warmer
<1>4. QED
  BY <1>2, <1>3 DEF RInv

\* Whatever queries, answers and delays there are, a response that has not
\* expired leaves the cache only when at least Size other keys were stored or
\* hit since it was (`get` promotes, `put` evicts).
THEOREM EvictsTheColdest == RecentSpec => [][ColdestLeaves]_hvars
<1> DEFINE EInv == IInv /\ LruConsistent /\ RInv
<1>1. Init /\ NothingUsed => EInv
  BY InitInvariant, InitConsistent, InitRecency
<1>2. EInv /\ [Next /\ Remember]_hvars => EInv' /\ [ColdestLeaves]_hvars
  <2> SUFFICES ASSUME EInv, [Next /\ Remember]_hvars PROVE EInv' /\ [ColdestLeaves]_hvars
    OBVIOUS
  <2>1. CASE Next /\ Remember
    BY <2>1, NextInvariant, LruStep, RecencyStep, EvictionStep
  <2>2. CASE UNCHANGED hvars
    <3>1. UNCHANGED vars /\ lru' = lru /\ since' = since
      BY <2>2 DEF hvars, vars
    <3>2. RInv'
      BY <3>1 DEF RInv, Warmer
    <3>3. QED
      BY <2>2, <3>1, <3>2, NextInvariant, LruStep, SMTT(30)
  <2>3. QED
    BY <2>1, <2>2
<1>3. QED
  BY <1>1, <1>2, PTL DEF RecentSpec

=============================================================================
