------------------------------- MODULE Cache -------------------------------
(***************************************************************************)
(* The TTL-aware response cache of src/src/cache.rs: a mutex around an LRU  *)
(* map, wrapped around an inner handler.  Every query runs as a task of its *)
(* own; a task gives up the processor only where the code awaits: for the   *)
(* lock in `get`, for the inner handler, and for the lock in `insert`.      *)
(*                                                                         *)
(* Time is counted in ticks, TicksPerSec of them to a second, so that the   *)
(* sub-second part `as_secs` drops is visible.  A message is abstracted to  *)
(* its id, its records (only their TTL, and whether they are the OPT        *)
(* pseudo-record) and `src`, the upstream message it is a copy of: the      *)
(* query variant it was fetched for, its records, when it arrived.          *)
(***************************************************************************)
EXTENDS Naturals, Sequences, FiniteSets

CONSTANTS
  Tasks,        \* concurrent invocations of the wrapped handler
  Requests,     \* the queries clients may send
  Answers,      \* what the inner handler may answer with: an id and records
  Size,         \* CacheOptions::size
  MinTtl,       \* CacheOptions::min_ttl, in seconds
  MaxTtl,       \* CacheOptions::max_ttl, in seconds, or Unbounded
  Unbounded,    \* max_ttl = None
  TicksPerSec,  \* resolution of Instant
  U32,          \* 2^32: `as u32` keeps the remainder
  MaxTime       \* bound on the clock

Request == [id : Nat, questions : Nat, question : STRING,
            dnssec_ok : BOOLEAN, checking_disabled : BOOLEAN]

Rec == [opt : BOOLEAN, ttl : Nat]

ASSUME CacheAssumption ==
  /\ Requests \subseteq Request
  /\ Answers \subseteq [id : Nat, recs : SUBSET Rec]
  /\ Size \in Nat \ {0}
  /\ MinTtl \in Nat
  /\ MaxTtl \in Nat \/ MaxTtl = Unbounded
  /\ TicksPerSec \in Nat \ {0}
  /\ U32 \in Nat \ {0}
  /\ \A m \in Answers : \A r \in m.recs : r.ttl < U32

CacheKey == [question : STRING, dnssec_ok : BOOLEAN, checking_disabled : BOOLEAN]

\* Whether cache_key(req) is Some: only single-question queries are cached.
HasKey(r) == r.questions = 1

\* What of a query an upstream's answer depends on: the question, whether
\* DNSSEC records are wanted, whether unvalidated data is acceptable.
Variant(r) ==
  [question |-> r.question, dnssec_ok |-> r.dnssec_ok,
   checking_disabled |-> r.checking_disabled]

\* Mutant of cache_key: the CD bit is left out of the key.
CacheKeyWithoutCd(r) ==
  [question |-> r.question, dnssec_ok |-> r.dnssec_ok, checking_disabled |-> FALSE]

cache_key(r) ==
  [question |-> r.question, dnssec_ok |-> r.dnssec_ok,
   checking_disabled |-> r.checking_disabled]

Keys == { cache_key(r) : r \in Requests }

NoEntry == [response |-> <<>>]

VARIABLES
  now,      \* the monotonic clock
  entries,  \* entries[k]: the CacheEntry stored under k, or NoEntry
  lru,      \* the stored keys, least recently used first
  pc,       \* where each task is
  req,      \* the query each task handles
  pending,  \* the CacheEntry a task in `insert` holds while it awaits the lock
  out       \* what each task returned last

vars == <<now, entries, lru, pc, req, pending, out>>

----------------------------------------------------------------------------
(* Records and lifetimes *)

cacheable_records(recs) == { r \in recs : ~r.opt }

LeastTtl(recs) ==
  CHOOSE n \in { r.ttl : r \in recs } : \A r \in recs : n <= r.ttl

\* Mutant of Clamped: the ceiling is forgotten.
OnlyFloored(secs) == IF secs < MinTtl THEN MinTtl ELSE secs

\* The floor is applied first and the ceiling last.
Clamped(secs) ==
  LET floored == IF secs < MinTtl THEN MinTtl ELSE secs
  IN  IF MaxTtl # Unbounded /\ floored > MaxTtl THEN MaxTtl ELSE floored

\* Meaningful only when there is a cacheable record (`?` on line 130).
response_ttl(recs) == TicksPerSec * Clamped(LeastTtl(cacheable_records(recs)))

\* `(entry.ttl - elapsed).as_secs() as u32`
Remaining(e) == ((e.ttl - (now - e.stored_at)) \div TicksPerSec) % U32

\* Mutant of Expired: an entry lives one tick too long.
ExpiredTooLate(e) == now - e.stored_at > e.ttl

Expired(e) == now - e.stored_at >= e.ttl

all_records_mut(recs, ttl) ==
  { IF r.opt THEN r ELSE [r EXCEPT !.ttl = ttl] : r \in recs }

----------------------------------------------------------------------------
(* The LRU map of the `lru` crate: `get` promotes, `put` promotes and, for  *)
(* a new key at capacity, evicts the least recently used one.               *)

Stored == { k \in Keys : entries[k] # NoEntry }

\* Detaching a key from the recency list.
Without(s, k) ==
  IF \E i \in 1..Len(s) : s[i] = k
  THEN LET i == CHOOSE i \in 1..Len(s) : s[i] = k
       IN  [j \in 1..(Len(s) - 1) |-> IF j < i THEN s[j] ELSE s[j + 1]]
  ELSE s

\* Mutant of LruPromote: a stored key keeps its place when it is used.
LruKeepsPlace(k) == IF k \in Stored THEN lru ELSE Append(lru, k)

LruPromote(k) == Append(Without(lru, k), k)

LruPop(k) ==
  /\ entries' = [entries EXCEPT ![k] = NoEntry]
  /\ lru' = Without(lru, k)

LruPut(k, e) ==
  IF k \in Stored \/ Len(lru) < Size
  THEN /\ entries' = [entries EXCEPT ![k] = e]
       /\ lru' = LruPromote(k)
  ELSE /\ entries' = [entries EXCEPT ![Head(lru)] = NoEntry, ![k] = e]
       /\ lru' = Append(Tail(lru), k)

----------------------------------------------------------------------------
(* The wrapped handler *)

Result(kind, resp) == [kind |-> kind, resp |-> resp, at |-> now]

Finish(t, result) ==
  /\ pc' = [pc EXCEPT ![t] = "done"]
  /\ out' = [out EXCEPT ![t] = result]

\* A query arrives; one without exactly one question skips the cache.
Arrive(t, r) ==
  /\ pc[t] = "done"
  /\ req' = [req EXCEPT ![t] = r]
  /\ pc' = [pc EXCEPT ![t] = IF HasKey(r) THEN "get" ELSE "bypass"]
  /\ out' = [out EXCEPT ![t] = Result("none", <<>>)]
  /\ UNCHANGED <<now, entries, lru, pending>>

GetMiss(t) ==
  /\ pc[t] = "get"
  /\ cache_key(req[t]) \notin Stored
  /\ pc' = [pc EXCEPT ![t] = "forward"]
  /\ UNCHANGED <<now, entries, lru, req, pending, out>>

GetExpired(t) ==
  LET k == cache_key(req[t]) IN
  /\ pc[t] = "get"
  /\ k \in Stored
  /\ Expired(entries[k])
  /\ LruPop(k)
  /\ pc' = [pc EXCEPT ![t] = "forward"]
  /\ UNCHANGED <<now, req, pending, out>>

\* A fresh hit: the id of this query, every TTL rewritten to what remains.
GetHit(t) ==
  LET k == cache_key(req[t])
      e == entries[k]
  IN
  /\ pc[t] = "get"
  /\ k \in Stored
  /\ ~Expired(e)
  /\ lru' = LruPromote(k)
  /\ Finish(t, Result("hit",
       [id |-> req[t].id, src |-> e.response.src,
        recs |-> all_records_mut(e.response.recs, Remaining(e))]))
  /\ UNCHANGED <<now, entries, req, pending>>

\* The inner handler answers, with whatever id its message has.  Without a
\* cacheable record `insert` returns at once; otherwise it stamps the entry and
\* then awaits the lock.
HandlerOk(t, m) ==
  LET resp == [id |-> m.id, recs |-> m.recs,
               src |-> [key |-> Variant(req[t]), recs |-> m.recs, born |-> now]]
  IN
  /\ pc[t] \in {"forward", "bypass"}
  /\ IF pc[t] = "forward" /\ cacheable_records(m.recs) # {}
     THEN /\ pending' = [pending EXCEPT ![t] =
                [response |-> resp, stored_at |-> now, ttl |-> response_ttl(m.recs)]]
          /\ pc' = [pc EXCEPT ![t] = "insert"]
          /\ UNCHANGED out
     ELSE /\ Finish(t, Result("forwarded", resp))
          /\ UNCHANGED pending
  /\ UNCHANGED <<now, entries, lru, req>>

\* The inner handler fails: `?` returns the error and nothing is stored.
HandlerErr(t) ==
  /\ pc[t] \in {"forward", "bypass"}
  /\ Finish(t, Result("error", <<>>))
  /\ UNCHANGED <<now, entries, lru, req, pending>>

\* Mutant of Put: the entry is stamped once the lock is held.
PutStampsLate(t) ==
  /\ pc[t] = "insert"
  /\ LruPut(cache_key(req[t]), [pending[t] EXCEPT !.stored_at = now])
  /\ pending' = [pending EXCEPT ![t] = NoEntry]
  /\ Finish(t, Result("forwarded", pending[t].response))
  /\ UNCHANGED <<now, req>>

\* The lock is granted to a task in `insert`.
Put(t) ==
  /\ pc[t] = "insert"
  /\ LruPut(cache_key(req[t]), pending[t])
  /\ pending' = [pending EXCEPT ![t] = NoEntry]
  /\ Finish(t, Result("forwarded", pending[t].response))
  /\ UNCHANGED <<now, req>>

Tick ==
  /\ now < MaxTime
  /\ now' = now + 1
  /\ UNCHANGED <<entries, lru, pc, req, pending, out>>

----------------------------------------------------------------------------
Init ==
  /\ now = 0
  /\ entries = [k \in Keys |-> NoEntry]
  /\ lru = <<>>
  /\ pc = [t \in Tasks |-> "done"]
  /\ req \in [Tasks -> Requests]
  /\ pending = [t \in Tasks |-> NoEntry]
  /\ out = [t \in Tasks |-> Result("none", <<>>)]

TaskStep(t) ==
  \/ \E r \in Requests : Arrive(t, r)
  \/ GetMiss(t)
  \/ GetExpired(t)
  \/ GetHit(t)
  \/ \E m \in Answers : HandlerOk(t, m)
  \/ HandlerErr(t)
  \/ Put(t)

Next == Tick \/ \E t \in Tasks : TaskStep(t)

Spec == Init /\ [][Next]_vars

----------------------------------------------------------------------------
(* Properties *)

Response == [id : Nat, recs : SUBSET Rec,
             src : [key : CacheKey, recs : SUBSET Rec, born : Nat]]

Entry == [response : Response, stored_at : Nat, ttl : Nat]

(***************************************************************************)
(* Type invariant of the cache and of the tasks that use it.               *)
(***************************************************************************)
TypeOK ==
  /\ now \in Nat
  /\ entries \in [Keys -> Entry \cup {NoEntry}]
  /\ lru \in Seq(Keys)
  /\ pc \in [Tasks -> {"done", "get", "bypass", "forward", "insert"}]
  /\ req \in [Tasks -> Requests]
  /\ pending \in [Tasks -> Entry \cup {NoEntry}]
  /\ out \in [Tasks -> [kind : {"none", "error"}, resp : {<<>>}, at : Nat]
                 \cup  [kind : {"hit", "forwarded"}, resp : Response, at : Nat]]

\* How long the cache may serve an upstream message: its own clamped TTL.
Lifetime(src) == response_ttl(src.recs)

\* e is an unmodified upstream message for the query variant k, stamped when
\* it arrived and given its own clamped lifetime.
Genuine(e, k) ==
  /\ e.response.src.key = k
  /\ e.response.recs = e.response.src.recs
  /\ cacheable_records(e.response.recs) # {}
  /\ e.stored_at = e.response.src.born
  /\ e.stored_at <= now
  /\ e.ttl = Lifetime(e.response.src)

(***************************************************************************)
(* Every stored response, and every one a task is about to store, is an    *)
(* upstream message filed under the query it answered and dated by its     *)
(* arrival, not by the moment the lock was obtained (`insert` reads        *)
(* Instant::now() before it awaits the lock).                              *)
(***************************************************************************)
EntriesAreGenuine ==
  /\ \A k \in Stored : Genuine(entries[k], k)
  /\ \A t \in Tasks : pc[t] = "insert" =>
       /\ pending[t] # NoEntry
       /\ Genuine(pending[t], Variant(req[t]))

(***************************************************************************)
(* A hit never outlives the upstream message it copies: it is served       *)
(* strictly within that message's clamped lifetime, and the TTL it tells   *)
(* the client, added to the message's age, stays within that lifetime,     *)
(* whatever delays, concurrent fills of the same key and late inserts      *)
(* happened in between (`get`, `insert`).                                  *)
(***************************************************************************)
HitIsFresh ==
  \A t \in Tasks : out[t].kind = "hit" =>
    LET src == out[t].resp.src
        age == out[t].at - src.born
    IN  /\ age < Lifetime(src)
        /\ \A r \in cacheable_records(out[t].resp.recs) :
             r.ttl * TicksPerSec + age <= Lifetime(src)

(***************************************************************************)
(* A hit carries the id of its own query, whatever the id of the message   *)
(* was, and copies a message fetched for the same question with the same   *)
(* DO and CD bits (the reason CacheKey holds both), also when several      *)
(* tasks fill and read the cache at once.  A forwarded answer keeps the id *)
(* it came with (`into_handler`), of which nothing is said here.           *)
(***************************************************************************)
AnswersOwnQuery ==
  \A t \in Tasks : out[t].kind = "hit" =>
    /\ out[t].resp.id = req[t].id
    /\ out[t].resp.src.key = Variant(req[t])

(***************************************************************************)
(* The recency list enumerates exactly the stored keys, each once, and the *)
(* map never holds more than Size responses (`LruCache::new(opts.size)`).  *)
(***************************************************************************)
LruConsistent ==
  /\ Len(lru) <= Size
  /\ { lru[i] : i \in 1..Len(lru) } = Stored
  /\ \A i, j \in 1..Len(lru) : lru[i] = lru[j] => i = j

(***************************************************************************)
(* The TTL a response is stored under is "clamped to [min_ttl, max_ttl]"   *)
(* (comment of response_ttl, cache.rs:122-124).                            *)
(***************************************************************************)
StoredTtlClamped ==
  \A k \in Stored :
    /\ entries[k].ttl >= MinTtl * TicksPerSec
    /\ MaxTtl # Unbounded => entries[k].ttl <= MaxTtl * TicksPerSec

=============================================================================
