----------------------------- MODULE Bootstrap -----------------------------
(***************************************************************************)
(* Bootstrap of an upstream's connection, src/src/client/bootstrap.rs: the  *)
(* upstream's name is looked up by several resolvers at once, the first     *)
(* answer with an address is sorted by family, and the dial handler made    *)
(* from it tries the addresses in order each time a connection is wanted.   *)
(* A resolver asks for A and AAAA records side by side.                     *)
(***************************************************************************)
EXTENDS Naturals, Sequences, Functions

CONSTANTS
  Resolvers,  \* the resolvers of a ParallelResolver
  Answers,    \* Answers[t]: the answers a query of type t may get
  IsV6(_),    \* the family of an address
  MaxDials    \* bound on the connections asked for

Types == {"A", "AAAA"}

Addrs == UNION {UNION {Range(s) : s \in Answers[t]} : t \in Types}

ASSUME BootstrapAssumption ==
  /\ MaxDials \in Nat
  /\ \A t \in Types : Answers[t] \subseteq Seq(Addrs)
  /\ \A a \in Addrs : IsV6(a) \in BOOLEAN

VARIABLES
  good,         \* the resolvers whose A query is always answered, with an address
  prefer_ipv6,  \* Options::prefer_ipv6
  timeout,      \* whether Options::timeout is set
  dialer,  \* "new", "resolving", "ready", "dialing", "connected", "failed"
  query,   \* query[r][t]: resolver r's query of type t
  futs,    \* the lookups still polled
  answer,  \* the addresses the winning lookup returned
  addrs,   \* the same, sorted
  left,    \* the addresses the current dial has not tried yet
  dials,   \* how many connections were asked for
  why      \* why resolution failed

given == <<good, prefer_ipv6, timeout>>
dialVars == <<given, dialer, query, futs, answer, addrs, left, dials, why>>

Waiting == [state |-> "waiting", ips |-> <<>>]

\* Resolver::lookup of PlainResolver and DohResolver, once both queries are
\* done: what they found, whichever of the two failed.
Joined(r) == \A t \in Types : query[r][t].state # "waiting"

Found(r) == query[r]["A"].ips \o query[r]["AAAA"].ips

\* Mutant of SortByFamily: the preference is not applied.
SortNothing(ips) == ips

\* The addresses of one family, in the resolver's order.
OfFamily(ips, v6) ==
  LET upto[n \in 0..Len(ips)] ==
        IF n = 0 THEN <<>>
        ELSE IF IsV6(ips[n]) = v6 THEN Append(upto[n - 1], ips[n]) ELSE upto[n - 1]
  IN  upto[Len(ips)]

\* sort_by_key is stable: the resolver's order remains within a family.
SortByFamily(ips) == OfFamily(ips, prefer_ipv6) \o OfFamily(ips, ~prefer_ipv6)

----------------------------------------------------------------------------
\* resolve_addrs is given a literal address: nothing is looked up.
ResolveLiteral(a) ==
  /\ dialer = "new"
  /\ dialer' = "ready"
  /\ answer' = <<a>>
  /\ addrs' = <<a>>
  /\ UNCHANGED <<given, query, futs, left, dials, why>>

StartLookup ==
  /\ dialer = "new"
  /\ dialer' = "resolving"
  /\ futs' = Resolvers
  /\ UNCHANGED <<given, query, answer, addrs, left, dials, why>>

QueryOk(r, t, ips) ==
  /\ dialer = "resolving"
  /\ query[r][t] = Waiting
  /\ r \in good /\ t = "A" => ips # <<>>
  /\ query' = [query EXCEPT ![r][t] = [state |-> "ok", ips |-> ips]]
  /\ UNCHANGED <<given, dialer, futs, answer, addrs, left, dials, why>>

QueryErr(r, t) ==
  /\ dialer = "resolving"
  /\ query[r][t] = Waiting
  /\ ~(r \in good /\ t = "A")
  /\ query' = [query EXCEPT ![r][t] = [state |-> "error", ips |-> <<>>]]
  /\ UNCHANGED <<given, dialer, futs, answer, addrs, left, dials, why>>

\* Mutant of Poll: an error of one resolver is returned at once.
PollFirst(r) ==
  /\ dialer = "resolving"
  /\ r \in futs
  /\ Joined(r)
  /\ futs' = futs \ {r}
  /\ IF Found(r) # <<>>
     THEN /\ dialer' = "ready"
          /\ answer' = Found(r)
          /\ addrs' = SortByFamily(Found(r))
          /\ UNCHANGED why
     ELSE /\ dialer' = "failed"
          /\ why' = "empty"
          /\ UNCHANGED <<answer, addrs>>
  /\ UNCHANGED <<given, query, left, dials>>

\* ParallelResolver::lookup takes the next finished lookup; when it returns,
\* resolve_addrs sorts the addresses.
Poll(r) ==
  /\ dialer = "resolving"
  /\ r \in futs
  /\ Joined(r)
  /\ futs' = futs \ {r}
  /\ IF Found(r) # <<>>
     THEN /\ dialer' = "ready"
          /\ answer' = Found(r)
          /\ addrs' = SortByFamily(Found(r))
          /\ UNCHANGED why
     ELSE /\ dialer' = IF futs' = {} THEN "failed" ELSE dialer
          /\ why' = IF futs' = {} THEN "empty" ELSE why
          /\ UNCHANGED <<answer, addrs>>
  /\ UNCHANGED <<given, query, left, dials>>

LookupTimeout ==
  /\ timeout
  /\ dialer = "resolving"
  /\ dialer' = "failed"
  /\ why' = "timeout"
  /\ UNCHANGED <<given, query, futs, answer, addrs, left, dials>>

----------------------------------------------------------------------------
\* The dial handler is called, for the first connection or a later one.
Dial ==
  /\ dialer \in {"ready", "connected"}
  /\ dials < MaxDials
  /\ dials' = dials + 1
  /\ left' = addrs
  /\ dialer' = "dialing"
  /\ UNCHANGED <<given, query, futs, answer, addrs, why>>

ConnectOk ==
  /\ dialer = "dialing"
  /\ dialer' = "connected"
  /\ UNCHANGED <<given, query, futs, answer, addrs, left, dials, why>>

\* dial_one fails, refused or by its timeout: on to the next address.  After the
\* last the handler returns the error and can be called again.
ConnectErr ==
  /\ dialer = "dialing"
  /\ left' = Tail(left)
  /\ dialer' = IF Tail(left) = <<>> THEN "ready" ELSE "dialing"
  /\ UNCHANGED <<given, query, futs, answer, addrs, dials, why>>

DialInit ==
  /\ good \in SUBSET Resolvers
  /\ prefer_ipv6 \in BOOLEAN
  /\ timeout \in BOOLEAN
  /\ dialer = "new"
  /\ query = [r \in Resolvers |-> [t \in Types |-> Waiting]]
  /\ futs = {}
  /\ answer = <<>>
  /\ addrs = <<>>
  /\ left = <<>>
  /\ dials = 0
  /\ why = "none"

QueryEnds(r, t) == QueryErr(r, t) \/ \E ips \in Answers[t] : QueryOk(r, t, ips)

----------------------------------------------------------------------------
\* ParallelResolver fails only when no resolver found an address, in either of
\* its queries: an error, or an empty answer, of one hides no other's address.
FailsOnlyWhenAllDo ==
  why = "empty" =>
    \A r \in Resolvers, t \in Types :
      query[r][t].state # "waiting" /\ query[r][t].ips = <<>>

\* new_dial_context: the addresses of the answer are dialed one after the other,
\* those of the preferred family first and in the resolver's order within a
\* family, so that those left are the last ones of that order; a dial that
\* failed has tried all of them.
DialsInOrder ==
  /\ dialer \in {"dialing", "connected"} =>
       LET tried == Len(answer) - Len(left)
           before(i, j) == \/ IsV6(answer[i]) = prefer_ipv6 /\ IsV6(answer[j]) # prefer_ipv6
                           \/ IsV6(answer[i]) = IsV6(answer[j]) /\ i < j
       IN  \E place \in [DOMAIN answer -> DOMAIN answer] :
             /\ \A i, j \in DOMAIN answer : before(i, j) => place[i] < place[j]
             /\ \A i \in DOMAIN answer :
                  place[i] > tried => left[place[i] - tried] = answer[i]
  /\ dialer = "ready" /\ dials > 0 => left = <<>>
=============================================================================
