--------------------------- MODULE UpstreamGroup ---------------------------
(***************************************************************************)
(* How queries choose and try upstreams: UpstreamGroup::ordered and         *)
(* UpstreamConfig::exchange (src/src/client/upstream_config.rs) over the    *)
(* latency averages of src/src/client/upstream.rs.  Queries are tasks on    *)
(* several threads.  A group's cursor and an upstream's average are single  *)
(* atomics; the average is shared by every group that names the upstream.   *)
(* `ordered` in load-balance mode reads the averages one at a time and      *)
(* again in every comparison of the sort, while other queries record.       *)
(***************************************************************************)
EXTENDS Integers, Sequences, FiniteSets

CONSTANTS
  Queries,    \* concurrent invocations of UpstreamConfig::exchange
  Upstreams,  \* distinct TrackedUpstreams
  Groups,     \* the domain rules and the default group
  Members,    \* Members[g]: the upstreams of g, in configured order
  Modes,      \* the UpstreamModes the program may be started with
  Samples,    \* latencies an exchange may take, in microseconds
  Untested,   \* u64::MAX
  CursorMod,  \* 2^64: where the round-robin cursor wraps
  Reliable    \* upstreams that answer every query

ASSUME GroupAssumption ==
  /\ Members \in [Groups -> Seq(Upstreams)]
  /\ Modes \subseteq {"Ordered", "RoundRobin", "LoadBalance"}
  /\ Samples \subseteq Nat
  /\ Untested \in Nat
  /\ \A s \in Samples : s < Untested
  /\ CursorMod \in Nat \ {0}
  /\ Reliable \subseteq Upstreams

VARIABLES
  mode,      \* the UpstreamMode it was started with
  up,        \* the upstreams that are reachable
  avg,       \* avg[u]: LatencyTracker::avg_micros
  took,      \* history: how long the answered exchanges with each upstream took
  cursor,    \* cursor[g]: UpstreamGroup::round_robin_cursor
  pc,        \* where each query is
  grp,       \* the group that handles each query
  tested,    \* `tested` and `untested` of a query inside `ordered`
  untested,
  torn,      \* an average being sorted on changed during the sort
  rest,      \* the upstreams a query has still to try
  failed,    \* the upstreams that failed this query
  result     \* what each query returned last

vars == <<mode, up, avg, took, cursor, pc, grp, tested, untested, torn, rest, failed, result>>

Elements(s) == { s[i] : i \in 1..Len(s) }

----------------------------------------------------------------------------
(* LatencyTracker *)

\* Mutant of Ema: the old average is not discounted.
EmaUndiscounted(prev, sample) ==
  LET x == 3 * sample + 10 * prev
  IN  { n \in {x \div 10, (x \div 10) + 1} : 10 * n - x \in -5..5 }

\* round(0.3 * sample + 0.7 * prev): the nearest integers, either one at a
\* tie, where the error of the floating-point sum decides.
Ema(prev, sample) ==
  LET x == 3 * sample + 7 * prev
  IN  { n \in {x \div 10, (x \div 10) + 1} : 10 * n - x \in -5..5 }

NewAverage(prev, sample) == IF prev = Untested THEN {sample} ELSE Ema(prev, sample)

\* fetch_update retries until it applies the closure to the current value.
record(u, sample) ==
  /\ \E n \in NewAverage(avg[u], sample) : avg' = [avg EXCEPT ![u] = n]
  /\ took' = [took EXCEPT ![u] = took[u] \cup {sample}]
  /\ torn' = [q \in Queries |->
                torn[q] \/ (pc[q] = "sort" /\ u \in Elements(tested[q]))]

----------------------------------------------------------------------------
(* UpstreamGroup::ordered *)

\* Mutant of Rotation: the upstream before the starting point is lost.
RotationLosesOne(s, start) == SubSeq(s, start + 1, Len(s)) \o SubSeq(s, 1, start - 1)

Rotation(s, start) == SubSeq(s, start + 1, Len(s)) \o SubSeq(s, 1, start)

\* Mutant of Bump: the cursor saturates.
BumpSaturating(c) == IF c + 1 < CursorMod THEN c + 1 ELSE c

\* fetch_add wraps around.
Bump(c) == (c + 1) % CursorMod

Indices(s) == { f \in [1..Len(s) -> 1..Len(s)] :
                  \A i \in 1..Len(s) : \E j \in 1..Len(s) : f[j] = i }

Reordered(s, f) == [i \in 1..Len(s) |-> s[f[i]]]

\* slice::shuffle
Shuffles(s) == { Reordered(s, f) : f \in Indices(s) }

\* The stable sort by average, while no average changes.
Sorted(s) ==
  { Reordered(s, f) : f \in
      { h \in Indices(s) : \A i, j \in 1..Len(s) : i < j =>
          \/ avg[s[h[i]]] < avg[s[h[j]]]
          \/ avg[s[h[i]]] = avg[s[h[j]]] /\ h[i] < h[j] } }

\* sort_by_key reads the averages afresh at every comparison: with keys that
\* change under it the order of the result is unspecified.
SortResults(q) == IF torn[q] THEN Shuffles(tested[q]) ELSE Sorted(tested[q])

\* A query is routed to group g and orders it.
Arrive(q, g) ==
  LET m == Members[g] IN
  /\ pc[q] = "idle"
  /\ grp' = [grp EXCEPT ![q] = g]
  /\ failed' = [failed EXCEPT ![q] = {}]
  /\ result' = [result EXCEPT ![q] = "none"]
  /\ tested' = [tested EXCEPT ![q] = <<>>]
  /\ untested' = [untested EXCEPT ![q] = <<>>]
  /\ \/ /\ mode = "Ordered"
        /\ rest' = [rest EXCEPT ![q] = m]
        /\ pc' = [pc EXCEPT ![q] = "try"]
        /\ UNCHANGED cursor
     \/ /\ mode = "RoundRobin"
        /\ m = <<>>
        /\ rest' = [rest EXCEPT ![q] = <<>>]
        /\ pc' = [pc EXCEPT ![q] = "try"]
        /\ UNCHANGED cursor
     \/ /\ mode = "RoundRobin"
        /\ m # <<>>
        /\ cursor' = [cursor EXCEPT ![g] = Bump(cursor[g])]
        /\ rest' = [rest EXCEPT ![q] = Rotation(m, cursor[g] % Len(m))]
        /\ pc' = [pc EXCEPT ![q] = "try"]
     \/ /\ mode = "LoadBalance"
        /\ pc' = [pc EXCEPT ![q] = "scan"]
        /\ UNCHANGED <<cursor, rest>>
  /\ UNCHANGED <<mode, up, avg, took, torn>>

Scanned(q) == Len(tested[q]) + Len(untested[q])

\* One iteration of the loop that separates tested from untested upstreams.
Scan(q) ==
  LET m == Members[grp[q]]
      u == m[Scanned(q) + 1]
  IN
  /\ pc[q] = "scan"
  /\ Scanned(q) < Len(m)
  /\ IF avg[u] # Untested
     THEN /\ tested' = [tested EXCEPT ![q] = Append(tested[q], u)]
          /\ UNCHANGED untested
     ELSE /\ untested' = [untested EXCEPT ![q] = Append(untested[q], u)]
          /\ UNCHANGED tested
  /\ UNCHANGED <<mode, up, avg, took, cursor, pc, grp, torn, rest, failed, result>>

SortBegin(q) ==
  /\ pc[q] = "scan"
  /\ Scanned(q) = Len(Members[grp[q]])
  /\ pc' = [pc EXCEPT ![q] = "sort"]
  /\ torn' = [torn EXCEPT ![q] = FALSE]
  /\ UNCHANGED <<mode, up, avg, took, cursor, grp, tested, untested, rest, failed, result>>

\* Mutant of SortEnd: measured upstreams come first.
SortEndTestedFirst(q) ==
  /\ pc[q] = "sort"
  /\ \E a \in Shuffles(untested[q]), b \in SortResults(q) :
       rest' = [rest EXCEPT ![q] = b \o a]
  /\ pc' = [pc EXCEPT ![q] = "try"]
  /\ UNCHANGED <<mode, up, avg, took, cursor, grp, tested, untested, torn, failed, result>>

\* Mutant of SortEnd: the measured upstreams are not appended.
SortEndDropsTested(q) ==
  /\ pc[q] = "sort"
  /\ \E a \in Shuffles(untested[q]) : rest' = [rest EXCEPT ![q] = a]
  /\ pc' = [pc EXCEPT ![q] = "try"]
  /\ UNCHANGED <<mode, up, avg, took, cursor, grp, tested, untested, torn, failed, result>>

SortEnd(q) ==
  /\ pc[q] = "sort"
  /\ \E a \in Shuffles(untested[q]), b \in SortResults(q) :
       rest' = [rest EXCEPT ![q] = a \o b]
  /\ pc' = [pc EXCEPT ![q] = "try"]
  /\ UNCHANGED <<mode, up, avg, took, cursor, grp, tested, untested, torn, failed, result>>

\* The lists of `ordered` go out of scope.
DropLists(q) ==
  /\ tested' = [tested EXCEPT ![q] = <<>>]
  /\ untested' = [untested EXCEPT ![q] = <<>>]
  /\ rest' = [rest EXCEPT ![q] = <<>>]

\* A sort that finds the keys in no total order may also panic; the task of
\* the query ends, and its client gets no answer.
SortPanic(q) ==
  /\ pc[q] = "sort"
  /\ torn[q]
  /\ Len(tested[q]) > 1
  /\ result' = [result EXCEPT ![q] = "panic"]
  /\ pc' = [pc EXCEPT ![q] = "idle"]
  /\ DropLists(q)
  /\ UNCHANGED <<mode, up, avg, took, cursor, grp, torn, failed>>

----------------------------------------------------------------------------
(* UpstreamConfig::exchange *)

\* The upstream answers: its latency is recorded and the query is done.
AttemptOk(q, sample) ==
  /\ pc[q] = "try"
  /\ rest[q] # <<>>
  /\ Head(rest[q]) \in up
  /\ record(Head(rest[q]), sample)
  /\ result' = [result EXCEPT ![q] = "ok"]
  /\ pc' = [pc EXCEPT ![q] = "idle"]
  /\ failed' = [failed EXCEPT ![q] = {}]
  /\ DropLists(q)
  /\ UNCHANGED <<mode, up, cursor, grp>>

\* Mutant of AttemptErr: the upstream that failed is tried again.
AttemptErrRepeats(q) ==
  /\ pc[q] = "try"
  /\ rest[q] # <<>>
  /\ Head(rest[q]) \notin Reliable
  /\ failed' = [failed EXCEPT ![q] = failed[q] \cup {Head(rest[q])}]
  /\ UNCHANGED <<mode, up, avg, took, cursor, pc, grp, tested, untested, torn, rest, result>>

\* The upstream fails: no latency is recorded and the next one is tried.
AttemptErr(q) ==
  /\ pc[q] = "try"
  /\ rest[q] # <<>>
  /\ Head(rest[q]) \notin Reliable
  /\ rest' = [rest EXCEPT ![q] = Tail(rest[q])]
  /\ failed' = [failed EXCEPT ![q] = failed[q] \cup {Head(rest[q])}]
  /\ UNCHANGED <<mode, up, avg, took, cursor, pc, grp, tested, untested, torn, result>>

\* No upstream is left: the last error, or "no upstreams configured".
GiveUp(q) ==
  /\ pc[q] = "try"
  /\ rest[q] = <<>>
  /\ result' = [result EXCEPT ![q] = "err"]
  /\ pc' = [pc EXCEPT ![q] = "idle"]
  /\ DropLists(q)
  /\ UNCHANGED <<mode, up, avg, took, cursor, grp, torn, failed>>

\* The network: an upstream becomes unreachable, or reachable again.
Toggle(u) ==
  /\ u \notin Reliable
  /\ up' = IF u \in up THEN up \ {u} ELSE up \cup {u}
  /\ UNCHANGED <<mode, avg, took, cursor, pc, grp, tested, untested, torn, rest, failed, result>>

----------------------------------------------------------------------------
Init ==
  /\ mode \in Modes
  /\ up = Upstreams
  /\ avg = [u \in Upstreams |-> Untested]
  /\ took = [u \in Upstreams |-> {}]
  /\ cursor = [g \in Groups |-> 0]
  /\ pc = [q \in Queries |-> "idle"]
  /\ grp \in [Queries -> Groups]
  /\ tested = [q \in Queries |-> <<>>]
  /\ untested = [q \in Queries |-> <<>>]
  /\ torn = [q \in Queries |-> FALSE]
  /\ rest = [q \in Queries |-> <<>>]
  /\ failed = [q \in Queries |-> {}]
  /\ result = [q \in Queries |-> "none"]

\* What a query that has arrived does next.
Step(q) ==
  \/ Scan(q)
  \/ SortBegin(q)
  \/ SortEnd(q)
  \/ SortPanic(q)
  \/ \E s \in Samples : AttemptOk(q, s)
  \/ AttemptErr(q)
  \/ GiveUp(q)

Next ==
  \/ \E q \in Queries : Step(q) \/ \E g \in Groups : Arrive(q, g)
  \/ \E u \in Upstreams : Toggle(u)

Spec == Init /\ [][Next]_vars

\* The runtime polls every task that can proceed, and every exchange ends:
\* each transport bounds it by Options::timeout (except for the body of a DoH
\* response, which is assumed to end; see DohUpstream).
FairSpec == Spec /\ \A q \in Queries : WF_vars(Step(q))

----------------------------------------------------------------------------
(* Properties *)

(***************************************************************************)
(* Type invariant of the groups, the averages and the queries.             *)
(***************************************************************************)
TypeOK ==
  /\ mode \in Modes
  /\ up \subseteq Upstreams
  /\ avg \in [Upstreams -> Nat]
  /\ took \in [Upstreams -> SUBSET Samples]
  /\ cursor \in [Groups -> 0..(CursorMod - 1)]
  /\ pc \in [Queries -> {"idle", "scan", "sort", "try"}]
  /\ grp \in [Queries -> Groups]
  /\ tested \in [Queries -> Seq(Upstreams)]
  /\ untested \in [Queries -> Seq(Upstreams)]
  /\ torn \in [Queries -> BOOLEAN]
  /\ rest \in [Queries -> Seq(Upstreams)]
  /\ failed \in [Queries -> SUBSET Upstreams]
  /\ result \in [Queries -> {"none", "ok", "err", "panic"}]

(***************************************************************************)
(* While a query is being tried, the upstreams that failed it and those it *)
(* has left make up its whole group, and while it is being ordered the two *)
(* lists hold exactly the upstreams scanned so far: no ordering, however   *)
(* other queries change the averages and the cursor under it, loses an     *)
(* upstream or brings in one of another group (`ordered`).                 *)
(***************************************************************************)
NoUpstreamLost ==
  \A q \in Queries :
    LET m == Members[grp[q]] IN
    /\ pc[q] = "try" => Elements(rest[q]) \cup failed[q] = Elements(m)
    /\ pc[q] \in {"scan", "sort"} =>
         /\ Scanned(q) <= Len(m)
         /\ Elements(tested[q]) \cup Elements(untested[q]) = { m[i] : i \in 1..Scanned(q) }
         /\ failed[q] = {}
    /\ pc[q] = "sort" => Scanned(q) = Len(m)

(***************************************************************************)
(* A query fails only after every upstream of its own group failed that    *)
(* very query ("If every upstream for a query fails, the last error is     *)
(* returned", upstream_config.rs:224-226).                                 *)
(***************************************************************************)
ErrorOnlyAfterAll ==
  \A q \in Queries : result[q] = "err" => failed[q] = Elements(Members[grp[q]])

(***************************************************************************)
(* An upstream's average lies between two latencies that exchanges with it *)
(* really took, and is "untested" exactly as long as none was answered: no *)
(* interleaving of the samples of concurrent queries loses the first one,  *)
(* and no rounding drifts out of the range or into u64::MAX (`record`).    *)
(***************************************************************************)
AverageWithinSamples ==
  \A u \in Upstreams :
    \/ took[u] = {} /\ avg[u] = Untested
    \/ /\ avg[u] # Untested
       /\ \E lo, hi \in took[u] : lo <= avg[u] /\ avg[u] <= hi

\* Queries keep being routed to g.
KeepsAsking(g) == []<>(\E q \in Queries : pc[q] = "try" /\ grp[q] = g)

(***************************************************************************)
(* Every query that was accepted is answered or failed (`exchange`).       *)
(***************************************************************************)
QueryReturns == \A q \in Queries : pc[q] # "idle" ~> pc[q] = "idle"

(***************************************************************************)
(* In load-balance mode every upstream that answers is measured in the     *)
(* end, as long as its group is asked: "so every upstream gets a chance to *)
(* be measured" (UpstreamMode::LoadBalance).                               *)
(***************************************************************************)
LiveIsMeasured ==
  \A g \in Groups : \A u \in Reliable \cap Elements(Members[g]) :
    (mode = "LoadBalance" /\ KeepsAsking(g)) => <>(avg[u] # Untested)

(***************************************************************************)
(* In load-balance mode the first choice is "whichever upstream has        *)
(* answered fastest recently" (main.rs, --upstream-mode): an upstream that *)
(* has stopped answering for good does not stay the first choice of a      *)
(* group in which another upstream answers every query.                    *)
(***************************************************************************)
DeadIsNotPreferred ==
  \A g \in Groups : \A u \in Elements(Members[g]) :
    (KeepsAsking(g) /\ Reliable \cap Elements(Members[g]) # {} /\ <>[](u \notin up)) =>
      <>[](\A q \in Queries :
             (/\ grp[q] = g /\ pc[q] = "try" /\ rest[q] # <<>> /\ failed[q] = {}
              /\ untested[q] = <<>>) => Head(rest[q]) # u)

=============================================================================
