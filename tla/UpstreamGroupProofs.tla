------------------------ MODULE UpstreamGroupProofs ------------------------
(***************************************************************************)
(* Proofs about a query's upstreams, for every set of queries, groups,      *)
(* members and latencies, in each of the three modes: a group loses no      *)
(* upstream, and round-robin favours none.                                  *)
(***************************************************************************)
EXTENDS RoundRobin, TLAPS, SequenceTheorems

----------------------------------------------------------------------------
(* Lists of upstreams *)

\* What a list appended to another holds.
LEMMA ConcatElements ==
  ASSUME NEW S, NEW a \in Seq(S), NEW b \in Seq(S)
  PROVE  a \o b \in Seq(S) /\ Elements(a \o b) = Elements(a) \cup Elements(b)
<1>1. /\ a \o b \in Seq(S) /\ Len(a \o b) = Len(a) + Len(b)
      /\ Len(a) \in Nat /\ Len(b) \in Nat
      /\ \A i \in 1..(Len(a) + Len(b)) :
           (a \o b)[i] = IF i <= Len(a) THEN a[i] ELSE b[i - Len(a)]
  BY ConcatProperties
<1>2. \A i \in 1..Len(a) : i \in 1..(Len(a) + Len(b)) /\ (a \o b)[i] = a[i]
  BY <1>1
<1>3. \A i \in 1..Len(b) :
        Len(a) + i \in 1..(Len(a) + Len(b)) /\ (a \o b)[Len(a) + i] = b[i]
  BY <1>1
<1>4. \A i \in 1..(Len(a) + Len(b)) :
        (a \o b)[i] \in Elements(a) \cup Elements(b)
  <2> TAKE i \in 1..(Len(a) + Len(b))
  <2>1. CASE i <= Len(a)
    BY <1>1, <2>1 DEF Elements
  <2>2. CASE ~(i <= Len(a))
    <3>1. i - Len(a) \in 1..Len(b) /\ (a \o b)[i] = b[i - Len(a)]
      BY <1>1, <2>2
    <3>2. QED
      BY <3>1 DEF Elements
  <2>3. QED
    BY <2>1, <2>2
<1>5. \A x \in Elements(a) : x \in Elements(a \o b)
  BY <1>1, <1>2 DEF Elements
<1>6. \A x \in Elements(b) : x \in Elements(a \o b)
  BY <1>1, <1>3, SMTT(30) DEF Elements
<1>7. \A x \in Elements(a \o b) : x \in Elements(a) \cup Elements(b)
  <2> SUFFICES ASSUME NEW i \in 1..Len(a \o b)
               PROVE  (a \o b)[i] \in Elements(a) \cup Elements(b)
    BY DEF Elements
  <2> QED BY <1>1, <1>4
<1>8. QED
  BY <1>1, <1>5, <1>6, <1>7

\* What a list with an element appended to it holds.
LEMMA AppendElements ==
  ASSUME NEW S, NEW s \in Seq(S), NEW x \in S
  PROVE  /\ Append(s, x) \in Seq(S) /\ Len(Append(s, x)) = Len(s) + 1
         /\ Elements(Append(s, x)) = Elements(s) \cup {x}
<1>1. /\ Append(s, x) \in Seq(S) /\ Len(Append(s, x)) = Len(s) + 1 /\ Len(s) \in Nat
      /\ Append(s, x)[Len(s) + 1] = x
      /\ \A i \in 1..Len(s) : Append(s, x)[i] = s[i]
  BY AppendProperties
<1>2. QED
  BY <1>1 DEF Elements

\* A non-empty list holds its head and what its tail holds.
LEMMA TailElements ==
  ASSUME NEW S, NEW s \in Seq(S), s # <<>>
  PROVE  /\ Head(s) \in S /\ Tail(s) \in Seq(S)
         /\ Elements(s) = Elements(Tail(s)) \cup {Head(s)}
<1>1. /\ Len(s) \in Nat \ {0} /\ Len(Tail(s)) = Len(s) - 1 /\ Tail(s) \in Seq(S)
      /\ Head(s) = s[1] /\ Head(s) \in S
      /\ \A i \in 1..(Len(s) - 1) : Tail(s)[i] = s[i + 1]
  BY HeadTailProperties, EmptySeq
<1>2. \A i \in 1..(Len(s) - 1) : Tail(s)[i] \in Elements(s)
  <2> TAKE i \in 1..(Len(s) - 1)
  <2>1. i + 1 \in 1..Len(s)
    BY <1>1
  <2>2. QED
    BY <1>1, <2>1 DEF Elements
<1>3. \A i \in 1..Len(s) : s[i] \in Elements(Tail(s)) \cup {Head(s)}
  <2> TAKE i \in 1..Len(s)
  <2>1. CASE i = 1
    BY <1>1, <2>1
  <2>2. CASE i # 1
    <3>1. i - 1 \in 1..(Len(s) - 1) /\ Tail(s)[i - 1] = s[i]
      BY <1>1, <2>2
    <3>2. QED
      BY <1>1, <3>1 DEF Elements
  <2>3. QED
    BY <2>1, <2>2
<1>4. Head(s) \in Elements(s)
  BY <1>1 DEF Elements
<1>5. QED
  BY <1>1, <1>2, <1>3, <1>4 DEF Elements

\* Rotating a list keeps its elements.
LEMMA RotationElements ==
  ASSUME NEW S, NEW s \in Seq(S), NEW n \in 0..Len(s)
  PROVE  Rotation(s, n) \in Seq(S) /\ Elements(Rotation(s, n)) = Elements(s)
<1> DEFINE a == SubSeq(s, n + 1, Len(s))
           b == SubSeq(s, 1, n)
<1>0. Len(s) \in Nat /\ n \in Nat /\ n <= Len(s)
  OBVIOUS
<1>1. a \in Seq(S) /\ Len(a) = Len(s) - n /\ \A i \in 1..(Len(s) - n) : a[i] = s[n + i]
  <2>1. \A i \in (n + 1)..Len(s) : s[i] \in S
    BY <1>0
  <2>2. a = [i \in 1..(Len(s) - n) |-> s[n + i]]
    BY <1>0
  <2>3. Len(s) - n \in Nat /\ \A i \in 1..(Len(s) - n) : s[n + i] \in S
    BY <1>0, <2>1
  <2> HIDE DEF a
  <2>4. a \in [1..(Len(s) - n) -> S]
    BY <2>2, <2>3
  <2>5. a \in Seq(S)
    BY <2>3, <2>4, SeqDef
  <2>6. Len(a) = Len(s) - n
    BY <2>3, <2>4, <2>5, LenProperties
  <2>7. QED
    BY <2>2, <2>5, <2>6
<1>2. b \in Seq(S) /\ Len(b) = n /\ \A i \in 1..n : b[i] = s[i]
  <2>1. b = [i \in 1..n |-> s[i]]
    BY <1>0
  <2>2. \A i \in 1..n : s[i] \in S
    BY <1>0
  <2> HIDE DEF b
  <2>3. b \in [1..n -> S]
    BY <2>1, <2>2
  <2>4. b \in Seq(S)
    BY <1>0, <2>3, SeqDef
  <2>5. Len(b) = n
    BY <1>0, <2>3, <2>4, LenProperties
  <2>6. QED
    BY <2>1, <2>4, <2>5
<1> HIDE DEF a, b
<1>3. Elements(a) \cup Elements(b) = Elements(s)
  <2>1. \A i \in 1..(Len(s) - n) : n + i \in 1..Len(s)
    BY <1>0
  <2>2. \A i \in 1..n : i \in 1..Len(s)
    BY <1>0
  <2>3. \A i \in 1..Len(s) : i \in 1..n \/ (i - n \in 1..(Len(s) - n) /\ n + (i - n) = i)
    BY <1>0
  <2>4. \A x \in Elements(s) : x \in Elements(a) \cup Elements(b)
    <3> SUFFICES ASSUME NEW i \in 1..Len(s) PROVE s[i] \in Elements(a) \cup Elements(b)
      BY SMTT(30) DEF Elements
    <3>1. CASE i \in 1..n
      <4>1. b[i] = s[i] /\ i \in 1..Len(b)
        BY <1>2, <3>1
      <4>2. QED
        BY <4>1 DEF Elements
    <3>2. CASE i \notin 1..n
      <4>1. i - n \in 1..Len(a) /\ a[i - n] = s[i]
        BY <1>1, <2>3, <3>2
      <4>2. QED
        BY <4>1 DEF Elements
    <3>3. QED
      BY <3>1, <3>2
  <2>5. \A x \in Elements(a) \cup Elements(b) : x \in Elements(s)
    BY <1>1, <1>2, <2>1, <2>2, SMTT(30) DEF Elements
  <2>6. QED
    BY <2>4, <2>5
<1>4. Rotation(s, n) = a \o b
  BY DEF Rotation, a, b
<1>5. a \o b \in Seq(S) /\ Elements(a \o b) = Elements(a) \cup Elements(b)
  BY <1>1, <1>2, ConcatElements
<1>6. QED
  BY <1>3, <1>4, <1>5

\* Shuffling or sorting a list keeps its elements.
LEMMA ReorderedElements ==
  ASSUME NEW S, NEW s \in Seq(S), NEW f \in Indices(s)
  PROVE  Reordered(s, f) \in Seq(S) /\ Elements(Reordered(s, f)) = Elements(s)
<1> DEFINE r == Reordered(s, f)
<1>1. /\ Len(s) \in Nat /\ f \in [1..Len(s) -> 1..Len(s)]
      /\ \A i \in 1..Len(s) : \E j \in 1..Len(s) : f[j] = i
  BY DEF Indices
<1>2. r = [i \in 1..Len(s) |-> s[f[i]]]
  BY DEF Reordered
<1>3. \A i \in 1..Len(s) : f[i] \in 1..Len(s) /\ s[f[i]] \in S
  BY <1>1, SMTT(30)
<1> HIDE DEF r
<1>4. r \in [1..Len(s) -> S]
  BY <1>2, <1>3
<1>5. r \in Seq(S)
  BY <1>1, <1>4, SeqDef, SMTT(30)
<1>6. Len(r) = Len(s)
  BY <1>1, <1>4, <1>5, LenProperties
<1>7. Elements(r) = Elements(s)
  <2>1. \A i \in 1..Len(s) : \E j \in 1..Len(s) : r[j] = s[i]
    BY <1>1, <1>2, SMTT(30)
  <2>2. \A i \in 1..Len(s) : \E j \in 1..Len(s) : r[i] = s[j]
    BY <1>2, <1>3
  <2>3. Elements(r) = { r[i] : i \in 1..Len(s) }
    BY <1>6 DEF Elements
  <2>4. \A x \in Elements(s) : x \in Elements(r)
    BY <2>1, <2>3, SMTT(30) DEF Elements
  <2>5. \A x \in Elements(r) : x \in Elements(s)
    BY <2>2, <2>3, ZenonT(30) DEF Elements
  <2>6. QED
    BY <2>4, <2>5, ZenonT(30)
<1>8. QED
  BY <1>5, <1>7 DEF r

----------------------------------------------------------------------------
(* Averages *)

\* A new average lies between the old one and the sample.
LEMMA EmaBetween ==
  ASSUME NEW p \in Nat, NEW s \in Nat, NEW n \in Ema(p, s)
  PROVE  /\ n \in Nat
         /\ (p <= n /\ n <= s) \/ (s <= n /\ n <= p)
<1> DEFINE x == 3 * s + 7 * p
<1>1. x \in Nat /\ x \div 10 \in Nat
  OBVIOUS
<1>2. n \in Nat /\ 10 * n - x \in -5..5
  BY <1>1 DEF Ema
<1>3. QED
  BY <1>2

\* Recording a sample keeps every average within the samples taken.
LEMMA RecordAverage ==
  ASSUME TypeOK, AverageWithinSamples, NEW u \in Upstreams, NEW s \in Samples,
         NEW n \in NewAverage(avg[u], s), avg' = [avg EXCEPT ![u] = n],
         took' = [took EXCEPT ![u] = took[u] \cup {s}]
  PROVE  /\ avg' \in [Upstreams -> Nat] /\ took' \in [Upstreams -> SUBSET Samples]
         /\ AverageWithinSamples'
<1> DEFINE T == took[u] \cup {s}
<1>1. s \in Nat /\ avg[u] \in Nat /\ T \subseteq Samples /\ Samples \subseteq Nat
  BY GroupAssumption DEF TypeOK
<1>2. n \in Nat /\ \E lo, hi \in T : lo <= n /\ n <= hi
  <2>1. CASE avg[u] = Untested
    BY <1>1, <2>1 DEF NewAverage
  <2>2. CASE avg[u] # Untested
    <3>1. PICK lo \in took[u], hi \in took[u] : lo <= avg[u] /\ avg[u] <= hi
      BY <2>2 DEF AverageWithinSamples
    <3>2. n \in Ema(avg[u], s)
      BY <2>2 DEF NewAverage
    <3>3. n \in Nat /\ ((avg[u] <= n /\ n <= s) \/ (s <= n /\ n <= avg[u]))
      BY <1>1, <3>2, EmaBetween
    <3>4. lo \in Nat /\ hi \in Nat
      BY <1>1, ZenonT(30)
    <3>5. \/ lo <= n /\ n <= s
          \/ s <= n /\ n <= hi
      BY <1>1, <3>1, <3>3, <3>4
    <3>6. QED
      BY <3>3, <3>5
  <2>3. QED
    BY <2>1, <2>2
<1>3. n # Untested
  <2>1. PICK hi \in T : n <= hi
    BY <1>2
  <2>2. hi \in Nat /\ hi < Untested /\ Untested \in Nat
    BY <1>1, GroupAssumption, ZenonT(30)
  <2>3. QED
    BY <1>2, <2>1, <2>2
<1>4. /\ avg' \in [Upstreams -> Nat] /\ took' \in [Upstreams -> SUBSET Samples]
      /\ avg'[u] = n /\ took'[u] = T
      /\ \A v \in Upstreams \ {u} : avg'[v] = avg[v] /\ took'[v] = took[v]
  BY <1>1, <1>2 DEF TypeOK
<1>5. AverageWithinSamples'
  <2> SUFFICES ASSUME NEW v \in Upstreams
      PROVE \/ took'[v] = {} /\ avg'[v] = Untested
            \/ /\ avg'[v] # Untested
               /\ \E lo, hi \in took'[v] : lo <= avg'[v] /\ avg'[v] <= hi
    BY ZenonT(30) DEF AverageWithinSamples
  <2>1. CASE v = u
    BY <1>2, <1>3, <1>4, <2>1
  <2>2. CASE v # u
    BY <1>4, <2>2 DEF AverageWithinSamples
  <2>3. QED
    BY <2>1, <2>2
<1>6. QED
  BY <1>4, <1>5

----------------------------------------------------------------------------
(* The inductive invariant *)

IInv == TypeOK /\ NoUpstreamLost /\ ErrorOnlyAfterAll /\ AverageWithinSamples

\* Nothing is being tried, and nothing is measured, initially.
LEMMA InitInvariant == Init => IInv
<1> SUFFICES ASSUME Init PROVE IInv
  OBVIOUS
<1>1. TypeOK
  BY GroupAssumption DEF Init, TypeOK
<1>2. NoUpstreamLost /\ ErrorOnlyAfterAll /\ AverageWithinSamples
  BY DEF Init, NoUpstreamLost, ErrorOnlyAfterAll, AverageWithinSamples
<1>3. QED
  BY <1>1, <1>2 DEF IInv

\* A step of query q that leaves the averages alone only has to be checked
\* for q.
LEMMA OneQuery ==
  ASSUME IInv, NEW q \in Queries,
         \A o \in Queries \ {q} :
           /\ pc'[o] = pc[o] /\ grp'[o] = grp[o] /\ rest'[o] = rest[o]
           /\ tested'[o] = tested[o] /\ untested'[o] = untested[o]
           /\ failed'[o] = failed[o] /\ result'[o] = result[o],
         pc'[q] = "try" => Elements(rest'[q]) \cup failed'[q] = Elements(Members[grp'[q]]),
         pc'[q] \in {"scan", "sort"} =>
           /\ Scanned(q)' <= Len(Members[grp'[q]])
           /\ Elements(tested'[q]) \cup Elements(untested'[q])
                = { Members[grp'[q]][i] : i \in 1..Scanned(q)' }
           /\ failed'[q] = {},
         pc'[q] = "sort" => Scanned(q)' = Len(Members[grp'[q]]),
         result'[q] = "err" => failed'[q] = Elements(Members[grp'[q]])
  PROVE  NoUpstreamLost' /\ ErrorOnlyAfterAll'
<1>1. NoUpstreamLost'
  <2> SUFFICES ASSUME NEW o \in Queries
      PROVE (LET m == Members[grp[o]] IN
               /\ pc[o] = "try" => Elements(rest[o]) \cup failed[o] = Elements(m)
               /\ pc[o] \in {"scan", "sort"} =>
                    /\ Scanned(o) <= Len(m)
                    /\ Elements(tested[o]) \cup Elements(untested[o])
                         = { m[i] : i \in 1..Scanned(o) }
                    /\ failed[o] = {}
               /\ pc[o] = "sort" => Scanned(o) = Len(m))'
    BY ZenonT(30) DEF NoUpstreamLost
  <2>1. CASE o = q
    BY <2>1
  <2>2. CASE o # q
    <3>1. /\ pc'[o] = pc[o] /\ grp'[o] = grp[o] /\ rest'[o] = rest[o]
          /\ tested'[o] = tested[o] /\ untested'[o] = untested[o]
          /\ failed'[o] = failed[o] /\ Scanned(o)' = Scanned(o)
      BY <2>2, ZenonT(30) DEF Scanned
    <3>2. /\ pc[o] = "try" => Elements(rest[o]) \cup failed[o] = Elements(Members[grp[o]])
          /\ pc[o] \in {"scan", "sort"} =>
               /\ Scanned(o) <= Len(Members[grp[o]])
               /\ Elements(tested[o]) \cup Elements(untested[o])
                    = { Members[grp[o]][i] : i \in 1..Scanned(o) }
               /\ failed[o] = {}
          /\ pc[o] = "sort" => Scanned(o) = Len(Members[grp[o]])
      BY ZenonT(30) DEF IInv, NoUpstreamLost
    <3>3. QED
      BY <3>1, <3>2
  <2>3. QED
    BY <2>1, <2>2
<1>2. ErrorOnlyAfterAll'
  BY DEF IInv, ErrorOnlyAfterAll
<1>3. QED
  BY <1>1, <1>2

\* The order a query starts with, or the empty lists it scans from, cover
\* the group.
LEMMA ArriveInvariant ==
  ASSUME IInv, NEW q \in Queries, NEW g \in Groups, Arrive(q, g)
  PROVE  IInv'
<1> DEFINE m == Members[g]
<1>1. m \in Seq(Upstreams) /\ CursorMod \in Nat \ {0} /\ Len(m) \in Nat
  BY GroupAssumption
<1>2. /\ grp' = [grp EXCEPT ![q] = g]
      /\ failed' = [failed EXCEPT ![q] = {}]
      /\ result' = [result EXCEPT ![q] = "none"]
      /\ tested' = [tested EXCEPT ![q] = <<>>]
      /\ untested' = [untested EXCEPT ![q] = <<>>]
      /\ UNCHANGED <<mode, up, avg, took, torn>>
  BY DEF Arrive
<1>3. AverageWithinSamples'
  BY <1>2 DEF IInv, AverageWithinSamples
<1>4. ASSUME NEW l \in Seq(Upstreams), Elements(l) = Elements(m),
             rest' = [rest EXCEPT ![q] = l], pc' = [pc EXCEPT ![q] = "try"],
             cursor' \in [Groups -> 0..(CursorMod - 1)]
      PROVE  IInv'
  <2>1. TypeOK'
    BY <1>2, <1>4, SMTT(30) DEF IInv, TypeOK
  <2>2. NoUpstreamLost' /\ ErrorOnlyAfterAll'
    <3>1. /\ pc'[q] = "try" /\ rest'[q] = l /\ failed'[q] = {} /\ grp'[q] = g
          /\ result'[q] = "none"
      BY <1>2, <1>4 DEF IInv, TypeOK
    <3>2. \A o \in Queries \ {q} :
           /\ pc'[o] = pc[o] /\ grp'[o] = grp[o] /\ rest'[o] = rest[o]
           /\ tested'[o] = tested[o] /\ untested'[o] = untested[o]
           /\ failed'[o] = failed[o] /\ result'[o] = result[o]
      BY <1>2, <1>4 DEF IInv, TypeOK
    <3>3. QED
      BY <1>4, <3>1, <3>2, OneQuery
  <2>3. QED
    BY <1>3, <2>1, <2>2 DEF IInv
<1>5. CASE mode = "Ordered"
  <2>1. rest' = [rest EXCEPT ![q] = m] /\ pc' = [pc EXCEPT ![q] = "try"] /\ cursor' = cursor
    BY <1>5 DEF Arrive
  <2>2. QED
    BY <1>1, <1>4, <2>1, ZenonT(30) DEF IInv, TypeOK
<1>6. CASE mode = "RoundRobin" /\ m = <<>>
  <2>1. rest' = [rest EXCEPT ![q] = m] /\ pc' = [pc EXCEPT ![q] = "try"] /\ cursor' = cursor
    BY <1>6 DEF Arrive
  <2>2. QED
    BY <1>1, <1>4, <2>1, ZenonT(30) DEF IInv, TypeOK
<1>7. CASE mode = "RoundRobin" /\ m # <<>>
  <2> DEFINE n == cursor[g] % Len(m)
             l == Rotation(m, n)
  <2>1. /\ rest' = [rest EXCEPT ![q] = l] /\ pc' = [pc EXCEPT ![q] = "try"]
        /\ cursor' = [cursor EXCEPT ![g] = Bump(cursor[g])]
    BY <1>7 DEF Arrive
  <2>2. cursor[g] \in Nat /\ Len(m) \in Nat \ {0}
    BY <1>1, <1>7 DEF IInv, TypeOK
  <2>3. n \in 0..Len(m)
    BY <2>2, Z3
  <2>4. l \in Seq(Upstreams) /\ Elements(l) = Elements(m)
    BY <1>1, <2>3, RotationElements, SMTT(30)
  <2>5. Bump(cursor[g]) \in 0..(CursorMod - 1)
    BY <1>1, <2>2, Z3 DEF Bump
  <2>6. cursor' \in [Groups -> 0..(CursorMod - 1)]
    BY <2>1, <2>5 DEF IInv, TypeOK
  <2> HIDE DEF l
  <2>7. QED
    BY <1>4, <2>1, <2>4, <2>6, ZenonT(30)
<1>8. CASE mode = "LoadBalance"
  <2>1. pc' = [pc EXCEPT ![q] = "scan"] /\ UNCHANGED <<cursor, rest>>
    BY <1>8 DEF Arrive
  <2>2. TypeOK'
    BY <1>2, <2>1 DEF IInv, TypeOK
  <2>3. NoUpstreamLost' /\ ErrorOnlyAfterAll'
    <3>1. /\ pc'[q] = "scan" /\ failed'[q] = {} /\ grp'[q] = g /\ result'[q] = "none"
          /\ tested'[q] = <<>> /\ untested'[q] = <<>>
      BY <1>2, <2>1 DEF IInv, TypeOK
    <3>2. Scanned(q)' = 0
      BY <3>1 DEF Scanned
    <3>3. Elements(tested'[q]) \cup Elements(untested'[q]) = { m[i] : i \in 1..Scanned(q)' }
      BY <3>1, <3>2, SMTT(30) DEF Elements
    <3>4. \A o \in Queries \ {q} :
           /\ pc'[o] = pc[o] /\ grp'[o] = grp[o] /\ rest'[o] = rest[o]
           /\ tested'[o] = tested[o] /\ untested'[o] = untested[o]
           /\ failed'[o] = failed[o] /\ result'[o] = result[o]
      BY <1>2, <2>1 DEF IInv, TypeOK
    <3>5. QED
      BY <1>1, <3>1, <3>2, <3>3, <3>4, OneQuery, SMTT(30)
  <2>4. QED
    BY <1>3, <2>2, <2>3 DEF IInv
<1>9. mode \in {"Ordered", "RoundRobin", "LoadBalance"}
  BY GroupAssumption DEF IInv, TypeOK
<1>10. QED
  BY <1>5, <1>6, <1>7, <1>8, <1>9

\* Facts of arithmetic, for steps that count the elements of two lists.
LEMMA Sum ==
  ASSUME NEW x \in Nat, NEW y \in Nat
  PROVE  x + y \in Nat /\ (x + 1) + y = (x + y) + 1 /\ x + (y + 1) = (x + y) + 1
  OBVIOUS

\* What the invariant says of a query inside `ordered`.
LEMMA Ordering ==
  ASSUME IInv, NEW q \in Queries, pc[q] \in {"scan", "sort"}
  PROVE  /\ Members[grp[q]] \in Seq(Upstreams) /\ Len(Members[grp[q]]) \in Nat
         /\ tested[q] \in Seq(Upstreams) /\ untested[q] \in Seq(Upstreams)
         /\ Len(tested[q]) \in Nat /\ Len(untested[q]) \in Nat
         /\ Scanned(q) \in Nat /\ Scanned(q) <= Len(Members[grp[q]])
         /\ Elements(tested[q]) \cup Elements(untested[q])
              = { Members[grp[q]][i] : i \in 1..Scanned(q) }
         /\ failed[q] = {}
<1>1. Members[grp[q]] \in Seq(Upstreams) /\ tested[q] \in Seq(Upstreams)
      /\ untested[q] \in Seq(Upstreams)
  BY GroupAssumption DEF IInv, TypeOK
<1>2. Len(Members[grp[q]]) \in Nat /\ Len(tested[q]) \in Nat /\ Len(untested[q]) \in Nat
  BY <1>1, LenProperties
<1>3. Scanned(q) \in Nat
  BY <1>2, Sum, Zenon DEF Scanned
<1>4. QED
  BY <1>1, <1>2, <1>3, ZenonT(30) DEF IInv, NoUpstreamLost

\* Scanning one upstream adds it to one of the two lists.
LEMMA ScanInvariant ==
  ASSUME IInv, NEW q \in Queries, Scan(q)
  PROVE  IInv'
<1> DEFINE m == Members[grp[q]]
           k == Scanned(q)
           u == m[k + 1]
<1>1. /\ pc[q] = "scan" /\ k < Len(m)
      /\ UNCHANGED <<mode, up, avg, took, cursor, pc, grp, torn, rest, failed, result>>
  BY DEF Scan
<1>2. /\ m \in Seq(Upstreams) /\ Len(m) \in Nat /\ k \in Nat
      /\ tested[q] \in Seq(Upstreams) /\ untested[q] \in Seq(Upstreams)
      /\ Len(tested[q]) \in Nat /\ Len(untested[q]) \in Nat
      /\ Elements(tested[q]) \cup Elements(untested[q]) = { m[i] : i \in 1..k }
      /\ failed[q] = {}
  BY <1>1, Ordering, ZenonT(30)
<1>3. u \in Upstreams
  BY <1>1, <1>2, SMTT(30)
<1>4. /\ tested' \in [Queries -> Seq(Upstreams)] /\ untested' \in [Queries -> Seq(Upstreams)]
      /\ \A o \in Queries \ {q} : tested'[o] = tested[o] /\ untested'[o] = untested[o]
      /\ Elements(tested'[q]) \cup Elements(untested'[q]) = { m[i] : i \in 1..k } \cup {u}
      /\ Scanned(q)' = k + 1
  <2>1. CASE avg[u] # Untested
    <3>1. tested' = [tested EXCEPT ![q] = Append(tested[q], u)] /\ untested' = untested
      BY <2>1 DEF Scan
    <3>2. /\ Append(tested[q], u) \in Seq(Upstreams)
          /\ Len(Append(tested[q], u)) = Len(tested[q]) + 1
          /\ Elements(Append(tested[q], u)) = Elements(tested[q]) \cup {u}
      BY <1>2, <1>3, AppendElements
    <3> HIDE DEF u
    <3>3. tested'[q] = Append(tested[q], u)
      BY <3>1 DEF IInv, TypeOK
    <3>4. Len(tested'[q]) = Len(tested[q]) + 1 /\ untested'[q] = untested[q]
      BY <3>1, <3>2, <3>3
    <3>5. Scanned(q)' = k + 1
      <4>1. Scanned(q)' = (Len(tested[q]) + 1) + Len(untested[q])
        BY <3>4 DEF Scanned
      <4>2. (Len(tested[q]) + 1) + Len(untested[q]) = (Len(tested[q]) + Len(untested[q])) + 1
        BY <1>2, Sum, Zenon
      <4>3. QED
        BY <4>1, <4>2, Zenon DEF Scanned
    <3>6. QED
      BY <1>2, <3>1, <3>2, <3>3, <3>5, SMTT(30) DEF IInv, TypeOK
  <2>2. CASE avg[u] = Untested
    <3>1. untested' = [untested EXCEPT ![q] = Append(untested[q], u)] /\ tested' = tested
      BY <2>2, SMTT(30) DEF Scan
    <3>2. /\ Append(untested[q], u) \in Seq(Upstreams)
          /\ Len(Append(untested[q], u)) = Len(untested[q]) + 1
          /\ Elements(Append(untested[q], u)) = Elements(untested[q]) \cup {u}
      BY <1>2, <1>3, AppendElements, SMTT(30)
    <3> HIDE DEF u
    <3>3. untested'[q] = Append(untested[q], u)
      BY <3>1 DEF IInv, TypeOK
    <3>4. Len(untested'[q]) = Len(untested[q]) + 1 /\ tested'[q] = tested[q]
      BY <3>1, <3>2, <3>3
    <3>5. Scanned(q)' = k + 1
      <4>1. Scanned(q)' = Len(tested[q]) + (Len(untested[q]) + 1)
        BY <3>4, SMTT(30) DEF Scanned
      <4>2. Len(tested[q]) + (Len(untested[q]) + 1) = (Len(tested[q]) + Len(untested[q])) + 1
        BY <1>2, Sum, Zenon
      <4>3. QED
        BY <4>1, <4>2, Zenon DEF Scanned
    <3>6. QED
      BY <1>2, <3>1, <3>2, <3>3, <3>5, SMTT(30) DEF IInv, TypeOK
  <2>3. QED
    BY <2>1, <2>2, SMTT(30)
<1>5. { m[i] : i \in 1..k } \cup {u} = { m[i] : i \in 1..(k + 1) }
  <2>1. 1..(k + 1) = (1..k) \cup {k + 1}
    BY <1>2
  <2>2. QED
    BY <2>1
<1>6. TypeOK'
  BY <1>1, <1>4, SMTT(30) DEF IInv, TypeOK
<1>7. AverageWithinSamples'
  BY <1>1 DEF IInv, AverageWithinSamples
<1>8. NoUpstreamLost' /\ ErrorOnlyAfterAll'
  <2>1. /\ pc'[q] = "scan" /\ grp'[q] = grp[q] /\ failed'[q] = {}
        /\ result'[q] = "err" => failed'[q] = Elements(m)
    BY <1>1, <1>2 DEF IInv, ErrorOnlyAfterAll
  <2>2. Scanned(q)' <= Len(m)
    BY <1>1, <1>2, <1>4, SMTT(30)
  <2> HIDE DEF u, k
  <2>3. /\ Scanned(q)' <= Len(Members[grp'[q]])
        /\ Elements(tested'[q]) \cup Elements(untested'[q])
             = { Members[grp'[q]][i] : i \in 1..Scanned(q)' }
        /\ failed'[q] = {}
    <3>1. Members[grp'[q]] = m
      BY <2>1
    <3> HIDE DEF m
    <3>2. QED
      BY <1>4, <1>5, <2>1, <2>2, <3>1, Zenon
  <2>4. \A o \in Queries \ {q} :
         /\ pc'[o] = pc[o] /\ grp'[o] = grp[o] /\ rest'[o] = rest[o]
         /\ tested'[o] = tested[o] /\ untested'[o] = untested[o]
         /\ failed'[o] = failed[o] /\ result'[o] = result[o]
    BY <1>1, <1>4, SMTT(30)
  <2>5. QED
    BY <2>1, <2>3, <2>4, OneQuery, Zenon
<1>9. QED
  BY <1>6, <1>7, <1>8 DEF IInv

\* The sort starts when the whole group has been scanned.
LEMMA SortBeginInvariant ==
  ASSUME IInv, NEW q \in Queries, SortBegin(q)
  PROVE  IInv'
<1>1. /\ pc[q] = "scan" /\ Scanned(q) = Len(Members[grp[q]])
      /\ pc' = [pc EXCEPT ![q] = "sort"] /\ torn' = [torn EXCEPT ![q] = FALSE]
      /\ UNCHANGED <<mode, up, avg, took, cursor, grp, tested, untested, rest, failed, result>>
  BY DEF SortBegin
<1>2. TypeOK'
  BY <1>1 DEF IInv, TypeOK
<1>3. AverageWithinSamples'
  BY <1>1 DEF IInv, AverageWithinSamples
<1>4. NoUpstreamLost' /\ ErrorOnlyAfterAll'
  <2>1. Scanned(q)' = Scanned(q)
    BY <1>1 DEF Scanned
  <2>2. /\ Scanned(q) <= Len(Members[grp[q]]) /\ failed[q] = {}
        /\ Elements(tested[q]) \cup Elements(untested[q])
             = { Members[grp[q]][i] : i \in 1..Scanned(q) }
    BY <1>1, Ordering, ZenonT(30)
  <2>3. /\ pc'[q] = "sort" /\ grp'[q] = grp[q] /\ failed'[q] = failed[q]
        /\ tested'[q] = tested[q] /\ untested'[q] = untested[q]
        /\ result'[q] = "err" => failed'[q] = Elements(Members[grp'[q]])
    BY <1>1 DEF IInv, TypeOK, ErrorOnlyAfterAll
  <2>4. \A o \in Queries \ {q} :
         /\ pc'[o] = pc[o] /\ grp'[o] = grp[o] /\ rest'[o] = rest[o]
         /\ tested'[o] = tested[o] /\ untested'[o] = untested[o]
         /\ failed'[o] = failed[o] /\ result'[o] = result[o]
    BY <1>1 DEF IInv, TypeOK
  <2>5. /\ Scanned(q)' = Len(Members[grp'[q]]) /\ Scanned(q)' <= Len(Members[grp'[q]])
        /\ Elements(tested'[q]) \cup Elements(untested'[q])
             = { Members[grp'[q]][i] : i \in 1..Scanned(q)' }
        /\ failed'[q] = {}
    BY <1>1, <2>1, <2>2, <2>3, Zenon
  <2>6. QED
    BY <2>3, <2>4, <2>5, OneQuery, Zenon
<1>5. QED
  BY <1>2, <1>3, <1>4 DEF IInv

\* However the sort comes out, the order is a rearrangement of the group.
LEMMA SortEndInvariant ==
  ASSUME IInv, NEW q \in Queries, SortEnd(q)
  PROVE  IInv'
<1>0. PICK a \in Shuffles(untested[q]), b \in SortResults(q) :
        rest' = [rest EXCEPT ![q] = a \o b]
  BY ZenonT(30) DEF SortEnd
<1>1. /\ pc[q] = "sort" /\ rest' = [rest EXCEPT ![q] = a \o b]
      /\ pc' = [pc EXCEPT ![q] = "try"]
      /\ UNCHANGED <<mode, up, avg, took, cursor, grp, tested, untested, torn, failed, result>>
  BY <1>0, ZenonT(30) DEF SortEnd
<1>2. /\ Members[grp[q]] \in Seq(Upstreams)
      /\ tested[q] \in Seq(Upstreams) /\ untested[q] \in Seq(Upstreams)
      /\ Elements(tested[q]) \cup Elements(untested[q])
           = { Members[grp[q]][i] : i \in 1..Scanned(q) }
      /\ failed[q] = {}
  BY <1>1, Ordering, ZenonT(30)
<1>3. Scanned(q) = Len(Members[grp[q]])
  BY <1>1 DEF IInv, NoUpstreamLost
<1>4. a \in Seq(Upstreams) /\ Elements(a) = Elements(untested[q])
  BY <1>0, <1>2, ReorderedElements, SMTT(30) DEF Shuffles
<1>5. b \in Seq(Upstreams) /\ Elements(b) = Elements(tested[q])
  <2>1. PICK f \in Indices(tested[q]) : b = Reordered(tested[q], f)
    BY <1>0 DEF SortResults, Shuffles, Sorted
  <2>2. QED
    BY <1>2, <2>1, ReorderedElements, SMTT(30)
<1>6. a \o b \in Seq(Upstreams) /\ Elements(a \o b) = Elements(a) \cup Elements(b)
  BY <1>4, <1>5, ConcatElements
<1>7. Elements(a \o b) = Elements(Members[grp[q]])
  BY <1>2, <1>3, <1>4, <1>5, <1>6, Zenon DEF Elements
<1>8. TypeOK'
  BY <1>1, <1>6, SMTT(30) DEF IInv, TypeOK
<1>9. AverageWithinSamples'
  BY <1>1 DEF IInv, AverageWithinSamples
<1>10. NoUpstreamLost' /\ ErrorOnlyAfterAll'
  <2>1. /\ pc'[q] = "try" /\ rest'[q] = a \o b /\ grp'[q] = grp[q] /\ failed'[q] = {}
        /\ result'[q] = "err" => failed'[q] = Elements(Members[grp'[q]])
    BY <1>1, <1>2, SMTT(30) DEF IInv, TypeOK, ErrorOnlyAfterAll
  <2>2. Elements(rest'[q]) \cup failed'[q] = Elements(Members[grp'[q]])
    <3>1. Elements(rest'[q]) = Elements(Members[grp'[q]])
      BY <1>7, <2>1, ZenonT(30)
    <3>2. QED
      BY <2>1, <3>1, ZenonT(30)
  <2>3. \A o \in Queries \ {q} :
         /\ pc'[o] = pc[o] /\ grp'[o] = grp[o] /\ rest'[o] = rest[o]
         /\ tested'[o] = tested[o] /\ untested'[o] = untested[o]
         /\ failed'[o] = failed[o] /\ result'[o] = result[o]
    BY <1>1 DEF IInv, TypeOK
  <2>4. QED
    BY <2>1, <2>2, <2>3, OneQuery, ZenonT(30)
<1>11. QED
  BY <1>8, <1>9, <1>10 DEF IInv

\* A sort that panics ends the query, which has failed no upstream.
LEMMA SortPanicInvariant ==
  ASSUME IInv, NEW q \in Queries, SortPanic(q)
  PROVE  IInv'
<1>1. /\ result' = [result EXCEPT ![q] = "panic"] /\ pc' = [pc EXCEPT ![q] = "idle"]
      /\ tested' = [tested EXCEPT ![q] = <<>>] /\ untested' = [untested EXCEPT ![q] = <<>>]
      /\ rest' = [rest EXCEPT ![q] = <<>>]
      /\ UNCHANGED <<mode, up, avg, took, cursor, grp, torn, failed>>
  BY DEF SortPanic, DropLists
<1>2. TypeOK'
  BY <1>1 DEF IInv, TypeOK
<1>3. AverageWithinSamples'
  BY <1>1 DEF IInv, AverageWithinSamples
<1>4. NoUpstreamLost' /\ ErrorOnlyAfterAll'
  <2>1. pc'[q] = "idle" /\ result'[q] = "panic"
    BY <1>1 DEF IInv, TypeOK
  <2>2. \A o \in Queries \ {q} :
         /\ pc'[o] = pc[o] /\ grp'[o] = grp[o] /\ rest'[o] = rest[o]
         /\ tested'[o] = tested[o] /\ untested'[o] = untested[o]
         /\ failed'[o] = failed[o] /\ result'[o] = result[o]
    BY <1>1 DEF IInv, TypeOK
  <2>3. /\ pc'[q] # "try" /\ pc'[q] # "sort" /\ result'[q] # "err"
        /\ pc'[q] \notin {"scan", "sort"}
    BY <2>1
  <2>4. QED
    BY <2>2, <2>3, OneQuery, ZenonT(60)
<1>5. QED
  BY <1>2, <1>3, <1>4 DEF IInv

\* A success ends the query and records a sample.
LEMMA AttemptOkInvariant ==
  ASSUME IInv, NEW q \in Queries, NEW s \in Samples, AttemptOk(q, s)
  PROVE  IInv'
<1> DEFINE u == Head(rest[q])
<1>1. /\ pc[q] = "try" /\ rest[q] # <<>>
      /\ result' = [result EXCEPT ![q] = "ok"] /\ pc' = [pc EXCEPT ![q] = "idle"]
      /\ failed' = [failed EXCEPT ![q] = {}]
      /\ tested' = [tested EXCEPT ![q] = <<>>] /\ untested' = [untested EXCEPT ![q] = <<>>]
      /\ rest' = [rest EXCEPT ![q] = <<>>]
      /\ UNCHANGED <<mode, up, cursor, grp>>
  BY DEF AttemptOk, DropLists
<1>2. u \in Upstreams
  BY <1>1, TailElements DEF IInv, TypeOK
<1>3. /\ took' = [took EXCEPT ![u] = took[u] \cup {s}]
      /\ \E n \in NewAverage(avg[u], s) : avg' = [avg EXCEPT ![u] = n]
  BY ZenonT(30) DEF AttemptOk, record
<1>4. /\ avg' \in [Upstreams -> Nat] /\ took' \in [Upstreams -> SUBSET Samples]
      /\ AverageWithinSamples'
  BY <1>2, <1>3, RecordAverage, ZenonT(30) DEF IInv
<1>5. torn' \in [Queries -> BOOLEAN]
  <2>1. torn' = [o \in Queries |->
                   torn[o] \/ (pc[o] = "sort" /\ u \in Elements(tested[o]))]
    BY SMTT(30) DEF AttemptOk, record
  <2>2. QED
    BY <2>1, Zenon
<1>6. TypeOK'
  <2>1. /\ tested' \in [Queries -> Seq(Upstreams)]
        /\ untested' \in [Queries -> Seq(Upstreams)]
        /\ rest' \in [Queries -> Seq(Upstreams)]
    BY <1>1 DEF IInv, TypeOK
  <2>2. /\ pc' \in [Queries -> {"idle", "scan", "sort", "try"}]
        /\ failed' \in [Queries -> SUBSET Upstreams]
        /\ result' \in [Queries -> {"none", "ok", "err", "panic"}]
    BY <1>1 DEF IInv, TypeOK
  <2>3. /\ mode' \in Modes /\ up' \subseteq Upstreams /\ grp' \in [Queries -> Groups]
        /\ cursor' \in [Groups -> 0..(CursorMod - 1)]
    BY <1>1 DEF IInv, TypeOK
  <2>4. QED
    BY <1>4, <1>5, <2>1, <2>2, <2>3 DEF TypeOK
<1>7. NoUpstreamLost' /\ ErrorOnlyAfterAll'
  <2>1. pc'[q] = "idle" /\ result'[q] = "ok"
    BY <1>1 DEF IInv, TypeOK
  <2>2. \A o \in Queries \ {q} :
         /\ pc'[o] = pc[o] /\ grp'[o] = grp[o] /\ rest'[o] = rest[o]
         /\ tested'[o] = tested[o] /\ untested'[o] = untested[o]
         /\ failed'[o] = failed[o] /\ result'[o] = result[o]
    BY <1>1 DEF IInv, TypeOK
  <2>3. pc'[q] # "try" /\ pc'[q] # "sort" /\ result'[q] # "err"
    BY <2>1
  <2>4. pc'[q] \notin {"scan", "sort"}
    BY <2>1
  <2>5. QED
    BY <2>2, <2>3, <2>4, OneQuery, ZenonT(60)
<1>8. QED
  BY <1>4, <1>6, <1>7 DEF IInv

\* A failure moves one upstream from those left to those that failed.
LEMMA AttemptErrInvariant ==
  ASSUME IInv, NEW q \in Queries, AttemptErr(q)
  PROVE  IInv'
<1>1. /\ pc[q] = "try" /\ rest[q] # <<>>
      /\ rest' = [rest EXCEPT ![q] = Tail(rest[q])]
      /\ failed' = [failed EXCEPT ![q] = failed[q] \cup {Head(rest[q])}]
      /\ UNCHANGED <<mode, up, avg, took, cursor, pc, grp, tested, untested, torn, result>>
  BY DEF AttemptErr
<1>2. /\ Head(rest[q]) \in Upstreams /\ Tail(rest[q]) \in Seq(Upstreams)
      /\ Elements(rest[q]) = Elements(Tail(rest[q])) \cup {Head(rest[q])}
  BY <1>1, TailElements DEF IInv, TypeOK
<1>3. TypeOK'
  BY <1>1, <1>2, SMTT(30) DEF IInv, TypeOK
<1>4. AverageWithinSamples'
  BY <1>1 DEF IInv, AverageWithinSamples
<1>5. NoUpstreamLost' /\ ErrorOnlyAfterAll'
  <2>1. /\ pc'[q] = "try" /\ grp'[q] = grp[q] /\ rest'[q] = Tail(rest[q])
        /\ failed'[q] = failed[q] \cup {Head(rest[q])} /\ result'[q] = result[q]
    BY <1>1 DEF IInv, TypeOK
  <2>2. Elements(rest[q]) \cup failed[q] = Elements(Members[grp[q]])
    BY <1>1, SMTT(30) DEF IInv, NoUpstreamLost
  <2>3. Elements(rest'[q]) \cup failed'[q] = Elements(Members[grp'[q]])
    BY <1>2, <2>1, <2>2
  <2>4. result'[q] = "err" => failed'[q] = Elements(Members[grp'[q]])
    <3>1. Head(rest[q]) \in Elements(Members[grp[q]])
      BY <1>2, <2>2
    <3>2. QED
      BY <2>1, <3>1, ZenonT(30) DEF IInv, ErrorOnlyAfterAll
  <2>5. \A o \in Queries \ {q} :
         /\ pc'[o] = pc[o] /\ grp'[o] = grp[o] /\ rest'[o] = rest[o]
         /\ tested'[o] = tested[o] /\ untested'[o] = untested[o]
         /\ failed'[o] = failed[o] /\ result'[o] = result[o]
    BY <1>1 DEF IInv, TypeOK
  <2>6. QED
    BY <2>1, <2>3, <2>4, <2>5, OneQuery, ZenonT(30)
<1>6. QED
  BY <1>3, <1>4, <1>5 DEF IInv

\* With nothing left to try, what failed is the whole group.
LEMMA GiveUpInvariant ==
  ASSUME IInv, NEW q \in Queries, GiveUp(q)
  PROVE  IInv'
<1>1. /\ pc[q] = "try" /\ rest[q] = <<>>
      /\ result' = [result EXCEPT ![q] = "err"] /\ pc' = [pc EXCEPT ![q] = "idle"]
      /\ tested' = [tested EXCEPT ![q] = <<>>] /\ untested' = [untested EXCEPT ![q] = <<>>]
      /\ rest' = [rest EXCEPT ![q] = <<>>]
      /\ UNCHANGED <<mode, up, avg, took, cursor, grp, torn, failed>>
  BY DEF GiveUp, DropLists
<1>2. TypeOK'
  BY <1>1 DEF IInv, TypeOK
<1>3. AverageWithinSamples'
  BY <1>1 DEF IInv, AverageWithinSamples
<1>4. NoUpstreamLost' /\ ErrorOnlyAfterAll'
  <2>1. pc'[q] = "idle" /\ grp'[q] = grp[q] /\ failed'[q] = failed[q]
    BY <1>1 DEF IInv, TypeOK
  <2>2. failed[q] = Elements(Members[grp[q]])
    <3>1. Elements(rest[q]) = {}
      BY <1>1 DEF Elements
    <3>2. QED
      BY <1>1, <3>1, ZenonT(30) DEF IInv, NoUpstreamLost
  <2>3. \A o \in Queries \ {q} :
         /\ pc'[o] = pc[o] /\ grp'[o] = grp[o] /\ rest'[o] = rest[o]
         /\ tested'[o] = tested[o] /\ untested'[o] = untested[o]
         /\ failed'[o] = failed[o] /\ result'[o] = result[o]
    BY <1>1 DEF IInv, TypeOK
  <2>4. QED
    BY <2>1, <2>2, <2>3, OneQuery, SMTT(30)
<1>5. QED
  BY <1>2, <1>3, <1>4 DEF IInv

\* Every step preserves the inductive invariant.
LEMMA NextInvariant == IInv /\ [Next]_vars => IInv'
<1> SUFFICES ASSUME IInv, [Next]_vars PROVE IInv'
  OBVIOUS
<1>1. ASSUME NEW q \in Queries, Step(q) PROVE IInv'
  BY <1>1, ScanInvariant, SortBeginInvariant, SortEndInvariant, SortPanicInvariant, AttemptOkInvariant,
     AttemptErrInvariant, GiveUpInvariant DEF Step
<1>2. ASSUME NEW q \in Queries, NEW g \in Groups, Arrive(q, g) PROVE IInv'
  BY <1>2, ArriveInvariant
<1>3. ASSUME up' \subseteq Upstreams,
             UNCHANGED <<mode, avg, took, cursor, pc, grp, tested, untested, torn, rest, failed, result>>
      PROVE  IInv'
  BY <1>3, SMTT(30) DEF IInv, TypeOK, NoUpstreamLost, ErrorOnlyAfterAll, AverageWithinSamples, Scanned
<1>4. ASSUME NEW u \in Upstreams, Toggle(u) PROVE IInv'
  BY <1>3, <1>4, SMTT(30) DEF Toggle, IInv, TypeOK
<1>5. CASE UNCHANGED vars
  BY <1>3, <1>5, SMTT(30) DEF vars, IInv, TypeOK
<1>6. QED
  BY <1>1, <1>2, <1>4, <1>5 DEF Next

\* The variables keep their types.
THEOREM TypeCorrect == Spec => []TypeOK
<1>1. IInv => TypeOK
  BY DEF IInv
<1>2. QED
  BY <1>1, InitInvariant, NextInvariant, PTL DEF Spec

\* No ordering of a group, in any mode and under any interleaving, loses an
\* upstream or brings in a foreign one.
THEOREM OrderingsAreComplete == Spec => []NoUpstreamLost
<1>1. IInv => NoUpstreamLost
  BY DEF IInv
<1>2. QED
  BY <1>1, InitInvariant, NextInvariant, PTL DEF Spec

\* A query fails only after every upstream of its group failed it.
THEOREM FailoverIsComplete == Spec => []ErrorOnlyAfterAll
<1>1. IInv => ErrorOnlyAfterAll
  BY DEF IInv
<1>2. QED
  BY <1>1, InitInvariant, NextInvariant, PTL DEF Spec

\* An average lies between two latencies of its own upstream and is
\* `u64::MAX` exactly until the first exchange has completed.
THEOREM AveragesStayWithinSamples == Spec => []AverageWithinSamples
<1>1. IInv => AverageWithinSamples
  BY DEF IInv
<1>2. QED
  BY <1>1, InitInvariant, NextInvariant, PTL DEF Spec

----------------------------------------------------------------------------
(* Round-robin *)

LEMMA DivMod ==
  ASSUME NEW c \in Nat, NEW n \in Nat \ {0}
  PROVE  c % n \in 0..(n - 1) /\ c \div n \in Nat /\ c = n * (c \div n) + (c % n)
<1>1. c % n \in 0..(n - 1) /\ c \div n \in Int
  OBVIOUS
<1>2. c = n * (c \div n) + (c % n)
  BY SMTT(30)
<1>3. c \div n >= 0
  BY <1>1, <1>2, SMTT(30)
<1>4. QED
  BY <1>1, <1>2, <1>3

LEMMA DivModUnique ==
  ASSUME NEW n \in Nat \ {0}, NEW a \in Int, NEW b \in Int,
         NEW r \in 0..(n - 1), NEW s \in 0..(n - 1), n * a + r = n * b + s
  PROVE  a = b /\ r = s
<1>1. n * (a - b) = s - r
  BY SMTT(30)
<1>2. CASE a - b >= 1
  <2>1. n * (a - b) >= n
    BY <1>2, SMTT(30)
  <2>2. QED
    BY <1>1, <2>1
<1>3. CASE a - b <= -1
  <2>1. n * (a - b) <= -n
    BY <1>3, SMTT(30)
  <2>2. QED
    BY <1>1, <2>1
<1>4. CASE a = b
  BY <1>4
<1>5. QED
  BY <1>2, <1>3, <1>4

LEMMA NextMod ==
  ASSUME NEW c \in Nat, NEW n \in Nat \ {0}
  PROVE  IF (c % n) + 1 = n
         THEN (c + 1) % n = 0 /\ (c + 1) \div n = (c \div n) + 1
         ELSE (c + 1) % n = (c % n) + 1 /\ (c + 1) \div n = c \div n
<1> DEFINE q == c \div n
           r == c % n
           d == (c + 1) \div n
           s == (c + 1) % n
<1>1. r \in 0..(n - 1) /\ q \in Nat /\ c = n * q + r
  BY DivMod, ZenonT(30)
<1>2. s \in 0..(n - 1) /\ d \in Nat /\ c + 1 = n * d + s
  <2>1. c + 1 \in Nat
    OBVIOUS
  <2>2. QED
    BY <2>1, DivMod, ZenonT(30)
<1> HIDE DEF q, r, d, s
<1>3. CASE r + 1 = n
  <2>1. n * (q + 1) + 0 = n * d + s /\ 0 \in 0..(n - 1) /\ q + 1 \in Int
    BY <1>1, <1>2, <1>3, SMTT(30)
  <2>2. s = 0 /\ d = q + 1
    BY <1>2, <2>1, DivModUnique
  <2>3. QED
    BY <1>3, <2>2, ZenonT(30) DEF q, r, d, s
<1>4. CASE r + 1 # n
  <2>1. n * q + (r + 1) = n * d + s /\ r + 1 \in 0..(n - 1)
    BY <1>1, <1>2, <1>4, SMTT(30)
  <2>2. s = r + 1 /\ d = q
    BY <1>1, <1>2, <2>1, DivModUnique
  <2>3. QED
    BY <1>4, <2>2, ZenonT(30) DEF q, r, d, s
<1>5. QED
  BY <1>3, <1>4

LEMMA ZeroMod ==
  ASSUME NEW n \in Nat \ {0}
  PROVE  0 % n = 0 /\ 0 \div n = 0
OBVIOUS

LEMMA SmallMod ==
  ASSUME NEW n \in Nat \ {0}, NEW c \in 0..(n - 1)
  PROVE  c % n = c
<1>1. c \in Nat
  OBVIOUS
<1>2. c % n \in 0..(n - 1) /\ c \div n \in Nat /\ c = n * (c \div n) + (c % n)
  BY <1>1, DivMod, ZenonT(30)
<1>3. n * 0 + c = n * (c \div n) + (c % n) /\ 0 \in Int
  BY <1>2
<1>4. QED
  BY <1>2, <1>3, DivModUnique

\* What place i of a group of n has more of than the least favoured place, when
\* b queries have begun: one for every lap of the cursor that ended in the middle
\* of a round, and one if the round under way has passed it.
Extra(n, b, i) ==
  (IF i - 1 < CursorMod % n THEN b \div CursorMod ELSE 0)
    + (IF i - 1 < (b % CursorMod) % n THEN 1 ELSE 0)

LEMMA BumpedCursor ==
  ASSUME NEW b \in Nat
  PROVE  /\ b % CursorMod \in 0..(CursorMod - 1) /\ b \div CursorMod \in Nat
         /\ Bump(b % CursorMod) = (b + 1) % CursorMod
         /\ IF (b % CursorMod) + 1 = CursorMod
            THEN (b + 1) % CursorMod = 0 /\ (b + 1) \div CursorMod = (b \div CursorMod) + 1
            ELSE (b + 1) % CursorMod = (b % CursorMod) + 1 /\ (b + 1) \div CursorMod = b \div CursorMod
<1> DEFINE M == CursorMod
           c == b % M
<1>1. M \in Nat \ {0}
  BY GroupAssumption
<1> HIDE DEF M
<1>2. c \in 0..(M - 1) /\ b \div M \in Nat /\ c \in Nat
  <2>1. b % M \in 0..(M - 1) /\ b \div M \in Nat
    BY <1>1, DivMod, ZenonT(30)
  <2>2. QED
    BY <1>1, <2>1
<1> HIDE DEF c
<1>3. c % M = c
  BY <1>1, <1>2, SmallMod
<1>4. IF c + 1 = M THEN (c + 1) % M = 0 ELSE (c + 1) % M = c + 1
  <2>1. IF (c % M) + 1 = M THEN (c + 1) % M = 0 ELSE (c + 1) % M = (c % M) + 1
    BY <1>1, <1>2, NextMod, ZenonT(30)
  <2>2. QED
    BY <1>3, <2>1, ZenonT(30)
<1>5. IF c + 1 = M THEN (b + 1) % M = 0 /\ (b + 1) \div M = (b \div M) + 1
      ELSE (b + 1) % M = c + 1 /\ (b + 1) \div M = b \div M
  BY <1>1, NextMod, ZenonT(30) DEF c
<1>6. QED
  BY <1>2, <1>4, <1>5, ZenonT(30) DEF Bump, c, M

\* The next query begins where the round has come to.
LEMMA EvenStep ==
  ASSUME NEW n \in Nat \ {0}, NEW b \in Nat, NEW k \in Nat
  PROVE  \E j \in Nat : \A i \in 1..n :
           (k + Extra(n, b, i)) + (IF i = ((b % CursorMod) % n) + 1 THEN 1 ELSE 0)
             = j + Extra(n, b + 1, i)
<1> DEFINE M  == CursorMod
           c  == b % M
           w  == b \div M
           c2 == (b + 1) % M
           w2 == (b + 1) \div M
           r  == c % n
           r2 == c2 % n
           R  == M % n
           x(i) == (k + ((IF i - 1 < R THEN w ELSE 0) + (IF i - 1 < r THEN 1 ELSE 0)))
                     + (IF i = r + 1 THEN 1 ELSE 0)
           y(i) == (IF i - 1 < R THEN w2 ELSE 0) + (IF i - 1 < r2 THEN 1 ELSE 0)
<1>1. M \in Nat \ {0} /\ c \in 0..(M - 1) /\ c \in Nat /\ w \in Nat
  BY GroupAssumption, BumpedCursor
<1>2. IF c + 1 = M THEN c2 = 0 /\ w2 = w + 1 ELSE c2 = c + 1 /\ w2 = w
  BY BumpedCursor, ZenonT(30)
<1>3. r \in 0..(n - 1) /\ R \in 0..(n - 1) /\ 0 % n = 0
  BY <1>1, DivMod, ZeroMod
<1>4. IF r + 1 = n THEN (c + 1) % n = 0 ELSE (c + 1) % n = r + 1
  BY <1>1, NextMod, ZenonT(30)
<1> HIDE DEF M, c, w, c2, w2
<1>5. c + 1 = M => r2 = 0 /\ w2 = w + 1 /\ R = IF r + 1 = n THEN 0 ELSE r + 1
  BY <1>2, <1>3, <1>4, ZenonT(30)
<1>6. c + 1 # M => w2 = w /\ r2 = IF r + 1 = n THEN 0 ELSE r + 1
  BY <1>2, <1>4, ZenonT(30)
<1> HIDE DEF r, r2, R
<1>7. \E j \in Nat : \A i \in 1..n : x(i) = j + y(i)
  <2>1. CASE r + 1 = n
    <3>1. \A i \in 1..n : x(i) = (k + 1) + y(i)
      BY <1>1, <1>3, <1>5, <1>6, <2>1
    <3>2. k + 1 \in Nat
      OBVIOUS
    <3> HIDE DEF x, y
    <3>3. QED
      BY <3>1, <3>2
  <2>2. CASE r + 1 # n
    <3>1. \A i \in 1..n : x(i) = k + y(i)
      BY <1>1, <1>3, <1>5, <1>6, <2>2
    <3> HIDE DEF x, y
    <3>2. QED
      BY <3>1
  <2>3. QED
    BY <2>1, <2>2
<1>8. QED
  BY <1>7, ZenonT(30) DEF Extra, x, y, r, r2, R, c, c2, w, w2, M

LEMMA RotationHead ==
  ASSUME NEW S, NEW s \in Seq(S), NEW n \in 0..(Len(s) - 1)
  PROVE  Rotation(s, n) # <<>> /\ Head(Rotation(s, n)) = s[n + 1]
<1> DEFINE a == SubSeq(s, n + 1, Len(s))
           b == SubSeq(s, 1, n)
<1>1. Len(s) \in Nat /\ n \in Nat /\ n < Len(s)
  OBVIOUS
<1>2. \A i \in (n + 1)..Len(s) : s[i] \in S
  BY <1>1
<1>3. a \in Seq(S) /\ Len(a) = Len(s) - n /\ a[1] = s[n + 1]
  BY <1>1, <1>2
<1>4. b \in Seq(S)
  BY <1>1
<1> HIDE DEF a, b
<1>5. Len(a \o b) >= 1 /\ (a \o b)[1] = a[1] /\ a \o b \in Seq(S)
  BY <1>1, <1>3, <1>4
<1>6. QED
  BY <1>3, <1>5, SMTT(30) DEF Rotation, a, b

\* A query that arrives is the only one to begin, and moves the cursor of its
\* group only.
LEMMA BeginSteps ==
  ASSUME TypeOK, Next, mode = "RoundRobin", NEW g \in Groups
  PROVE  \/ cursor'[g] = cursor[g] /\ \A u : ~Begins(g, u)
         \/ /\ Members[g] # <<>> /\ cursor'[g] = Bump(cursor[g])
            /\ \A u : Begins(g, u) <=> u = Members[g][(cursor[g] % Len(Members[g])) + 1]
<1>1. ASSUME NEW q \in Queries, NEW h \in Groups, Arrive(q, h)
      PROVE  \/ cursor'[g] = cursor[g] /\ \A u : ~Begins(g, u)
             \/ /\ Members[g] # <<>> /\ cursor'[g] = Bump(cursor[g])
                /\ \A u : Begins(g, u) <=> u = Members[g][(cursor[g] % Len(Members[g])) + 1]
  <2> DEFINE m == Members[h]
             k == cursor[h] % Len(m)
  <2>1. /\ pc[q] = "idle" /\ pc' = [pc EXCEPT ![q] = "try"] /\ grp' = [grp EXCEPT ![q] = h]
        /\ \/ m = <<>> /\ rest' = [rest EXCEPT ![q] = <<>>] /\ cursor' = cursor
           \/ /\ m # <<>> /\ rest' = [rest EXCEPT ![q] = Rotation(m, k)]
              /\ cursor' = [cursor EXCEPT ![h] = Bump(cursor[h])]
    BY <1>1 DEF Arrive
  <2>2. /\ pc'[q] = "try" /\ grp'[q] = h
        /\ \A o \in Queries \ {q} : pc'[o] = pc[o]
        /\ \/ m = <<>> /\ rest'[q] = <<>> /\ cursor' = cursor
           \/ /\ m # <<>> /\ rest'[q] = Rotation(m, k)
              /\ cursor'[h] = Bump(cursor[h]) /\ (g # h => cursor'[g] = cursor[g])
    BY <2>1 DEF TypeOK
  <2>3. ASSUME NEW u PROVE Begins(g, u) <=> g = h /\ rest'[q] # <<>> /\ Head(rest'[q]) = u
    BY <2>1, <2>2 DEF Begins
  <2>4. m # <<>> => Rotation(m, k) # <<>> /\ Head(Rotation(m, k)) = m[k + 1]
    <3> HAVE m # <<>>
    <3>1. m \in Seq(Upstreams) /\ Len(m) \in Nat \ {0} /\ cursor[h] \in Nat
      BY GroupAssumption, EmptySeq DEF TypeOK
    <3>2. k \in 0..(Len(m) - 1)
      BY <3>1, DivMod, ZenonT(30)
    <3>3. QED
      BY <3>1, <3>2, RotationHead
  <2>5. QED
    BY <2>2, <2>3, <2>4, ZenonT(30)
<1>2. ASSUME NEW q \in Queries, Step(q) PROVE cursor'[g] = cursor[g] /\ \A u : ~Begins(g, u)
  <2>1. cursor' = cursor /\ pc[q] # "idle" /\ \A o \in Queries \ {q} : pc'[o] = pc[o]
    BY <1>2, ZenonT(30) DEF TypeOK, Step, Scan, SortBegin, SortEnd, SortPanic, AttemptOk, AttemptErr, GiveUp
  <2>2. QED
    BY <2>1 DEF Begins
<1>3. ASSUME NEW v \in Upstreams, Toggle(v) PROVE cursor'[g] = cursor[g] /\ \A u : ~Begins(g, u)
  <2>1. cursor' = cursor /\ pc' = pc
    BY <1>3 DEF Toggle
  <2>2. QED
    BY <2>1 DEF Begins
<1>4. QED
  BY <1>1, <1>2, <1>3, ZenonT(30) DEF Next

LEMMA ModeStays == Next => mode' = mode
BY ZenonT(30) DEF Next, Step, Arrive, Scan, SortBegin, SortEnd, SortPanic, AttemptOk, AttemptErr, GiveUp, Toggle

Even(g) ==
  \E k \in Nat : \A i \in 1..Len(Members[g]) :
    first[g][Members[g][i]] = k + Extra(Len(Members[g]), begun[g], i)

HInv ==
  /\ begun \in [Groups -> Nat] /\ first \in [Groups -> [Upstreams -> Nat]]
  /\ mode = "RoundRobin" => \A g \in Groups :
       /\ cursor[g] = begun[g] % CursorMod
       /\ Members[g] # <<>> /\ IsInjective(Members[g]) => Even(g)

LEMMA InitBalance == CountedInit => HInv
<1> SUFFICES ASSUME CountedInit PROVE HInv
  OBVIOUS
<1>1. begun \in [Groups -> Nat] /\ first \in [Groups -> [Upstreams -> Nat]]
  BY DEF CountedInit
<1>2. ASSUME NEW g \in Groups PROVE cursor[g] = begun[g] % CursorMod /\ (Members[g] # <<>> => Even(g))
  <2>1. begun[g] = 0 /\ cursor[g] = 0 /\ CursorMod \in Nat \ {0} /\ \A u \in Upstreams : first[g][u] = 0
    BY GroupAssumption DEF CountedInit, Init
  <2>2. 0 % CursorMod = 0 /\ 0 \div CursorMod = 0
    BY <2>1, ZeroMod
  <2>3. ASSUME Members[g] # <<>> PROVE Even(g)
    <3> DEFINE n == Len(Members[g])
    <3>1. Members[g] \in Seq(Upstreams) /\ n \in Nat \ {0}
      BY <2>3, GroupAssumption, EmptySeq
    <3>2. \A i \in 1..n : first[g][Members[g][i]] = 0
      BY <2>1, <3>1
    <3> HIDE DEF n
    <3>3. CursorMod % n \in 0..(n - 1) /\ 0 % n = 0
      BY <2>1, <3>1, DivMod, ZeroMod
    <3>4. \A i \in 1..n : Extra(n, 0, i) = 0
      BY <2>2, <3>1, <3>3 DEF Extra
    <3>5. \A i \in 1..n : first[g][Members[g][i]] = 0 + Extra(n, begun[g], i)
      BY <2>1, <3>2, <3>4
    <3>6. QED
      BY <3>5 DEF Even, n
  <2>4. QED
    BY <2>1, <2>2, <2>3
<1>3. QED
  BY <1>1, <1>2 DEF HInv

LEMMA BalanceStep == TypeOK /\ HInv /\ [Next /\ Counted]_hvars => HInv'
<1>1. ASSUME TypeOK, HInv, UNCHANGED hvars PROVE HInv'
  BY <1>1, ZenonT(30) DEF hvars, vars, HInv, Even
<1>2. ASSUME TypeOK, HInv, Next, Counted PROVE HInv'
  <2>1. begun' \in [Groups -> Nat] /\ first' \in [Groups -> [Upstreams -> Nat]]
    BY <1>2 DEF Counted, HInv
  <2>2. ASSUME mode = "RoundRobin", NEW g \in Groups
        PROVE  /\ cursor'[g] = begun'[g] % CursorMod
               /\ Members[g] # <<>> /\ IsInjective(Members[g]) => Even(g)'
    <3> DEFINE m == Members[g]
               n == Len(m)
               b == begun[g]
               p == (cursor[g] % n) + 1
    <3>1. /\ m \in Seq(Upstreams) /\ n \in Nat /\ b \in Nat /\ cursor[g] = b % CursorMod
          /\ cursor[g] \in Nat /\ DOMAIN m = 1..n
      BY <1>2, <2>2, GroupAssumption DEF HInv, TypeOK
    <3>2. /\ begun'[g] = IF \E u \in Upstreams : Begins(g, u) THEN b + 1 ELSE b
          /\ \A u \in Upstreams : first'[g][u] = IF Begins(g, u) THEN first[g][u] + 1 ELSE first[g][u]
      BY <1>2 DEF Counted
    <3>3. CASE cursor'[g] = cursor[g] /\ \A u : ~Begins(g, u)
      <4>1. begun'[g] = b /\ \A u \in Upstreams : first'[g][u] = first[g][u]
        BY <3>2, <3>3
      <4>2. \A i \in 1..n : m[i] \in Upstreams
        BY <3>1
      <4>3. m # <<>> /\ IsInjective(m) => Even(g)
        BY <1>2, <2>2, ZenonT(30) DEF HInv
      <4>4. Even(g) => Even(g)'
        BY <4>1, <4>2, ZenonT(30) DEF Even
      <4>5. QED
        BY <3>1, <3>3, <4>1, <4>3, <4>4, ZenonT(30)
    <3>4. CASE /\ m # <<>> /\ cursor'[g] = Bump(cursor[g])
               /\ \A u : Begins(g, u) <=> u = m[p]
      <4>1. n \in Nat \ {0} /\ p \in 1..n
        <5>1. n \in Nat \ {0}
          BY <3>1, <3>4, EmptySeq
        <5> HIDE DEF n
        <5>2. cursor[g] % n \in 0..(n - 1)
          BY <3>1, <5>1, DivMod, ZenonT(30)
        <5>3. QED
          BY <5>1, <5>2
      <4>2. m[p] \in Upstreams
        BY <3>1, <4>1
      <4>3. begun'[g] = b + 1
        BY <3>2, <3>4, <4>2
      <4>4. cursor'[g] = (b + 1) % CursorMod
        BY <3>1, <3>4, BumpedCursor, ZenonT(30)
      <4>5. ASSUME IsInjective(m) PROVE Even(g)'
        <5>1. PICK k \in Nat : \A i \in 1..n : first[g][m[i]] = k + Extra(n, b, i)
          BY <1>2, <2>2, <3>4, <4>5, ZenonT(30) DEF HInv, Even
        <5>2. PICK j \in Nat : \A i \in 1..n :
                (k + Extra(n, b, i)) + (IF i = ((b % CursorMod) % n) + 1 THEN 1 ELSE 0)
                  = j + Extra(n, b + 1, i)
          BY <3>1, <4>1, EvenStep, ZenonT(30)
        <5>3. \A i \in 1..n : m[i] = m[p] <=> i = p
          BY <3>1, <4>1, <4>5, SMTT(30) DEF IsInjective
        <5>4. p = ((b % CursorMod) % n) + 1
          BY <3>1
        <5>5. ASSUME NEW i \in 1..n PROVE first'[g][m[i]] = j + Extra(n, b + 1, i)
          <6>1. m[i] \in Upstreams
            BY <3>1
          <6>2. first[g][m[i]] \in Nat
            BY <1>2, <6>1 DEF HInv
          <6>3. first'[g][m[i]] = IF i = p THEN first[g][m[i]] + 1 ELSE first[g][m[i]]
            BY <3>2, <3>4, <5>3, <6>1, ZenonT(30)
          <6>4. first[g][m[i]] = k + Extra(n, b, i)
            BY <5>1
          <6>5. (k + Extra(n, b, i)) + (IF i = p THEN 1 ELSE 0) = j + Extra(n, b + 1, i)
            BY <5>2, <5>4, ZenonT(30)
          <6> HIDE DEF p, m, n, b
          <6>6. QED
            BY <6>2, <6>3, <6>4, <6>5
        <5>6. QED
          BY <4>3, <5>5, ZenonT(30) DEF Even
      <4>6. QED
        BY <4>3, <4>4, <4>5, ZenonT(30)
    <3>5. QED
      BY <1>2, <2>2, <3>3, <3>4, BeginSteps, ZenonT(30)
  <2>3. QED
    BY <1>2, <2>1, <2>2, ModeStays, ZenonT(30) DEF HInv
<1>3. QED
  BY <1>1, <1>2

\* Whatever the number of groups, members, queries and laps of the cursor.
THEOREM RoundRobinIsFair == CountedSpec => []Balanced
<1>1. CountedInit => Init
  BY DEF CountedInit
<1>2. [Next /\ Counted]_hvars => [Next]_vars
  BY DEF hvars
<1>3. IInv => TypeOK
  BY DEF IInv
<1>4. TypeOK /\ HInv => Balanced
  <2> SUFFICES ASSUME TypeOK, HInv, mode = "RoundRobin", NEW g \in Groups, IsInjective(Members[g]),
                      NEW u \in Elements(Members[g]), NEW v \in Elements(Members[g])
               PROVE  first[g][u] - first[g][v] <= 1 + (begun[g] \div CursorMod)
    BY ZenonT(30) DEF Balanced
  <2> DEFINE m == Members[g]
             n == Len(m)
             b == begun[g]
  <2>1. PICK i \in 1..n, j \in 1..n : u = m[i] /\ v = m[j]
    BY DEF Elements
  <2>2. m \in Seq(Upstreams) /\ n \in Nat \ {0} /\ m # <<>> /\ b \in Nat
    BY <2>1, GroupAssumption, EmptySeq DEF HInv
  <2>3. PICK k \in Nat : \A x \in 1..n : first[g][m[x]] = k + Extra(n, b, x)
    BY <2>2, ZenonT(30) DEF HInv, Even
  <2> HIDE DEF n, m, b
  <2>4. CursorMod \in Nat \ {0} /\ b \div CursorMod \in Nat
    BY <2>2, GroupAssumption, BumpedCursor, ZenonT(30)
  <2>5. Extra(n, b, i) \in 0..((b \div CursorMod) + 1) /\ Extra(n, b, j) \in 0..((b \div CursorMod) + 1)
    BY <2>4 DEF Extra
  <2>6. first[g][u] = k + Extra(n, b, i) /\ first[g][v] = k + Extra(n, b, j)
    BY <2>1, <2>3
  <2>7. first[g][u] - first[g][v] <= 1 + (b \div CursorMod)
    BY <2>4, <2>5, <2>6
  <2>8. QED
    BY <2>7 DEF b
<1>5. QED
  BY <1>1, <1>2, <1>3, <1>4, InitInvariant, NextInvariant, InitBalance, BalanceStep, PTL DEF CountedSpec

============================================================================
