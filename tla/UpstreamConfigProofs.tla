------------------------ MODULE UpstreamConfigProofs ------------------------
(***************************************************************************)
(* Proofs about upstream_config.rs.  For every command line and file: the   *)
(* groups hold what the lines say, every bad line is reported, and every    *)
(* lookup takes the most specific rule.                                     *)
(***************************************************************************)
EXTENDS Startup, TLAPS, SequenceTheorems, WellFoundedInduction, FiniteSetTheorems

----------------------------------------------------------------------------
(* Induction, and lists of lists *)

\* Every set of natural numbers has a least one.
LEMMA LeastNatural ==
  ASSUME NEW S \in SUBSET Nat, S # {}
  PROVE  \E n \in S : \A m \in S : n <= m
<1>1. PICK n \in S : \A m \in S : ~(<<m, n>> \in OpToRel(<, Nat))
  BY NatLessThanWellFounded, WFMin, ZenonT(30)
<1>2. \A m \in S : ~(m < n)
  BY <1>1, ZenonT(30) DEF OpToRel
<1>3. QED
  BY <1>2

\* Induction, for what can be said of the numbers in a set.
LEMMA Induction ==
  ASSUME NEW P \in SUBSET Nat, 0 \in P, \A n \in P : n + 1 \in P
  PROVE  P = Nat
<1> SUFFICES ASSUME P # Nat PROVE FALSE
  OBVIOUS
<1>1. PICK n \in Nat \ P : \A m \in Nat \ P : n <= m
  BY LeastNatural, ZenonT(30)
<1>2. n - 1 \in Nat /\ ~(n <= n - 1) /\ (n - 1) + 1 = n
  BY <1>1
<1>3. n - 1 \in P
  BY <1>1, <1>2
<1>4. QED
  BY <1>1, <1>2, <1>3

\* f[k] joins the first k lists of s.
Joins(f, s, n) == f = [k \in 0..n |-> IF k = 0 THEN <<>> ELSE f[k - 1] \o s[k]]

LEMMA JoinsExists ==
  ASSUME NEW s, NEW n \in Nat
  PROVE  \E f : Joins(f, s, n)
<1> DEFINE P == { m \in Nat : \E f : Joins(f, s, m) }
<1>1. 0 \in P
  <2> DEFINE f == [k \in 0..0 |-> <<>>]
  <2>1. Joins(f, s, 0)
    BY DEF Joins
  <2>2. QED
    BY <2>1
<1>2. ASSUME NEW m \in P PROVE m + 1 \in P
  <2>0. m \in Nat
    OBVIOUS
  <2>1. PICK f : Joins(f, s, m)
    OBVIOUS
  <2> DEFINE g == [k \in 0..(m + 1) |-> IF k <= m THEN f[k] ELSE f[m] \o s[m + 1]]
  <2>2. \A k \in 0..m : f[k] = IF k = 0 THEN <<>> ELSE f[k - 1] \o s[k]
    BY <2>1, ZenonT(30) DEF Joins
  <2>3. ASSUME NEW k \in 0..(m + 1)
        PROVE  g[k] = IF k = 0 THEN <<>> ELSE g[k - 1] \o s[k]
    <3>1. CASE k = m + 1
      <4>1. k - 1 = m /\ k # 0 /\ ~(k <= m) /\ m \in 0..(m + 1) /\ m <= m
        BY <2>0, <3>1
      <4>2. g[k] = f[m] \o s[m + 1] /\ g[m] = f[m]
        BY <4>1, ZenonT(30)
      <4>3. QED
        BY <3>1, <4>1, <4>2, ZenonT(30)
    <3>2. CASE k # m + 1
      <4>1. k \in 0..m /\ k <= m
        BY <3>2
      <4>2. g[k] = f[k]
        BY <4>1
      <4>3. CASE k = 0
        BY <2>2, <4>1, <4>2, <4>3
      <4>4. CASE k # 0
        <5>1. k - 1 \in 0..(m + 1) /\ k - 1 <= m
          BY <4>1, <4>4
        <5>2. g[k - 1] = f[k - 1]
          BY <5>1
        <5>3. QED
          BY <2>2, <4>1, <4>2, <4>4, <5>2, ZenonT(30)
      <4>5. QED
        BY <4>3, <4>4
    <3>3. QED
      BY <3>1, <3>2
  <2>4. DOMAIN g = 0..(m + 1) /\ g = [k \in 0..(m + 1) |-> g[k]]
    OBVIOUS
  <2> HIDE DEF g
  <2>5. Joins(g, s, m + 1)
    BY <2>3, <2>4, ZenonT(30) DEF Joins
  <2>6. QED
    BY <2>5
<1> HIDE DEF P
<1>3. P = Nat
  BY <1>1, <1>2, Induction, ZenonT(30) DEF P
<1>4. QED
  BY <1>3 DEF P

LEMMA FlattenedJoins ==
  ASSUME NEW s, Len(s) \in Nat
  PROVE  \E f : Joins(f, s, Len(s)) /\ Flattened(s) = f[Len(s)]
<1>1. \E f : Joins(f, s, Len(s))
  BY JoinsExists
<1> DEFINE g == CHOOSE f : Joins(f, s, Len(s))
<1>2. Joins(g, s, Len(s))
  BY <1>1
<1>3. Flattened(s) = g[Len(s)]
  BY ZenonT(30) DEF Flattened, Joins
<1>4. QED
  BY <1>2, <1>3, ZenonT(30)

\* The first n lists of s, one after the other.
First(s, n) == Flattened([k \in 1..n |-> s[k]])

LEMMA LenOf ==
  ASSUME NEW s, NEW n \in Nat
  PROVE  LET x == [k \in 1..n |-> s[k]] IN
         Len(x) = n /\ \A k \in 1..n : x[k] = s[k]
<1> DEFINE S == { s[k] : k \in 1..n }
           x == [k \in 1..n |-> s[k]]
<1>1. x \in [1..n -> S]
  OBVIOUS
<1>2. x \in Seq(S)
  BY <1>1, SeqDef
<1>3. Len(x) = n
  BY <1>1, <1>2, LenProperties
<1>4. QED
  BY <1>3

\* There is only one such function.
LEMMA JoinsUnique ==
  ASSUME NEW s, NEW r, NEW n \in Nat, \A k \in 1..n : s[k] = r[k],
         NEW f, Joins(f, s, n), NEW g, Joins(g, r, n)
  PROVE  f[n] = g[n]
<1> DEFINE P == { k \in Nat : k <= n => f[k] = g[k] }
<1>1. /\ \A k \in 0..n : f[k] = IF k = 0 THEN <<>> ELSE f[k - 1] \o s[k]
      /\ \A k \in 0..n : g[k] = IF k = 0 THEN <<>> ELSE g[k - 1] \o r[k]
  BY ZenonT(30) DEF Joins
<1>2. 0 \in P
  <2>1. 0 \in 0..n
    OBVIOUS
  <2>2. f[0] = g[0]
    BY <1>1, <2>1, ZenonT(30)
  <2>3. QED
    BY <2>2
<1>3. ASSUME NEW k \in P PROVE k + 1 \in P
  <2> SUFFICES ASSUME k + 1 <= n PROVE f[k + 1] = g[k + 1]
    OBVIOUS
  <2>1. k + 1 \in 0..n /\ k + 1 # 0 /\ (k + 1) - 1 = k /\ k + 1 \in 1..n /\ k <= n
    OBVIOUS
  <2>2. f[k] = g[k]
    BY <2>1
  <2>3. f[k + 1] = f[k] \o s[k + 1] /\ g[k + 1] = g[k] \o r[k + 1]
    BY <1>1, <2>1, ZenonT(30)
  <2>4. QED
    BY <2>1, <2>2, <2>3, ZenonT(30)
<1> HIDE DEF P
<1>4. P = Nat
  BY <1>2, <1>3, Induction, ZenonT(30) DEF P
<1>5. QED
  BY <1>4 DEF P

LEMMA FirstJoins ==
  ASSUME NEW s, NEW n \in Nat, NEW f, Joins(f, s, n)
  PROVE  First(s, n) = f[n]
<1> DEFINE x == [k \in 1..n |-> s[k]]
<1>1. Len(x) = n /\ \A k \in 1..n : x[k] = s[k]
  BY LenOf
<1> HIDE DEF x
<1>2. PICK g : Joins(g, x, n) /\ Flattened(x) = g[n]
  BY <1>1, FlattenedJoins
<1>3. g[n] = f[n]
  BY <1>1, <1>2, JoinsUnique
<1>4. QED
  BY <1>2, <1>3 DEF First, x

\* One list more.
LEMMA FirstStep ==
  ASSUME NEW s, NEW n \in Nat
  PROVE  First(s, 0) = <<>> /\ First(s, n + 1) = First(s, n) \o s[n + 1]
<1>1. PICK f : Joins(f, s, n + 1)
  BY JoinsExists
<1>2. \A k \in 0..(n + 1) : f[k] = IF k = 0 THEN <<>> ELSE f[k - 1] \o s[k]
  BY <1>1, ZenonT(30) DEF Joins
<1>3. First(s, n + 1) = f[n + 1]
  BY <1>1, FirstJoins
<1>4. f[n + 1] = f[n] \o s[n + 1]
  <2>1. n + 1 \in 0..(n + 1) /\ n + 1 # 0 /\ (n + 1) - 1 = n
    OBVIOUS
  <2>2. QED
    BY <1>2, <2>1, ZenonT(30)
<1>5. ASSUME NEW m \in 0..n PROVE First(s, m) = f[m]
  <2> DEFINE g == [k \in 0..m |-> f[k]]
  <2>1. \A k \in 0..m : k \in 0..(n + 1) /\ (k # 0 => k - 1 \in 0..m)
    OBVIOUS
  <2>2. \A k \in 0..m : g[k] = IF k = 0 THEN <<>> ELSE g[k - 1] \o s[k]
    BY <1>2, <2>1
  <2>3. g = [k \in 0..m |-> g[k]] /\ g[m] = f[m]
    OBVIOUS
  <2> HIDE DEF g
  <2>4. Joins(g, s, m)
    BY <2>2, <2>3, ZenonT(30) DEF Joins
  <2>5. QED
    BY <2>3, <2>4, FirstJoins
<1>6. f[0] = <<>>
  <2>1. 0 \in 0..(n + 1)
    OBVIOUS
  <2>2. QED
    BY <1>2, <2>1, ZenonT(30)
<1>7. First(s, 0) = f[0] /\ First(s, n) = f[n]
  <2>1. 0 \in 0..n /\ n \in 0..n
    OBVIOUS
  <2>2. QED
    BY <1>5, <2>1, ZenonT(30)
<1>8. QED
  BY <1>3, <1>4, <1>6, <1>7, ZenonT(30)

\* All of them.
LEMMA FirstAll ==
  ASSUME NEW S, NEW s \in Seq(S)
  PROVE  Flattened(s) = First(s, Len(s))
<1>1. s = [k \in 1..Len(s) |-> s[k]]
  BY LenProperties
<1>2. QED
  BY <1>1 DEF First

\* Lists of members of T make up such a list.
LEMMA FirstType ==
  ASSUME NEW T, NEW s, NEW n \in Nat, \A k \in 1..n : s[k] \in Seq(T)
  PROVE  First(s, n) \in Seq(T)
<1> DEFINE P == { k \in Nat : k <= n => First(s, k) \in Seq(T) }
<1>1. 0 \in P
  <2>1. First(s, 0) \in Seq(T)
    <3>1. First(s, 0) = <<>>
      BY FirstStep
    <3>2. <<>> \in Seq(T)
      OBVIOUS
    <3>3. QED
      BY <3>1, <3>2, ZenonT(30)
  <2>2. QED
    BY <2>1
<1>2. ASSUME NEW k \in P PROVE k + 1 \in P
  <2> SUFFICES ASSUME k + 1 <= n PROVE First(s, k + 1) \in Seq(T)
    OBVIOUS
  <2>1. k \in Nat /\ k <= n /\ k + 1 \in 1..n
    OBVIOUS
  <2>2. First(s, k) \in Seq(T) /\ s[k + 1] \in Seq(T)
    BY <2>1
  <2>3. First(s, k + 1) = First(s, k) \o s[k + 1]
    BY <2>1, FirstStep, ZenonT(30)
  <2>4. QED
    BY <2>2, <2>3, ConcatProperties, ZenonT(30)
<1> HIDE DEF P
<1>3. P = Nat
  BY <1>1, <1>2, Induction, ZenonT(30) DEF P
<1>4. QED
  BY <1>3 DEF P

----------------------------------------------------------------------------
(* What a list holds *)

Elements(s) == { s[i] : i \in 1..Len(s) }

\* What a list with an element appended to it holds.
LEMMA AppendElements ==
  ASSUME NEW S, NEW s \in Seq(S), NEW x \in S
  PROVE  /\ Append(s, x) \in Seq(S) /\ Len(Append(s, x)) = Len(s) + 1
         /\ Elements(Append(s, x)) = Elements(s) \cup {x}
<1>1. /\ Append(s, x) \in Seq(S) /\ Len(Append(s, x)) = Len(s) + 1 /\ Len(s) \in Nat
      /\ Append(s, x)[Len(s) + 1] = x
      /\ \A i \in 1..Len(s) : Append(s, x)[i] = s[i]
  BY AppendProperties
<1>2. QED
  BY <1>1 DEF Elements

----------------------------------------------------------------------------
(* The rules *)


SuffixAt(i) == SubSeq(name, i, Len(name))

\* What the loop of group_for maintains: the suffixes it has passed have no
\* rule.  No rule is for the root, so that the empty name never matches.
LInv ==
  /\ lines \in Seq(Line)
  /\ idx \in Nat \ {0}
  /\ name \in Seq(Label)
  /\ at \in Nat \ {0}
  /\ <<>> \notin Registered
  /\ phase # "serve" => name = <<>> /\ ~looking /\ target = Unmatched
  /\ looking =>
       /\ target = Unmatched
       /\ at <= Len(name) \/ name = <<>>
       /\ \A j \in 1..Len(name) : j < at => SuffixAt(j) \notin Registered

RInv == LInv /\ MostSpecificRule

\* Lowercasing keeps the number of labels.
LEMMA LoweredType ==
  ASSUME NEW d \in Domain
  PROVE  Lowered(d) \in Seq(Label) /\ (d # <<>> => Lowered(d) # <<>>)
<1>1. d \in Seq(Label) /\ DOMAIN d = 1..Len(d) /\ Len(d) \in Nat
  BY DEF Domain
<1>2. Lowered(d) \in [1..Len(d) -> Label]
  BY <1>1, ConfigAssumption DEF Lowered
<1>3. Lowered(d) \in Seq(Label)
  BY <1>1, <1>2, SeqDef
<1>4. Len(Lowered(d)) = Len(d)
  BY <1>1, <1>2, <1>3, LenProperties
<1>5. QED
  BY <1>1, <1>3, <1>4, EmptySeq

\* A well-formed line registers no rule for the root.
LEMMA RuleDomainsNonEmpty ==
  ASSUME NEW l \in Line, WellFormed(l), NEW i \in DOMAIN RuleDomains(l)
  PROVE  RuleDomains(l)[i] # <<>>
<1>1. CASE l.bracket
  <2>1. l.hosts \in Seq(Domain) /\ \A j \in DOMAIN l.hosts : l.hosts[j] # <<>>
    BY <1>1 DEF WellFormed, Line
  <2>2. RuleDomains(l) = [j \in DOMAIN l.hosts |-> Lowered(l.hosts[j])]
    BY <1>1 DEF RuleDomains
  <2>3. i \in DOMAIN l.hosts /\ RuleDomains(l)[i] = Lowered(l.hosts[i])
    BY <2>2
  <2>4. l.hosts[i] \in Domain
    BY <2>1, <2>3
  <2>5. QED
    BY <2>1, <2>3, <2>4, LoweredType
<1>2. CASE ~l.bracket
  BY <1>2 DEF RuleDomains
<1>3. QED
  BY <1>1, <1>2

\* Parsing ends with no lookup begun and no rule for the root.
LEMMA ParseInvariant ==
  ASSUME RInv, Parse
  PROVE  RInv'
<1> USE DEF RInv
<1>0. phase = "parse" /\ UNCHANGED <<lines, looking, name, at, target>>
  BY DEF Parse, SkipLine, BadLine, EndOfLine, ParseUpstream, BadUpstream, ParseEnd, LineDone
<1>1. name = <<>> /\ ~looking /\ target = Unmatched
  BY <1>0 DEF LInv
<1>2. idx' \in Nat \ {0}
  BY DEF Parse, SkipLine, BadLine, EndOfLine, ParseUpstream, BadUpstream, ParseEnd,
         LineDone, NextLine, LInv
<1>3. <<>> \notin Registered'
  <2>1. CASE UNCHANGED domain_upstreams
    BY <2>1 DEF LInv, Registered
  <2>2. CASE ParseUpstream /\ domain_upstreams' # domain_upstreams
    <3> DEFINE u == Current.ups[upos]
    <3>1. /\ domain_upstreams' = Extended(Current, u)
          /\ WellFormed(Current) /\ idx <= Len(lines)
      BY <2>2 DEF ParseUpstream
    <3>2. Current \in Line
      BY <3>1 DEF Current, LInv
    <3>3. ASSUME NEW r \in domain_upstreams' PROVE r.domain # <<>>
      <4>1. CASE r \in domain_upstreams
        BY <4>1 DEF LInv, Registered
      <4>2. CASE \E i \in DOMAIN RuleDomains(Current) : r.domain = RuleDomains(Current)[i]
        BY <3>1, <3>2, <4>2, RuleDomainsNonEmpty
      <4>3. QED
        BY <3>1, <3>3, <4>1, <4>2 DEF Extended
    <3>4. QED
      BY <3>3 DEF Registered
  <2>3. QED
    BY <2>1, <2>2
    DEF Parse, SkipLine, BadLine, EndOfLine, ParseUpstream, BadUpstream, ParseEnd, LineDone
<1>4. LInv'
  BY <1>0, <1>1, <1>2, <1>3 DEF LInv, Unmatched
<1>5. MostSpecificRule'
  <2>1. name' = <<>> /\ Len(name') = 0 /\ target'.kind = "default"
    BY <1>0, <1>1 DEF Unmatched
  <2>2. QED
    BY <2>1 DEF MostSpecificRule
<1>6. QED
  BY <1>4, <1>5

\* A lookup passes only suffixes without a rule and stops at the first that
\* has one.
LEMMA LookupInvariant ==
  ASSUME RInv, Lookup
  PROVE  RInv'
<1> USE DEF RInv
<1>1. ASSUME NEW n \in Names, LookupBegin(n) PROVE RInv'
  <2>1. /\ phase = "serve" /\ name' = Lowered(n) /\ at' = 1
        /\ looking' = (domain_upstreams # {}) /\ target' = Unmatched
        /\ UNCHANGED <<lines, phase, idx, domain_upstreams>>
    BY <1>1 DEF LookupBegin
  <2>2. name' \in Seq(Label) /\ Len(name') \in Nat
    BY <2>1, LoweredType, ConfigAssumption
  <2>3. at' <= Len(name') \/ name' = <<>>
    BY <2>1, <2>2, EmptySeq
  <2>4. LInv'
    BY <2>1, <2>2, <2>3 DEF LInv, Registered
  <2>5. MostSpecificRule'
    <3>1. CASE domain_upstreams = {}
      BY <2>1, <3>1 DEF MostSpecificRule, Registered, Unmatched
    <3>2. CASE domain_upstreams # {}
      BY <2>1, <3>2, ZenonT(30) DEF MostSpecificRule
    <3>3. QED
      BY <3>1, <3>2
  <2>6. QED
    BY <2>4, <2>5
<1>2. CASE LookupHit
  <2>1. /\ looking /\ Suffix \in Registered /\ target' = Rule(Suffix) /\ looking' = FALSE
        /\ UNCHANGED <<lines, phase, idx, domain_upstreams, name, at>>
    BY <1>2 DEF LookupHit
  <2>2. /\ phase = "serve" /\ at \in Nat \ {0} /\ Len(name) \in Nat
        /\ \A j \in 1..Len(name) : j < at => SuffixAt(j) \notin Registered
    BY <2>1 DEF LInv
  <2>3. at \in 1..Len(name)
    <3>1. ASSUME name = <<>> PROVE FALSE
      <4>1. Len(name) = 0 /\ at >= 1
        BY <2>2, <3>1
      <4>2. SubSeq(name, at, Len(name)) = <<>>
        BY <2>2, <4>1, SubSeqEmpty
      <4>3. QED
        BY <2>1, <4>2 DEF LInv, Suffix
    <3>2. QED
      BY <2>1, <2>2, <3>1 DEF LInv
  <2>4. LInv'
    BY <2>1, <2>2 DEF LInv, Registered
  <2>5. MostSpecificRule'
    <3>1. target'.kind = "rule" /\ target'.domain = SuffixAt(at)
      BY <2>1, ZenonT(30) DEF Rule, Suffix, SuffixAt
    <3>2. SuffixAt(at) \in Registered
      BY <2>1 DEF Suffix, SuffixAt
    <3>3. \A j \in 1..Len(name) : SuffixAt(j) \in Registered => at <= j
      BY <2>2
    <3>4. QED
      BY <2>1, <2>3, <3>1, <3>2, <3>3, ZenonT(30) DEF MostSpecificRule, SuffixAt, Registered
  <2>6. QED
    BY <2>4, <2>5
<1>3. CASE LookupStrip
  <2>1. /\ looking /\ Suffix \notin Registered /\ at < Len(name) /\ at' = at + 1
        /\ UNCHANGED <<lines, phase, idx, domain_upstreams, looking, name, target>>
    BY <1>3 DEF LookupStrip
  <2>2. /\ at \in Nat \ {0} /\ Len(name) \in Nat
        /\ \A j \in 1..Len(name) : j < at => SuffixAt(j) \notin Registered
    BY <2>1 DEF LInv
  <2>3. \A j \in 1..Len(name) : j < at + 1 => SuffixAt(j) \notin Registered
    <3> TAKE j \in 1..Len(name)
    <3>1. j < at + 1 => j < at \/ j = at
      BY <2>2
    <3>2. SuffixAt(at) \notin Registered
      BY <2>1 DEF Suffix, SuffixAt
    <3>3. QED
      BY <2>2, <3>1, <3>2
  <2>4. at' \in Nat \ {0} /\ at' <= Len(name')
    BY <2>1, <2>2
  <2>5. LInv'
    BY <2>1, <2>3, <2>4 DEF LInv, Registered, SuffixAt
  <2>6. MostSpecificRule'
    BY <2>1 DEF MostSpecificRule
  <2>7. QED
    BY <2>5, <2>6
<1>4. CASE LookupFail
  <2>1. /\ looking /\ Suffix \notin Registered /\ at >= Len(name) /\ looking' = FALSE
        /\ UNCHANGED <<lines, phase, idx, domain_upstreams, name, at, target>>
    BY <1>4 DEF LookupFail
  <2>2. /\ at \in Nat \ {0} /\ Len(name) \in Nat /\ target = Unmatched /\ phase = "serve"
        /\ \A j \in 1..Len(name) : j < at => SuffixAt(j) \notin Registered
    BY <2>1 DEF LInv
  <2>3. \A j \in 1..Len(name) : SuffixAt(j) \notin Registered
    <3> TAKE j \in 1..Len(name)
    <3>1. j < at \/ j = at
      BY <2>1, <2>2
    <3>2. SuffixAt(at) \notin Registered
      BY <2>1 DEF Suffix, SuffixAt
    <3>3. QED
      BY <2>2, <3>1, <3>2
  <2>4. LInv'
    BY <2>1, <2>2 DEF LInv, Registered
  <2>5. MostSpecificRule'
    BY <2>1, <2>2, <2>3, ZenonT(30) DEF MostSpecificRule, SuffixAt, Registered, Unmatched
  <2>6. QED
    BY <2>4, <2>5
<1>5. QED
  BY <1>1, <1>2, <1>3, <1>4 DEF Lookup

----------------------------------------------------------------------------
(* Routing *)

\* The lines a command line gives.
TypedLines ==
  /\ args.upstreams \in Seq(Seq(Line)) /\ args.upstream_file \in Seq(Seq(Line))
  /\ args.private_upstream \in Seq(Seq(Addresses)) /\ Len(args.private_upstream) <= 1

\* Main collects the lines once, before any of them is parsed.
StartOnce ==
  /\ TypedLines
  /\ stage \in {"args", "collect"} => phase = "start"
  /\ phase # "start" => lines = AllLines

LEMMA FlatType ==
  ASSUME NEW text \in Seq(Seq(Line))
  PROVE  Flat(text) \in Seq(Line)
<1>1. CASE text = <<>>
  BY <1>1 DEF Flat
<1>2. CASE text # <<>>
  <2>1. 1 \in DOMAIN text
    BY <1>2, EmptySeq
  <2>2. QED
    BY <1>2, <2>1 DEF Flat
<1>3. QED
  BY <1>1, <1>2

\* The lines main collects are lines, whatever the arguments.
LEMMA CollectedType ==
  ASSUME TypedLines
  PROVE  AllLines \in Seq(Line)
<1> DEFINE n == Len(args.private_upstream)
           private == [i \in 1..n |-> private_upstream_line(args.private_upstream[i])]
<1>1. n \in Nat /\ DOMAIN args.private_upstream = 1..n
  BY DEF TypedLines
<1>2. ASSUME NEW i \in 1..n PROVE private_upstream_line(args.private_upstream[i]) \in Line
  <2>1. args.private_upstream[i] \in Seq(Addresses)
    BY <1>1 DEF TypedLines
  <2>2. QED
    BY <2>1, StartupAssumption, SMTT(30) DEF private_upstream_line, Line
<1>3. private \in Seq(Line)
  BY <1>1, <1>2, SeqDef
<1>5. Flat(args.upstreams) \in Seq(Line) /\ Flat(args.upstream_file) \in Seq(Line)
  BY FlatType DEF TypedLines
<1>6. AllLines = private \o Flat(args.upstreams) \o Flat(args.upstream_file)
  BY <1>1 DEF AllLines
<1> HIDE DEF private
<1>7. QED
  BY <1>3, <1>5, <1>6

LEMMA InitStartOnce == StartupInit => StartOnce
<1> SUFFICES ASSUME StartupInit PROVE StartOnce
  OBVIOUS
<1>1. TypedLines
  BY StartupAssumption DEF StartupInit, TypedLines
<1>2. QED
  BY <1>1 DEF StartupInit, StartOnce

LEMMA StartOnceStep == StartOnce /\ [StartupNext]_allVars => StartOnce'
<1> SUFFICES ASSUME StartOnce, [StartupNext]_allVars PROVE StartOnce'
  OBVIOUS
<1>1. args' = args
  BY ZenonT(30) DEF StartupNext, Main, ParseStep, LookupStep, allVars, given, GenerateConfig, Bootstraps,
         CollectFails, CollectLines, Rejected, Credentials, CacheOptions, Bind, NextListener, Run
<1>2. TypedLines' /\ AllLines' = AllLines
  BY <1>1 DEF TypedLines, StartOnce, AllLines
<1>3. CASE CollectLines
  BY <1>2, <1>3 DEF CollectLines, GoTo, StartOnce
<1>4. CASE Main /\ ~CollectLines
  <2>1. UNCHANGED <<lines, phase>>
    BY <1>4, ZenonT(30) DEF Main, GenerateConfig, Bootstraps, CollectFails, Rejected, Credentials,
                CacheOptions, Bind, NextListener, Run, config
  <2>2. stage' \in {"args", "collect"} => stage \in {"args", "collect"}
    BY <1>4, SMTT(30) DEF Main, GenerateConfig, Bootstraps, CollectFails, Rejected, Credentials,
                CacheOptions, Bind, NextListener, Run, Exit, GoTo, Start, Listeners
  <2>3. QED
    BY <1>2, <2>1, <2>2 DEF StartOnce
<1>5. CASE ParseStep
  <2>1. UNCHANGED <<lines, stage>> /\ stage = "parse" /\ phase # "start"
    BY <1>5 DEF ParseStep, main, Parse, SkipLine, BadLine, EndOfLine, ParseUpstream, BadUpstream,
                ParseEnd, LineDone
  <2>2. QED
    BY <1>2, <2>1 DEF StartOnce
<1>6. CASE LookupStep \/ UNCHANGED allVars
  <2>1. UNCHANGED <<lines, stage, phase>>
    BY <1>6 DEF LookupStep, allVars, config, main, Lookup, LookupBegin, LookupHit, LookupStrip,
                LookupFail
  <2>2. QED
    BY <1>2, <2>1 DEF StartOnce
<1>7. QED
  BY <1>3, <1>4, <1>5, <1>6 DEF StartupNext

\* A step that leaves the rules and the lookup alone keeps their invariant.
LEMMA ConfigStays ==
  ASSUME RInv, UNCHANGED config
  PROVE  RInv'
BY ZenonT(30) DEF config, RInv, LInv, MostSpecificRule, Registered, SuffixAt

LEMMA InitRouting == StartupInit => RInv
<1> SUFFICES ASSUME StartupInit PROVE RInv
  OBVIOUS
<1>1. /\ lines = <<>> /\ phase = "start" /\ idx = 1 /\ domain_upstreams = {} /\ looking = FALSE
      /\ name = <<>> /\ at = 1 /\ target = Unmatched
  BY DEF StartupInit, Fresh
<1>2. LInv
  BY <1>1 DEF LInv, Registered
<1>3. MostSpecificRule
  BY <1>1 DEF MostSpecificRule
<1>4. QED
  BY <1>2, <1>3 DEF RInv

LEMMA RoutingStep == RInv /\ StartOnce /\ [StartupNext]_allVars => RInv'
<1> SUFFICES ASSUME RInv, StartOnce, [StartupNext]_allVars PROVE RInv'
  OBVIOUS
<1>1. CASE CollectLines
  <2>1. /\ stage = "collect" /\ lines' = AllLines /\ phase' = "parse"
        /\ UNCHANGED <<idx, domain_upstreams, looking, name, at, target>>
    BY <1>1, SMTT(30) DEF CollectLines
  <2>2. phase = "start" /\ AllLines \in Seq(Line)
    BY <2>1, CollectedType DEF StartOnce
  <2>3. LInv'
    BY <2>1, <2>2, SMTT(30) DEF RInv, LInv, Registered, Unmatched
  <2>4. MostSpecificRule'
    BY <2>1 DEF MostSpecificRule
  <2>5. QED
    BY <2>3, <2>4 DEF RInv
<1>2. CASE Main /\ ~CollectLines
  <2>1. UNCHANGED config
    BY <1>2, SMTT(30) DEF Main, GenerateConfig, Bootstraps, CollectFails, Rejected, Credentials,
                CacheOptions, Bind, NextListener, Run
  <2>2. QED
    BY <2>1, ConfigStays
<1>3. CASE ParseStep
  BY <1>3, ParseInvariant DEF ParseStep
<1>4. CASE LookupStep
  BY <1>4, LookupInvariant DEF LookupStep
<1>5. CASE UNCHANGED allVars
  BY <1>5, ConfigStays DEF allVars
<1>6. QED
  BY <1>1, <1>2, <1>3, <1>4, <1>5 DEF StartupNext

\* A lookup ends in the most specific rule, and in the default group only if
\* no rule matches, whatever the command line.
THEOREM LookupsAreMostSpecific == StartupSpec => []MostSpecificRule
<1>1. RInv => MostSpecificRule
  BY DEF RInv
<1>2. QED
  BY <1>1, InitRouting, RoutingStep, InitStartOnce, StartOnceStep, PTL DEF StartupSpec

----------------------------------------------------------------------------
(* Errors *)

Faulty(l) ==
  /\ ~l.skip
  /\ ~WellFormed(l) \/ \E j \in DOMAIN l.ups : ~Accepted(l.ups[j])

\* The faulty lines among those parsed, the current one as far as it is parsed.
FaultsSoFar ==
  { i \in 1..(idx - 1) : Faulty(lines[i]) }
    \cup { i \in {idx} : \E j \in 1..(upos - 1) : ~Accepted(lines[i].ups[j]) }

\* Where the parser is, and what it has reported.
EInv ==
  /\ lines \in Seq(Line)
  /\ idx \in 1..(Len(lines) + 1)
  /\ upos \in Nat \ {0}
  /\ upos > 1 => /\ idx <= Len(lines) /\ ~Current.skip /\ WellFormed(Current)
                 /\ upos <= Len(Current.ups) + 1
  /\ phase = "start" => lines = <<>> /\ idx = 1
  /\ phase \in {"serve", "rejected"} => idx = Len(lines) + 1
  /\ errors \in Seq(Nat)
  /\ Elements(errors) = FaultsSoFar
  /\ phase = "serve" => errors = <<>>
  /\ phase = "rejected" => errors # <<>>

\* Only an empty list holds nothing.
LEMMA NoElements ==
  ASSUME NEW S, NEW s \in Seq(S)
  PROVE  Elements(s) = {} <=> s = <<>>
<1>1. Len(s) \in Nat /\ (s = <<>> <=> Len(s) = 0)
  BY EmptySeq
<1>2. ASSUME s # <<>> PROVE Elements(s) # {}
  <2>1. 1 \in 1..Len(s)
    BY <1>1, <1>2
  <2>2. s[1] \in Elements(s)
    BY <2>1 DEF Elements
  <2>3. QED
    BY <2>2
<1>3. ASSUME s = <<>> PROVE Elements(s) = {}
  <2>1. 1..Len(s) = {}
    BY <1>1, <1>3
  <2>2. QED
    BY <2>1 DEF Elements
<1>4. QED
  BY <1>2, <1>3

\* The line being parsed, and the number of its upstreams.
LEMMA CurrentLine ==
  ASSUME EInv, idx <= Len(lines)
  PROVE  /\ idx \in 1..Len(lines) /\ Len(lines) \in Nat /\ Current = lines[idx]
         /\ Current \in Line /\ Current.ups \in Seq(Addresses) /\ Len(Current.ups) \in Nat
         /\ DOMAIN Current.ups = 1..Len(Current.ups)
<1>1. idx \in 1..Len(lines) /\ Len(lines) \in Nat
  BY DEF EInv
<1>2. Current \in Line
  BY <1>1 DEF EInv, Current
<1>3. Current.ups \in Seq(Addresses)
  BY <1>2 DEF Line
<1>4. QED
  BY <1>1, <1>2, <1>3 DEF Current

\* A line is done: it is faulty or not.
LEMMA FaultsOfLine ==
  ASSUME EInv, idx <= Len(lines), NextLine, lines' = lines
  PROVE  FaultsSoFar' = { i \in 1..(idx - 1) : Faulty(lines[i]) }
                          \cup { i \in {idx} : Faulty(Current) }
<1>1. idx \in 1..Len(lines) /\ Len(lines) \in Nat /\ Current = lines[idx]
  BY CurrentLine
<1>2. idx' = idx + 1 /\ upos' = 1 /\ lines' = lines
  BY DEF NextLine
<1>3. 1..(idx' - 1) = 1..(idx - 1) \cup {idx} /\ 1..(upos' - 1) = {}
  BY <1>1, <1>2
<1>4. QED
  BY <1>1, <1>2, <1>3 DEF FaultsSoFar

\* The position after a line.
LEMMA PositionOfLine ==
  ASSUME EInv, idx <= Len(lines), NextLine, lines' = lines, phase' = phase, phase = "parse"
  PROVE  /\ lines' \in Seq(Line) /\ idx' \in 1..(Len(lines') + 1) /\ upos' \in Nat \ {0}
         /\ ~(upos' > 1) /\ phase' \notin {"start", "serve", "rejected"}
<1>1. idx \in 1..Len(lines) /\ Len(lines) \in Nat
  BY CurrentLine
<1>2. QED
  BY <1>1 DEF NextLine, EInv

\* What a step of the parser does to the errors it has found.
LEMMA ErrorsStep ==
  ASSUME EInv, Parse
  PROVE  EInv'
<1>1. CASE SkipLine \/ BadLine \/ EndOfLine
  <2>1. /\ phase = "parse" /\ idx <= Len(lines) /\ NextLine
        /\ UNCHANGED <<lines, phase>>
    BY <1>1 DEF SkipLine, BadLine, EndOfLine, LineDone
  <2>2. /\ lines' \in Seq(Line) /\ idx' \in 1..(Len(lines') + 1) /\ upos' \in Nat \ {0}
        /\ ~(upos' > 1) /\ phase' \notin {"start", "serve", "rejected"}
    BY <2>1, PositionOfLine
  <2>3. FaultsSoFar' = { i \in 1..(idx - 1) : Faulty(lines[i]) } \cup { i \in {idx} : Faulty(Current) }
    BY <2>1, FaultsOfLine
  <2>4. /\ idx \in 1..Len(lines) /\ Len(lines) \in Nat /\ Current = lines[idx]
        /\ Len(Current.ups) \in Nat /\ DOMAIN Current.ups = 1..Len(Current.ups)
    BY <2>1, CurrentLine
  <2>5. errors \in Seq(Nat) /\ upos \in Nat \ {0} /\ Elements(errors) = FaultsSoFar
    BY DEF EInv
  <2>6. errors' \in Seq(Nat) /\ Elements(errors') = FaultsSoFar'
    <3>1. CASE SkipLine
      <4>1. Current.skip /\ errors' = errors /\ upos = 1
        BY <2>5, <3>1 DEF SkipLine, EInv
      <4>2. ~Faulty(Current)
        BY <4>1 DEF Faulty
      <4>3. 1..(upos - 1) = {}
        BY <4>1
      <4>4. QED
        BY <2>3, <2>5, <4>1, <4>2, <4>3 DEF FaultsSoFar
    <3>2. CASE BadLine
      <4>1. ~Current.skip /\ ~WellFormed(Current) /\ errors' = Append(errors, idx) /\ upos = 1
        BY <2>5, <3>2 DEF BadLine, EInv
      <4>2. Faulty(Current)
        BY <4>1 DEF Faulty
      <4>3. 1..(upos - 1) = {} /\ idx \in Nat
        BY <2>4, <4>1
      <4>4. errors' \in Seq(Nat) /\ Elements(errors') = Elements(errors) \cup {idx}
        BY <2>5, <4>1, <4>3, AppendElements
      <4>5. QED
        BY <2>3, <2>5, <4>2, <4>3, <4>4 DEF FaultsSoFar
    <3>3. CASE EndOfLine
      <4>1. ~Current.skip /\ WellFormed(Current) /\ upos > Len(Current.ups) /\ errors' = errors
        BY <3>3 DEF EndOfLine
      <4>2. upos - 1 = Len(Current.ups)
        BY <2>4, <2>5, <4>1, SMTT(30) DEF EInv
      <4>3. Faulty(Current) <=> \E j \in 1..(upos - 1) : ~Accepted(lines[idx].ups[j])
        BY <2>4, <4>1, <4>2, ZenonT(30) DEF Faulty
      <4>4. QED
        BY <2>3, <2>5, <4>1, <4>3, ZenonT(30) DEF FaultsSoFar
    <3>4. QED
      BY <1>1, <3>1, <3>2, <3>3
  <2>7. QED
    BY <2>2, <2>6 DEF EInv
<1>2. CASE ParseUpstream \/ BadUpstream
  <2>1. /\ phase = "parse" /\ idx <= Len(lines) /\ ~Current.skip /\ WellFormed(Current)
        /\ upos <= Len(Current.ups) /\ upos' = upos + 1 /\ UNCHANGED <<lines, phase, idx>>
    BY <1>2, ZenonT(30) DEF ParseUpstream, BadUpstream
  <2>2. /\ idx \in 1..Len(lines) /\ Len(lines) \in Nat /\ Current = lines[idx] /\ Current' = Current
        /\ Len(Current.ups) \in Nat
    BY <2>1, CurrentLine DEF Current
  <2>3. errors \in Seq(Nat) /\ upos \in Nat \ {0} /\ Elements(errors) = FaultsSoFar
    BY DEF EInv
  <2>4. 1..(upos' - 1) = 1..(upos - 1) \cup {upos}
    BY <2>1, <2>3
  <2>5. FaultsSoFar' = FaultsSoFar \cup { i \in {idx} : ~Accepted(Current.ups[upos]) }
    BY <2>1, <2>2, <2>4, ZenonT(30) DEF FaultsSoFar
  <2>6. errors' \in Seq(Nat) /\ Elements(errors') = FaultsSoFar'
    <3>1. CASE ParseUpstream
      <4>1. Accepted(Current.ups[upos]) /\ errors' = errors
        BY <3>1 DEF ParseUpstream
      <4>2. QED
        BY <2>3, <2>5, <4>1
    <3>2. CASE BadUpstream
      <4>1. ~Accepted(Current.ups[upos]) /\ errors' = Append(errors, idx) /\ idx \in Nat
        BY <2>2, <3>2 DEF BadUpstream
      <4>2. errors' \in Seq(Nat) /\ Elements(errors') = Elements(errors) \cup {idx}
        BY <2>3, <4>1, AppendElements
      <4>3. QED
        BY <2>3, <2>5, <4>1, <4>2
    <3>3. QED
      BY <1>2, <3>1, <3>2
  <2>7. upos' \in Nat \ {0} /\ upos' <= Len(Current'.ups) + 1
    BY <2>1, <2>2, <2>3
  <2>8. QED
    BY <2>1, <2>2, <2>6, <2>7, ZenonT(30) DEF EInv
<1>3. CASE ParseEnd
  <2>1. /\ idx > Len(lines) /\ UNCHANGED <<lines, idx, upos, errors>>
        /\ phase' = IF errors = <<>> THEN "serve" ELSE "rejected"
    BY <1>3 DEF ParseEnd
  <2>2. FaultsSoFar' = FaultsSoFar /\ Current' = Current
    BY <2>1 DEF FaultsSoFar, Current
  <2>3. idx = Len(lines) + 1
    BY <2>1 DEF EInv
  <2>4. QED
    BY <2>1, <2>2, <2>3 DEF EInv
<1>4. QED
  BY <1>1, <1>2, <1>3 DEF Parse

\* A step of the start is a step of main that does not touch the rules, or the
\* one that collects them, or one of the parser or of a lookup.
LEMMA StartupSteps ==
  ASSUME [StartupNext]_allVars
  PROVE  CollectLines \/ Parse \/ Lookup \/ UNCHANGED config
BY ZenonT(30) DEF StartupNext, Main, ParseStep, LookupStep, allVars, GenerateConfig, Bootstraps,
                CollectFails, Rejected, Credentials, CacheOptions, Bind, NextListener, Run

\* Lookups leave the parser's result alone.
LEMMA LookupKeeps ==
  ASSUME Lookup
  PROVE  UNCHANGED <<lines, phase, idx, upos, domain_upstreams, default_upstreams, errors>>
BY DEF Lookup, LookupBegin, LookupHit, LookupStrip, LookupFail

LEMMA InitErrors == StartupInit => EInv
<1> SUFFICES ASSUME StartupInit PROVE EInv
  OBVIOUS
<1>1. lines = <<>> /\ phase = "start" /\ idx = 1 /\ upos = 1 /\ errors = <<>>
  BY DEF StartupInit, Fresh
<1>2. 1..(idx - 1) = {} /\ 1..(upos - 1) = {}
  BY <1>1
<1>3. errors \in Seq(Nat) /\ Elements(errors) = {}
  BY <1>1, EmptySeq, NoElements, ZenonT(30)
<1>4. FaultsSoFar = {}
  BY <1>2 DEF FaultsSoFar
<1>5. QED
  BY <1>1, <1>3, <1>4 DEF EInv

LEMMA ErrorsInductive == EInv /\ StartOnce /\ [StartupNext]_allVars => EInv'
<1> SUFFICES ASSUME EInv, StartOnce, [StartupNext]_allVars PROVE EInv'
  OBVIOUS
<1>1. CASE CollectLines
  <2>1. /\ stage = "collect" /\ lines' = AllLines /\ phase' = "parse"
        /\ UNCHANGED <<idx, upos, errors>>
    BY <1>1, ZenonT(30) DEF CollectLines
  <2>2. phase = "start" /\ AllLines \in Seq(Line)
    BY <2>1, CollectedType DEF StartOnce
  <2>3. lines = <<>> /\ idx = 1 /\ upos = 1 /\ errors \in Seq(Nat) /\ Elements(errors) = FaultsSoFar
    BY <2>2 DEF EInv
  <2>4. 1..(idx - 1) = {} /\ 1..(upos - 1) = {} /\ Len(lines') \in Nat
    BY <2>1, <2>2, <2>3
  <2>5. FaultsSoFar = {} /\ FaultsSoFar' = {}
    BY <2>1, <2>4 DEF FaultsSoFar
  <2>6. QED
    BY <2>1, <2>2, <2>3, <2>4, <2>5 DEF EInv
<1>2. CASE Parse
  BY <1>2, ErrorsStep
<1>3. CASE Lookup \/ UNCHANGED config
  <2>1. UNCHANGED <<lines, phase, idx, upos, errors>>
    BY <1>3, LookupKeeps DEF config
  <2>2. FaultsSoFar' = FaultsSoFar /\ Current' = Current
    BY <2>1 DEF FaultsSoFar, Current
  <2>3. QED
    BY <2>1, <2>2 DEF EInv
<1>4. QED
  BY <1>1, <1>2, <1>3, StartupSteps

\* The rules are rejected exactly if some line of them is at fault, and every
\* such line is reported, whatever the lines are.
THEOREM EveryErrorIsReported == StartupSpec => []AllErrorsReported
<1>1. EInv => AllErrorsReported
  <2> SUFFICES ASSUME EInv, phase \in {"serve", "rejected"} PROVE AllErrorsReported
    BY ZenonT(30) DEF AllErrorsReported
  <2> DEFINE all == { i \in DOMAIN lines :
                        /\ ~lines[i].skip
                        /\ \/ ~WellFormed(lines[i])
                           \/ \E j \in DOMAIN lines[i].ups : ~Accepted(lines[i].ups[j]) }
  <2>1. idx = Len(lines) + 1 /\ Len(lines) \in Nat /\ DOMAIN lines = 1..Len(lines) /\ upos = 1
    BY DEF EInv
  <2>2. 1..(idx - 1) = DOMAIN lines /\ 1..(upos - 1) = {}
    BY <2>1
  <2>3. FaultsSoFar = all
    BY <2>2, ZenonT(30) DEF FaultsSoFar, Faulty
  <2>4. errors \in Seq(Nat) /\ Elements(errors) = all /\ DOMAIN errors = 1..Len(errors)
    BY <2>3 DEF EInv
  <2>5. errors = <<>> <=> all = {}
    BY <2>4, NoElements
  <2>6. phase = "serve" <=> errors = <<>>
    BY DEF EInv
  <2>7. { errors[i] : i \in DOMAIN errors } = all
    BY <2>4 DEF Elements
  <2>8. QED
    BY <2>5, <2>6, <2>7, ZenonT(30) DEF AllErrorsReported
<1>2. QED
  BY <1>1, InitErrors, ErrorsInductive, InitStartOnce, StartOnceStep, PTL DEF StartupSpec

----------------------------------------------------------------------------
(* Groups *)

Copies(u, n) == [i \in 1..n |-> u]

\* How often a line names d, and what each of its upstreams adds to d's group.
Named(l, d) == Cardinality({ j \in DOMAIN l.hosts : Lowered(l.hosts[j]) = d })
Pushes(l, d) == [i \in DOMAIN l.ups |-> Pushed(<<>>, l.ups[i], Named(l, d))]

LoweredHosts(l) == { Lowered(l.hosts[j]) : j \in DOMAIN l.hosts }

Functional(R) == \A r, q \in R : r.domain = q.domain => r = q

LEMMA CopiesType ==
  ASSUME NEW T, NEW u \in T, NEW n \in Nat
  PROVE  /\ Copies(u, n) \in Seq(T)
         /\ n = 0 => Copies(u, n) = <<>>
         /\ n = 1 => Copies(u, n) = <<u>>
<1>1. Copies(u, n) \in Seq(T) /\ Copies(u, n) \in [1..n -> T]
  BY SeqDef DEF Copies
<1>2. Len(Copies(u, n)) = n
  BY <1>1, LenProperties
<1>3. ASSUME n = 0 PROVE Copies(u, n) = <<>>
  BY <1>1, <1>2, <1>3, EmptySeq
<1>4. ASSUME n = 1 PROVE Copies(u, n) = <<u>>
  <2>1. \A i \in 1..1 : Copies(u, n)[i] = u
    BY <1>4 DEF Copies
  <2>2. <<u>> \in Seq(T) /\ Len(<<u>>) = 1 /\ <<u>>[1] = u
    OBVIOUS
  <2>3. QED
    BY <1>1, <1>2, <1>4, <2>1, <2>2, SeqEqual
<1>5. QED
  BY <1>1, <1>3, <1>4

LEMMA NamedType ==
  ASSUME NEW l \in Line, NEW d
  PROVE  Named(l, d) \in Nat /\ (d \notin LoweredHosts(l) => Named(l, d) = 0)
<1> DEFINE S == { j \in DOMAIN l.hosts : Lowered(l.hosts[j]) = d }
<1>1. l.hosts \in Seq(Domain)
  BY DEF Line
<1>2. DOMAIN l.hosts = 1..Len(l.hosts) /\ Len(l.hosts) \in Nat
  BY <1>1
<1>3. IsFiniteSet(DOMAIN l.hosts)
  BY <1>2, FS_Interval
<1>4. IsFiniteSet(S)
  BY <1>3, FS_Subset
<1>5. Cardinality(S) \in Nat
  BY <1>4, FS_CardinalityType
<1>6. ASSUME d \notin LoweredHosts(l) PROVE Cardinality(S) = 0
  <2>1. S = {}
    BY <1>6 DEF LoweredHosts
  <2>2. QED
    BY <2>1, FS_EmptySet
<1>7. QED
  BY <1>5, <1>6 DEF Named

LEMMA PushesType ==
  ASSUME NEW l \in Line, NEW d
  PROVE  /\ Pushes(l, d) \in Seq(Seq(Addresses)) /\ Len(Pushes(l, d)) = Len(l.ups)
         /\ \A k \in 1..Len(l.ups) : /\ Pushes(l, d)[k] \in Seq(Addresses)
                                     /\ Pushes(l, d)[k] = Copies(l.ups[k], Named(l, d))
<1>1. l.ups \in Seq(Addresses)
  BY DEF Line
<1>2. DOMAIN l.ups = 1..Len(l.ups) /\ Len(l.ups) \in Nat
  BY <1>1
<1>3. ASSUME NEW k \in 1..Len(l.ups)
      PROVE  /\ Pushed(<<>>, l.ups[k], Named(l, d)) = Copies(l.ups[k], Named(l, d))
             /\ Copies(l.ups[k], Named(l, d)) \in Seq(Addresses)
  <2>1. l.ups[k] \in Addresses
    BY <1>1, <1>2
  <2>2. Copies(l.ups[k], Named(l, d)) \in Seq(Addresses)
    BY <2>1, NamedType, CopiesType, ZenonT(30)
  <2>3. <<>> \o Copies(l.ups[k], Named(l, d)) = Copies(l.ups[k], Named(l, d))
    BY <2>2, ConcatEmptySeq
  <2>4. Pushed(<<>>, l.ups[k], Named(l, d)) = <<>> \o Copies(l.ups[k], Named(l, d))
    BY DEF Pushed, Copies
  <2>5. QED
    BY <2>2, <2>3, <2>4
<1>4. \A k \in 1..Len(l.ups) : Pushes(l, d)[k] = Pushed(<<>>, l.ups[k], Named(l, d))
  BY <1>2 DEF Pushes
<1>5. Pushes(l, d) \in [1..Len(l.ups) -> Seq(Addresses)]
  BY <1>2, <1>3, ZenonT(30) DEF Pushes
<1>6. Pushes(l, d) \in Seq(Seq(Addresses))
  BY <1>2, <1>5, SeqDef
<1>7. Len(Pushes(l, d)) = Len(l.ups)
  BY <1>2, <1>5, <1>6, LenProperties
<1>8. QED
  BY <1>3, <1>4, <1>6, <1>7

\* A line contributes what its upstreams push.
LEMMA ContributionOfLine ==
  ASSUME NEW l \in Line, NEW d
  PROVE  /\ Contribution(l, d) = IF l.skip THEN <<>> ELSE First(Pushes(l, d), Len(l.ups))
         /\ Contribution(l, d) \in Seq(Addresses)
<1>1. Pushes(l, d) \in Seq(Seq(Addresses)) /\ Len(Pushes(l, d)) = Len(l.ups)
  BY PushesType
<1>2. Flattened(Pushes(l, d)) = First(Pushes(l, d), Len(l.ups))
  BY <1>1, FirstAll
<1>3. Contribution(l, d) = IF l.skip THEN <<>> ELSE Flattened(Pushes(l, d))
  BY ZenonT(30) DEF Contribution, Pushes, Named
<1>4. First(Pushes(l, d), Len(l.ups)) \in Seq(Addresses)
  <2>1. Len(l.ups) \in Nat
    BY <1>1
  <2>2. \A k \in 1..Len(l.ups) : Pushes(l, d)[k] \in Seq(Addresses)
    BY PushesType
  <2>3. QED
    BY <2>1, <2>2, FirstType
<1>5. QED
  BY <1>2, <1>3, <1>4

LEMMA ChosenRule ==
  ASSUME NEW R, Functional(R), NEW r \in R
  PROVE  (CHOOSE q \in R : q.domain = r.domain) = r
<1>1. \E q \in R : q.domain = r.domain
  OBVIOUS
<1>2. \A q \in R : q.domain = r.domain => q = r
  BY DEF Functional
<1>3. QED
  BY <1>1, <1>2, ZenonT(30)

\* A well-formed line has domains exactly if it has a bracket; they are its
\* hosts in lower case.
LEMMA DomainsOfLine ==
  ASSUME NEW l \in Line, WellFormed(l)
  PROVE  /\ RuleDomains(l) = <<>> <=> ~l.bracket
         /\ { RuleDomains(l)[i] : i \in DOMAIN RuleDomains(l) } = LoweredHosts(l)
         /\ l.bracket => \A d : Mentions(l, d) = Named(l, d)
<1>1. l.hosts \in Seq(Domain) /\ (~l.bracket => l.hosts = <<>>)
      /\ (l.bracket => l.hosts # <<>>)
  BY DEF Line, WellFormed
<1>2. DOMAIN l.hosts = 1..Len(l.hosts) /\ Len(l.hosts) \in Nat
  BY <1>1
<1>3. CASE l.bracket
  <2>1. RuleDomains(l) = [i \in DOMAIN l.hosts |-> Lowered(l.hosts[i])]
    BY <1>3 DEF RuleDomains
  <2>2. /\ DOMAIN RuleDomains(l) = DOMAIN l.hosts
        /\ \A i \in DOMAIN l.hosts : RuleDomains(l)[i] = Lowered(l.hosts[i])
    BY <2>1
  <2>3. RuleDomains(l) # <<>>
    <3>1. 1 \in DOMAIN RuleDomains(l)
      BY <1>1, <1>2, <1>3, <2>2, EmptySeq
    <3>2. QED
      BY <3>1
  <2>4. ASSUME NEW d PROVE Mentions(l, d) = Named(l, d)
    <3>1. { i \in DOMAIN RuleDomains(l) : RuleDomains(l)[i] = d }
            = { i \in DOMAIN l.hosts : Lowered(l.hosts[i]) = d }
      BY <2>2
    <3>2. QED
      BY <3>1, ZenonT(30) DEF Mentions, Named
  <2>5. { RuleDomains(l)[i] : i \in DOMAIN RuleDomains(l) } = LoweredHosts(l)
    BY <2>2 DEF LoweredHosts
  <2>6. QED
    BY <1>3, <2>3, <2>4, <2>5
<1>4. CASE ~l.bracket
  <2>1. RuleDomains(l) = <<>> /\ l.hosts = <<>>
    BY <1>1, <1>4 DEF RuleDomains
  <2>2. QED
    BY <1>4, <2>1 DEF LoweredHosts
<1>5. QED
  BY <1>3, <1>4

\* Pushing an upstream for the domains of a rule changes their groups only.
LEMMA ExtendedGroups ==
  ASSUME NEW l \in Line, WellFormed(l), l.bracket, NEW u, Functional(domain_upstreams),
         domain_upstreams' = Extended(l, u)
  PROVE  /\ Functional(domain_upstreams')
         /\ Registered' = Registered \cup LoweredHosts(l)
         /\ \A d : OldGroup(d)' = IF d \in LoweredHosts(l)
                                  THEN Pushed(OldGroup(d), u, Named(l, d)) ELSE OldGroup(d)
<1> DEFINE ds == LoweredHosts(l)
           old == { r \in domain_upstreams : r.domain \notin ds }
           new == { [domain |-> d, group |-> Pushed(OldGroup(d), u, Named(l, d))] : d \in ds }
<1>1. domain_upstreams' = old \cup new
  <2>1. \A d : Mentions(l, d) = Named(l, d)
    BY DomainsOfLine, SMTT(30)
  <2>2. { RuleDomains(l)[i] : i \in DOMAIN RuleDomains(l) } = ds
    BY DomainsOfLine
  <2>3. Extended(l, u) =
          old \cup { [domain |-> d, group |-> Pushed(OldGroup(d), u, Mentions(l, d))] : d \in ds }
    BY <2>2, ZenonT(30) DEF Extended
  <2>4. \A d : [domain |-> d, group |-> Pushed(OldGroup(d), u, Mentions(l, d))]
                = [domain |-> d, group |-> Pushed(OldGroup(d), u, Named(l, d))]
    BY <2>1, ZenonT(30)
  <2>5. { [domain |-> d, group |-> Pushed(OldGroup(d), u, Mentions(l, d))] : d \in ds } = new
    BY <2>4, ZenonT(30)
  <2>6. QED
    BY <2>3, <2>5, ZenonT(30)
<1>2. \A r \in new : r.domain \in ds /\ r.group = Pushed(OldGroup(r.domain), u, Named(l, r.domain))
  BY SMTT(30)
<1>3. \A r \in old : r.domain \notin ds /\ r \in domain_upstreams
  OBVIOUS
<1>4. \A r, q \in new : r.domain = q.domain => r = q
  <2>1. \A r \in new :
          r = [domain |-> r.domain, group |-> Pushed(OldGroup(r.domain), u, Named(l, r.domain))]
    OBVIOUS
  <2> HIDE DEF new
  <2>2. QED
    BY <2>1, ZenonT(30)
<1>5. ASSUME NEW d \in ds PROVE \E r \in new : r.domain = d
  <2>1. [domain |-> d, group |-> Pushed(OldGroup(d), u, Named(l, d))] \in new
    BY ZenonT(30)
  <2>2. [domain |-> d, group |-> Pushed(OldGroup(d), u, Named(l, d))].domain = d
    OBVIOUS
  <2>3. QED
    BY <2>1, <2>2, ZenonT(30)
<1> HIDE DEF new, old, ds
<1>6. Functional(domain_upstreams')
  <2>1. \A r, q \in old : r.domain = q.domain => r = q
    BY <1>3 DEF Functional
  <2>2. QED
    BY <1>1, <1>2, <1>3, <1>4, <2>1 DEF Functional
<1>7. Registered' = Registered \cup ds
  <2>1. Registered' = { r.domain : r \in old } \cup { r.domain : r \in new }
    BY <1>1 DEF Registered
  <2>2. { r.domain : r \in new } = ds
    BY <1>2, <1>5
  <2>3. { r.domain : r \in old } = Registered \ ds
    BY DEF Registered, old
  <2>4. QED
    BY <2>1, <2>2, <2>3
<1>8. ASSUME NEW d \in ds PROVE OldGroup(d)' = Pushed(OldGroup(d), u, Named(l, d))
  <2>1. PICK r \in new : r.domain = d
    BY <1>5
  <2>2. r \in domain_upstreams' /\ r.group = Pushed(OldGroup(d), u, Named(l, d))
    BY <1>1, <1>2, <2>1
  <2>3. (CHOOSE q \in domain_upstreams' : q.domain = d) = r
    BY <1>6, <2>1, <2>2, ChosenRule
  <2>4. d \in Registered'
    BY <1>7, SMTT(30)
  <2>5. OldGroup(d)' = r.group
    BY <2>3, <2>4, ZenonT(30) DEF OldGroup, GroupOf
  <2>6. QED
    BY <2>2, <2>5
<1>9. ASSUME NEW d, d \notin ds PROVE OldGroup(d)' = OldGroup(d)
  <2>1. CASE d \in Registered
    <3>1. PICK r \in domain_upstreams : r.domain = d
      BY <2>1 DEF Registered
    <3>2. r \in domain_upstreams'
      BY <1>1, <1>9, <3>1 DEF old
    <3>3. (CHOOSE q \in domain_upstreams' : q.domain = d) = r
      BY <1>6, <3>1, <3>2, ChosenRule
    <3>4. (CHOOSE q \in domain_upstreams : q.domain = d) = r
      BY <3>1, ChosenRule
    <3>5. d \in Registered'
      BY <1>7, <2>1
    <3>6. OldGroup(d)' = r.group
      BY <3>3, <3>5, ZenonT(30) DEF OldGroup, GroupOf
    <3>7. OldGroup(d) = r.group
      BY <2>1, <3>4, ZenonT(30) DEF OldGroup, GroupOf
    <3>8. QED
      BY <3>6, <3>7
  <2>2. CASE d \notin Registered
    <3>1. d \notin Registered'
      BY <1>7, <1>9, <2>2
    <3>2. QED
      BY <2>2, <3>1 DEF OldGroup
  <2>3. QED
    BY <2>1, <2>2
<1>10. QED
  BY <1>6, <1>7, <1>8, <1>9 DEF ds

Contributions(d) == [i \in DOMAIN lines |-> Contribution(lines[i], d)]
Defaults ==
  [i \in DOMAIN lines |-> IF lines[i].skip \/ lines[i].bracket THEN <<>> ELSE lines[i].ups]

\* What the lines parsed so far, and of the current one the upstreams parsed
\* so far, give to the group of d and to the default group.
GroupSoFar(d) == First(Contributions(d), idx - 1) \o First(Pushes(Current, d), upos - 1)
DefaultsSoFar ==
  First(Defaults, idx - 1)
    \o IF upos = 1 \/ Current.bracket THEN <<>> ELSE SubSeq(Current.ups, 1, upos - 1)

\* As long as no error is found the groups are what has been parsed.
GInv ==
  /\ Functional(domain_upstreams)
  /\ errors = <<>> =>
       /\ \A d : OldGroup(d) = GroupSoFar(d)
       /\ \A i \in 1..(idx - 1) : ~lines[i].skip => LoweredHosts(lines[i]) \subseteq Registered
       /\ upos > 1 => LoweredHosts(Current) \subseteq Registered
       /\ default_upstreams = DefaultsSoFar

LEMMA ContributionsType ==
  ASSUME lines \in Seq(Line), NEW d
  PROVE  /\ Contributions(d) \in Seq(Seq(Addresses)) /\ Len(Contributions(d)) = Len(lines)
         /\ \A i \in 1..Len(lines) : /\ Contributions(d)[i] = Contribution(lines[i], d)
                                     /\ Contributions(d)[i] \in Seq(Addresses)
<1>1. DOMAIN lines = 1..Len(lines) /\ Len(lines) \in Nat /\ \A i \in 1..Len(lines) : lines[i] \in Line
  OBVIOUS
<1>2. \A i \in 1..Len(lines) : Contribution(lines[i], d) \in Seq(Addresses)
  BY <1>1, ContributionOfLine
<1>3. \A i \in 1..Len(lines) : Contributions(d)[i] = Contribution(lines[i], d)
  BY <1>1 DEF Contributions
<1>4. Contributions(d) \in [1..Len(lines) -> Seq(Addresses)]
  BY <1>1, <1>2, ZenonT(30) DEF Contributions
<1>5. Contributions(d) \in Seq(Seq(Addresses))
  BY <1>1, <1>4, SeqDef
<1>6. Len(Contributions(d)) = Len(lines)
  BY <1>1, <1>4, <1>5, LenProperties
<1>7. QED
  BY <1>2, <1>3, <1>5, <1>6

LEMMA DefaultsType ==
  ASSUME lines \in Seq(Line)
  PROVE  /\ Defaults \in Seq(Seq(Addresses)) /\ Len(Defaults) = Len(lines)
         /\ \A i \in 1..Len(lines) :
              /\ Defaults[i] = IF lines[i].skip \/ lines[i].bracket THEN <<>> ELSE lines[i].ups
              /\ Defaults[i] \in Seq(Addresses)
<1> DEFINE byLine(i) == IF lines[i].skip \/ lines[i].bracket THEN <<>> ELSE lines[i].ups
<1>1. DOMAIN lines = 1..Len(lines) /\ Len(lines) \in Nat /\ \A i \in 1..Len(lines) : lines[i] \in Line
  OBVIOUS
<1>2. ASSUME NEW i \in 1..Len(lines) PROVE byLine(i) \in Seq(Addresses)
  <2>1. lines[i].ups \in Seq(Addresses)
    BY <1>1 DEF Line
  <2>2. QED
    BY <2>1
<1>3. Defaults = [i \in 1..Len(lines) |-> byLine(i)]
  BY <1>1, ZenonT(30) DEF Defaults
<1> HIDE DEF byLine
<1>4. \A i \in 1..Len(lines) : Defaults[i] = byLine(i)
  BY <1>3
<1>5. Defaults \in [1..Len(lines) -> Seq(Addresses)]
  BY <1>2, <1>3
<1>6. Defaults \in Seq(Seq(Addresses))
  BY <1>1, <1>5, SeqDef
<1>7. Len(Defaults) = Len(lines)
  BY <1>1, <1>5, <1>6, LenProperties
<1>8. QED
  BY <1>2, <1>4, <1>6, <1>7, SMTT(30) DEF byLine

\* The parts of a group so far are lists of addresses.
LEMMA SoFarType ==
  ASSUME EInv, NEW d
  PROVE  /\ First(Contributions(d), idx - 1) \in Seq(Addresses)
         /\ First(Defaults, idx - 1) \in Seq(Addresses)
         /\ idx <= Len(lines) /\ upos <= Len(Current.ups) + 1 =>
              First(Pushes(Current, d), upos - 1) \in Seq(Addresses)
<1>1. /\ lines \in Seq(Line) /\ idx - 1 \in Nat /\ upos - 1 \in Nat
      /\ \A k \in 1..(idx - 1) : k \in 1..Len(lines)
  BY DEF EInv
<1>2. \A k \in 1..(idx - 1) : Contributions(d)[k] \in Seq(Addresses) /\ Defaults[k] \in Seq(Addresses)
  BY <1>1, ContributionsType, DefaultsType, SMTT(30)
<1>3. First(Contributions(d), idx - 1) \in Seq(Addresses) /\ First(Defaults, idx - 1) \in Seq(Addresses)
  BY <1>1, <1>2, FirstType, ZenonT(30)
<1>4. ASSUME idx <= Len(lines), upos <= Len(Current.ups) + 1
      PROVE  First(Pushes(Current, d), upos - 1) \in Seq(Addresses)
  <2>1. Current \in Line /\ Len(Current.ups) \in Nat
    BY <1>4, CurrentLine
  <2>2. upos - 1 <= Len(Current.ups) /\ \A k \in 1..(upos - 1) : k \in 1..Len(Current.ups)
    <3>1. upos \in Nat
      BY DEF EInv
    <3>2. QED
      BY <1>4, <2>1, <3>1
  <2>3. \A k \in 1..(upos - 1) : Pushes(Current, d)[k] \in Seq(Addresses)
    BY <2>1, <2>2, PushesType
  <2>4. QED
    BY <1>1, <2>3, FirstType
<1>5. QED
  BY <1>3, <1>4

\* At the end of a line its contribution is complete.
LEMMA GroupsAfterLine ==
  ASSUME EInv, idx <= Len(lines), NextLine, lines' = lines,
         \/ Current.skip /\ upos = 1
         \/ ~Current.skip /\ upos = Len(Current.ups) + 1
  PROVE  (\A d : GroupSoFar(d)' = GroupSoFar(d)) /\ DefaultsSoFar' = DefaultsSoFar
<1>1. /\ idx \in 1..Len(lines) /\ lines \in Seq(Line) /\ Current = lines[idx] /\ Current \in Line
      /\ Current.ups \in Seq(Addresses) /\ Len(Current.ups) \in Nat
  BY CurrentLine DEF EInv
<1>2. idx' - 1 = idx /\ upos' = 1 /\ upos' - 1 = 0 /\ idx - 1 \in Nat /\ (idx - 1) + 1 = idx
  BY <1>1 DEF NextLine
<1>3. ASSUME NEW d PROVE GroupSoFar(d)' = GroupSoFar(d)
  <2> DEFINE C == Contributions(d)
             before == First(C, idx - 1)
  <2>1. C[idx] = Contribution(Current, d) /\ C[idx] \in Seq(Addresses)
    BY <1>1, ContributionsType, SMTT(30)
  <2>2. before \in Seq(Addresses)
    BY SoFarType
  <2>3. First(C, idx) = before \o C[idx]
    <3>1. First(C, (idx - 1) + 1) = First(C, idx - 1) \o C[(idx - 1) + 1]
      BY <1>2, FirstStep, ZenonT(30)
    <3>2. QED
      BY <1>2, <3>1, ZenonT(30)
  <2>4. First(Pushes(Current, d), upos - 1) = C[idx]
    <3>1. CASE Current.skip
      <4>1. upos - 1 = 0 /\ Contribution(Current, d) = <<>>
        BY <1>1, <3>1, ContributionOfLine
      <4>2. QED
        BY <2>1, <4>1, FirstStep
    <3>2. CASE ~Current.skip
      <4>1. upos - 1 = Len(Current.ups)
        BY <1>1, <3>2
      <4>2. Contribution(Current, d) = First(Pushes(Current, d), Len(Current.ups))
        BY <1>1, <3>2, ContributionOfLine
      <4>3. QED
        BY <2>1, <4>1, <4>2
    <3>3. QED
      BY <3>1, <3>2
  <2>5. C' = C
    BY DEF Contributions
  <2>6. GroupSoFar(d)' = First(C, idx) \o First(Pushes(Current', d), 0)
    BY <1>2, <2>5 DEF GroupSoFar
  <2>7. First(Pushes(Current', d), 0) = <<>>
    BY FirstStep
  <2>8. GroupSoFar(d) = before \o C[idx]
    BY <2>4, ZenonT(30) DEF GroupSoFar
  <2> HIDE DEF C, before
  <2>9. (before \o C[idx]) \o <<>> = before \o C[idx]
    BY <2>1, <2>2, ConcatProperties, ConcatEmptySeq, SMTT(30)
  <2>10. QED
    BY <2>3, <2>6, <2>7, <2>8, <2>9, ZenonT(30)
<1>4. DefaultsSoFar' = DefaultsSoFar
  <2> DEFINE before == First(Defaults, idx - 1)
             part == IF upos = 1 \/ Current.bracket THEN <<>> ELSE SubSeq(Current.ups, 1, upos - 1)
  <2>1. /\ Defaults[idx] = IF Current.skip \/ Current.bracket THEN <<>> ELSE Current.ups
        /\ Defaults[idx] \in Seq(Addresses)
    BY <1>1, DefaultsType, ZenonT(30)
  <2>2. before \in Seq(Addresses)
    BY SoFarType
  <2>3. First(Defaults, idx) = before \o Defaults[idx]
    <3>1. First(Defaults, (idx - 1) + 1) = First(Defaults, idx - 1) \o Defaults[(idx - 1) + 1]
      BY <1>2, FirstStep, ZenonT(30)
    <3>2. QED
      BY <1>2, <3>1, ZenonT(30)
  <2>4. part = Defaults[idx]
    <3>1. CASE Current.skip \/ Current.bracket
      BY <2>1, <3>1
    <3>2. CASE ~Current.skip /\ ~Current.bracket /\ upos = 1
      <4>1. Len(Current.ups) = 0
        BY <1>1, <3>2, SMTT(30)
      <4>2. QED
        BY <1>1, <2>1, <3>2, <4>1, EmptySeq
    <3>3. CASE ~Current.skip /\ ~Current.bracket /\ upos # 1
      <4>1. upos - 1 = Len(Current.ups)
        BY <1>1, <3>3, SMTT(30)
      <4>2. SubSeq(Current.ups, 1, Len(Current.ups)) = Current.ups
        BY <1>1, SubSeqFull
      <4>3. QED
        BY <2>1, <3>3, <4>1, <4>2, ZenonT(30)
    <3>4. QED
      BY <3>1, <3>2, <3>3, SMTT(30)
  <2>5. Defaults' = Defaults
    BY DEF Defaults
  <2>6. DefaultsSoFar' = First(Defaults, idx) \o <<>>
    BY <1>2, <2>5 DEF DefaultsSoFar
  <2>7. DefaultsSoFar = before \o Defaults[idx]
    BY <2>4, ZenonT(30) DEF DefaultsSoFar
  <2> HIDE DEF before, part
  <2>8. (before \o Defaults[idx]) \o <<>> = before \o Defaults[idx]
    BY <2>1, <2>2, ConcatProperties, ConcatEmptySeq
  <2>9. QED
    BY <2>3, <2>6, <2>7, <2>8, ZenonT(30)
<1>5. QED
  BY <1>3, <1>4

\* An upstream adds a copy of itself for each time its line names a domain, and
\* itself to the default group if the line names none.
LEMMA GroupsAfterUpstream ==
  ASSUME EInv, idx <= Len(lines), upos <= Len(Current.ups), UNCHANGED <<lines, idx>>,
         upos' = upos + 1
  PROVE  /\ \A d : /\ GroupSoFar(d) \in Seq(Addresses)
                   /\ GroupSoFar(d)' = Pushed(GroupSoFar(d), Current.ups[upos], Named(Current, d))
         /\ DefaultsSoFar \in Seq(Addresses)
         /\ DefaultsSoFar' = IF Current.bracket THEN DefaultsSoFar
                             ELSE Append(DefaultsSoFar, Current.ups[upos])
<1>1. /\ Current \in Line /\ Current' = Current /\ Current.ups \in Seq(Addresses)
      /\ Len(Current.ups) \in Nat
  BY CurrentLine DEF Current
<1>2. upos - 1 \in Nat /\ (upos - 1) + 1 = upos /\ upos' - 1 = upos /\ upos \in 1..Len(Current.ups)
      /\ upos' # 1
  BY <1>1 DEF EInv
<1>3. ASSUME NEW d
      PROVE  /\ GroupSoFar(d) \in Seq(Addresses)
             /\ GroupSoFar(d)' = Pushed(GroupSoFar(d), Current.ups[upos], Named(Current, d))
  <2> DEFINE before == First(Contributions(d), idx - 1)
             P == Pushes(Current, d)
             part == First(P, upos - 1)
  <2>1. P[upos] = Copies(Current.ups[upos], Named(Current, d)) /\ P[upos] \in Seq(Addresses)
    BY <1>1, <1>2, PushesType, SMTT(30)
  <2>2. before \in Seq(Addresses) /\ part \in Seq(Addresses)
    BY <1>1, <1>2, SoFarType, SMTT(30)
  <2>3. First(P, upos) = part \o P[upos]
    <3>1. First(P, (upos - 1) + 1) = First(P, upos - 1) \o P[(upos - 1) + 1]
      BY <1>2, FirstStep, ZenonT(30)
    <3>2. QED
      BY <1>2, <3>1, ZenonT(30)
  <2>4. P' = P /\ Contributions(d)' = Contributions(d)
    BY <1>1 DEF Pushes, Contributions
  <2>5. GroupSoFar(d)' = before \o First(P, upos)
    BY <1>2, <2>4 DEF GroupSoFar
  <2>6. GroupSoFar(d) = before \o part
    BY DEF GroupSoFar
  <2>7. Pushed(GroupSoFar(d), Current.ups[upos], Named(Current, d)) = (before \o part) \o P[upos]
    BY <2>1, <2>6, ZenonT(30) DEF Pushed, Copies
  <2> HIDE DEF before, P, part
  <2>8. (before \o part) \o P[upos] = before \o (part \o P[upos]) /\ before \o part \in Seq(Addresses)
    BY <2>1, <2>2, ConcatAssociative, ConcatProperties, SMTT(60)
  <2>9. QED
    BY <2>3, <2>5, <2>6, <2>7, <2>8, ZenonT(30)
<1>4. /\ DefaultsSoFar \in Seq(Addresses)
      /\ DefaultsSoFar' = IF Current.bracket THEN DefaultsSoFar
                          ELSE Append(DefaultsSoFar, Current.ups[upos])
  <2> DEFINE before == First(Defaults, idx - 1)
             u == Current.ups[upos]
             part == IF upos = 1 \/ Current.bracket THEN <<>> ELSE SubSeq(Current.ups, 1, upos - 1)
  <2>1. before \in Seq(Addresses) /\ u \in Addresses
    BY <1>1, <1>2, SoFarType, SMTT(30)
  <2>2. Defaults' = Defaults
    BY DEF Defaults
  <2>3. /\ DefaultsSoFar = before \o part
        /\ DefaultsSoFar' = before \o IF Current.bracket THEN <<>> ELSE SubSeq(Current.ups, 1, upos)
    BY <1>1, <1>2, <2>2 DEF DefaultsSoFar
  <2>4. CASE Current.bracket
    <3>1. before \o <<>> \in Seq(Addresses)
      BY <2>1, ConcatEmptySeq
    <3>2. QED
      BY <2>3, <2>4, <3>1
  <2>5. CASE ~Current.bracket
    <3>1. SubSeq(Current.ups, 1, upos) = SubSeq(Current.ups, 1, upos - 1) \o <<u>>
      BY <1>1, <1>2, SubSeqRecursiveSecond, SMTT(30)
    <3>2. part = SubSeq(Current.ups, 1, upos - 1)
      <4>1. upos = 1 => SubSeq(Current.ups, 1, upos - 1) = <<>>
        BY SubSeqEmpty
      <4>2. QED
        BY <2>5, <4>1, ZenonT(30)
    <3>3. part \in Seq(Addresses)
      BY <1>1, <1>2, <3>2, SubSeqProperties
    <3>4. <<u>> \in Seq(Addresses)
      BY <2>1, SMTT(30)
    <3>5. DefaultsSoFar' = before \o (part \o <<u>>)
      BY <2>3, <2>5, <3>1, <3>2, ZenonT(30)
    <3> HIDE DEF before, part, u
    <3>6. before \o (part \o <<u>>) = (before \o part) \o <<u>> /\ before \o part \in Seq(Addresses)
      BY <2>1, <3>3, <3>4, ConcatAssociative, ConcatProperties, SMTT(60)
    <3>7. (before \o part) \o <<u>> = Append(before \o part, u)
      BY <2>1, <3>6, AppendIsConcat, SMTT(30)
    <3>8. QED
      BY <2>3, <2>5, <3>5, <3>6, <3>7, ZenonT(30) DEF u
  <2>6. QED
    BY <2>4, <2>5, ZenonT(30)
<1>5. QED
  BY <1>3, <1>4, ZenonT(30)

LEMMA GroupsStay ==
  ASSUME GInv, UNCHANGED <<lines, idx, upos, domain_upstreams, default_upstreams, errors>>
  PROVE  GInv'
<1>1. Current' = Current /\ Registered' = Registered /\ Defaults' = Defaults
      /\ \A d : Contributions(d)' = Contributions(d)
  BY ZenonT(30) DEF Current, Registered, Defaults, Contributions
<1>2. DefaultsSoFar' = DefaultsSoFar
  BY <1>1 DEF DefaultsSoFar
<1>3. \A d : GroupSoFar(d)' = GroupSoFar(d)
  BY <1>1, ZenonT(30) DEF GroupSoFar
<1>4. \A d : OldGroup(d)' = OldGroup(d)
  BY DEF OldGroup, GroupOf, Registered
<1>5. Functional(domain_upstreams)'
  BY DEF GInv, Functional
<1>6. QED
  BY <1>1, <1>2, <1>3, <1>4, <1>5, ZenonT(30) DEF GInv

LEMMA GroupsStep ==
  ASSUME EInv, GInv, Parse
  PROVE  GInv'
<1>1. CASE SkipLine \/ EndOfLine
  <2>1. /\ idx <= Len(lines) /\ NextLine /\ UNCHANGED <<lines, domain_upstreams, default_upstreams, errors>>
        /\ \/ Current.skip
           \/ ~Current.skip /\ WellFormed(Current) /\ upos > Len(Current.ups)
    BY <1>1, ZenonT(30) DEF SkipLine, EndOfLine, LineDone
  <2>2. /\ idx \in 1..Len(lines) /\ Current = lines[idx] /\ Current \in Line /\ Len(Current.ups) \in Nat
        /\ Current.ups \in Seq(Addresses)
    BY <2>1, CurrentLine
  <2>3. idx' = idx + 1 /\ upos' = 1
    BY <2>1 DEF NextLine
  <2>4. \/ Current.skip /\ upos = 1
        \/ ~Current.skip /\ upos = Len(Current.ups) + 1
    BY <2>1, <2>2, SMTT(30) DEF EInv
  <2>5. (\A d : GroupSoFar(d)' = GroupSoFar(d)) /\ DefaultsSoFar' = DefaultsSoFar
    BY <2>1, <2>4, GroupsAfterLine
  <2>6. Registered' = Registered /\ \A d : OldGroup(d)' = OldGroup(d)
    BY <2>1, SMTT(30) DEF Registered, OldGroup, GroupOf
  <2>7. ASSUME errors = <<>>, NEW i \in 1..(idx' - 1), ~lines[i].skip
        PROVE  LoweredHosts(lines[i]) \subseteq Registered
    <3>1. CASE i < idx
      BY <2>2, <2>7, <3>1, SMTT(30) DEF GInv
    <3>2. CASE i = idx /\ upos > 1
      BY <2>2, <2>7, <3>2, ZenonT(30) DEF GInv
    <3>3. CASE i = idx /\ upos = 1
      <4>1. WellFormed(Current) /\ Len(Current.ups) = 0
        BY <2>1, <2>2, <2>4, <2>7, <3>3
      <4>2. Current.ups = <<>>
        BY <2>2, <4>1, EmptySeq, ZenonT(30)
      <4>3. Current.hosts = <<>>
        BY <2>2, <4>1, <4>2, SMTT(30) DEF WellFormed, Line
      <4>4. LoweredHosts(Current) = {}
        BY <4>3, SMTT(30) DEF LoweredHosts
      <4>5. QED
        BY <2>2, <3>3, <4>4, SMTT(30)
    <3>4. upos = 1 \/ upos > 1
      BY DEF EInv
    <3>5. i < idx \/ i = idx
      BY <2>2, <2>3
    <3>6. QED
      BY <3>1, <3>2, <3>3, <3>4, <3>5
  <2>8. QED
    BY <2>1, <2>3, <2>5, <2>6, <2>7, SMTT(30) DEF GInv
<1>2. CASE BadLine \/ BadUpstream
  <2>1. domain_upstreams' = domain_upstreams /\ errors' = Append(errors, idx)
    BY <1>2, SMTT(30) DEF BadLine, BadUpstream, LineDone
  <2>2. errors \in Seq(Nat) /\ idx \in Nat
    BY DEF EInv
  <2>3. errors' # <<>>
    BY <2>1, <2>2
  <2>4. QED
    BY <2>1, <2>3, ZenonT(30) DEF GInv
<1>3. CASE ParseUpstream
  <2> DEFINE u == Current.ups[upos]
  <2>1. /\ idx <= Len(lines) /\ ~Current.skip /\ WellFormed(Current) /\ upos <= Len(Current.ups)
        /\ upos' = upos + 1 /\ UNCHANGED <<lines, idx, errors>>
        /\ \/ /\ RuleDomains(Current) = <<>> /\ default_upstreams' = Append(default_upstreams, u)
              /\ domain_upstreams' = domain_upstreams
           \/ /\ RuleDomains(Current) # <<>> /\ domain_upstreams' = Extended(Current, u)
              /\ default_upstreams' = default_upstreams
    BY <1>3, ZenonT(30) DEF ParseUpstream
  <2>2. Current \in Line /\ Current' = Current /\ Current.ups \in Seq(Addresses)
    BY <2>1, CurrentLine, ZenonT(30) DEF Current
  <2>3. /\ \A d : /\ GroupSoFar(d) \in Seq(Addresses)
                  /\ GroupSoFar(d)' = Pushed(GroupSoFar(d), u, Named(Current, d))
        /\ DefaultsSoFar' = IF Current.bracket THEN DefaultsSoFar ELSE Append(DefaultsSoFar, u)
    BY <2>1, GroupsAfterUpstream, ZenonT(30)
  <2>4. u \in Addresses
    BY <2>1, <2>2, SMTT(30) DEF EInv
  <2> HIDE DEF u
  <2>5. ASSUME NEW d, d \notin LoweredHosts(Current)
        PROVE  Pushed(GroupSoFar(d), u, Named(Current, d)) = GroupSoFar(d)
    <3>1. Named(Current, d) = 0
      BY <2>2, <2>5, NamedType, SMTT(30)
    <3>2. Copies(u, 0) = <<>>
      BY <2>4, CopiesType
    <3>3. Pushed(GroupSoFar(d), u, 0) = GroupSoFar(d) \o Copies(u, 0)
      BY DEF Pushed, Copies
    <3>4. GroupSoFar(d) \o <<>> = GroupSoFar(d)
      BY <2>3, ConcatEmptySeq
    <3>5. QED
      BY <3>1, <3>2, <3>3, <3>4, ZenonT(30)
  <2>6. (RuleDomains(Current) = <<>>) = ~Current.bracket
    BY <2>1, <2>2, DomainsOfLine, ZenonT(30)
  <2>7. CASE RuleDomains(Current) = <<>>
    <3>1. ~Current.bracket /\ LoweredHosts(Current) = {}
      BY <2>2, <2>6, <2>7, SMTT(30) DEF Line, LoweredHosts
    <3>2. Registered' = Registered /\ \A d : OldGroup(d)' = OldGroup(d)
      BY <2>1, <2>7, SMTT(30) DEF Registered, OldGroup, GroupOf
    <3>3. \A d : GroupSoFar(d)' = GroupSoFar(d)
      BY <2>3, <2>5, <3>1
    <3>4. Functional(domain_upstreams)'
      BY <2>1, <2>7, SMTT(30) DEF GInv, Functional
    <3>5. errors = <<>> => default_upstreams' = DefaultsSoFar'
      BY <2>1, <2>3, <2>7, <3>1 DEF GInv
    <3>6. LoweredHosts(Current') \subseteq Registered'
      BY <2>2, <3>1
    <3>7. QED
      BY <2>1, <3>2, <3>3, <3>4, <3>5, <3>6, ZenonT(30) DEF GInv
  <2>8. CASE RuleDomains(Current) # <<>>
    <3>1. Current.bracket /\ Functional(domain_upstreams) /\ domain_upstreams' = Extended(Current, u)
      BY <2>1, <2>6, <2>8, SMTT(30) DEF GInv
    <3>2. /\ Functional(domain_upstreams')
          /\ Registered' = Registered \cup LoweredHosts(Current)
          /\ \A d : OldGroup(d)' = IF d \in LoweredHosts(Current)
                                   THEN Pushed(OldGroup(d), u, Named(Current, d)) ELSE OldGroup(d)
      BY <2>1, <2>2, <3>1, ExtendedGroups, ZenonT(30)
    <3>3. ASSUME errors = <<>>, NEW d PROVE OldGroup(d)' = GroupSoFar(d)'
      <4>1. OldGroup(d) = GroupSoFar(d)
        BY <3>3, ZenonT(30) DEF GInv
      <4>2. QED
        BY <2>3, <2>5, <3>2, <4>1, ZenonT(30)
    <3>4. Functional(domain_upstreams)'
      BY <3>2 DEF Functional
    <3>5. errors = <<>> => default_upstreams' = DefaultsSoFar'
      BY <2>1, <2>3, <2>8, <3>1 DEF GInv
    <3>6. LoweredHosts(Current') \subseteq Registered' /\ Registered \subseteq Registered'
      BY <2>2, <3>2
    <3>7. errors = <<>> =>
            \A i \in 1..(idx - 1) : ~lines[i].skip => LoweredHosts(lines[i]) \subseteq Registered'
      BY <3>6 DEF GInv
    <3>8. QED
      BY <2>1, <3>3, <3>4, <3>5, <3>6, <3>7, ZenonT(30) DEF GInv
  <2>9. QED
    BY <2>7, <2>8
<1>4. CASE ParseEnd
  <2>1. UNCHANGED <<lines, idx, upos, domain_upstreams, default_upstreams, errors>>
    BY <1>4 DEF ParseEnd
  <2>2. QED
    BY <2>1, GroupsStay
<1>5. QED
  BY <1>1, <1>2, <1>3, <1>4 DEF Parse

\* Once all lines are parsed the groups are complete.
LEMMA GroupsComplete ==
  ASSUME EInv, GInv, phase = "serve"
  PROVE  /\ \A d : OldGroup(d) = First(Contributions(d), Len(lines))
         /\ \A i \in 1..Len(lines) : ~lines[i].skip => LoweredHosts(lines[i]) \subseteq Registered
         /\ default_upstreams = First(Defaults, Len(lines))
<1>1. idx = Len(lines) + 1 /\ Len(lines) \in Nat /\ upos = 1 /\ errors = <<>>
  BY SMTT(30) DEF EInv
<1>2. idx - 1 = Len(lines) /\ upos - 1 = 0
  BY <1>1
<1>3. ASSUME NEW d PROVE GroupSoFar(d) = First(Contributions(d), Len(lines))
  <2>1. First(Pushes(Current, d), 0) = <<>>
    BY FirstStep
  <2>2. First(Contributions(d), Len(lines)) \o <<>> = First(Contributions(d), Len(lines))
    BY <1>2, SoFarType, ConcatEmptySeq
  <2>3. QED
    BY <1>2, <2>1, <2>2, ZenonT(30) DEF GroupSoFar
<1>4. DefaultsSoFar = First(Defaults, Len(lines))
  <2>1. First(Defaults, Len(lines)) \o <<>> = First(Defaults, Len(lines))
    BY <1>2, SoFarType, ConcatEmptySeq
  <2>2. QED
    BY <1>1, <1>2, <2>1 DEF DefaultsSoFar
<1>5. QED
  BY <1>1, <1>2, <1>3, <1>4 DEF GInv

LEMMA InitGroups == StartupInit => GInv
<1> SUFFICES ASSUME StartupInit PROVE GInv
  OBVIOUS
<1>1. lines = <<>> /\ idx = 1 /\ upos = 1 /\ domain_upstreams = {} /\ default_upstreams = <<>>
  BY DEF StartupInit, Fresh
<1>2. Functional(domain_upstreams) /\ Registered = {}
  BY <1>1 DEF Functional, Registered
<1>3. idx - 1 = 0 /\ upos - 1 = 0 /\ 1..(idx - 1) = {} /\ <<>> \o <<>> = <<>>
  BY <1>1
<1>4. \A d : First(Contributions(d), 0) = <<>> /\ First(Pushes(Current, d), 0) = <<>>
  BY FirstStep
<1>5. First(Defaults, 0) = <<>>
  BY FirstStep
<1>6. \A d : OldGroup(d) = GroupSoFar(d)
  BY <1>2, <1>3, <1>4 DEF OldGroup, GroupSoFar
<1>7. default_upstreams = DefaultsSoFar
  BY <1>1, <1>3, <1>5 DEF DefaultsSoFar
<1>8. QED
  BY <1>1, <1>2, <1>3, <1>6, <1>7 DEF GInv

LEMMA GroupsInductive == EInv /\ GInv /\ StartOnce /\ [StartupNext]_allVars => GInv'
<1> SUFFICES ASSUME EInv, GInv, StartOnce, [StartupNext]_allVars PROVE GInv'
  OBVIOUS
<1>1. CASE CollectLines
  <2>1. stage = "collect" /\ UNCHANGED <<idx, upos, domain_upstreams, default_upstreams, errors>>
    BY <1>1, SMTT(30) DEF CollectLines
  <2>2. idx = 1 /\ upos = 1
    BY <2>1 DEF StartOnce, EInv
  <2>3. idx - 1 = 0 /\ upos - 1 = 0 /\ 1..(idx - 1) = {}
    BY <2>2
  <2>4. \A d : /\ First(Contributions(d), 0) = <<>> /\ First(Pushes(Current, d), 0) = <<>>
               /\ First(Contributions(d)', 0) = <<>> /\ First(Pushes(Current', d), 0) = <<>>
    BY FirstStep
  <2>5. First(Defaults, 0) = <<>> /\ First(Defaults', 0) = <<>>
    BY FirstStep
  <2>6. \A d : GroupSoFar(d)' = GroupSoFar(d)
    BY <2>1, <2>3, <2>4 DEF GroupSoFar
  <2>7. DefaultsSoFar' = DefaultsSoFar
    BY <2>1, <2>2, <2>3, <2>5 DEF DefaultsSoFar
  <2>8. Registered' = Registered /\ \A d : OldGroup(d)' = OldGroup(d)
    BY <2>1, SMTT(30) DEF Registered, OldGroup, GroupOf
  <2>9. Functional(domain_upstreams)'
    BY <2>1 DEF GInv, Functional
  <2>10. QED
    BY <2>1, <2>2, <2>3, <2>6, <2>7, <2>8, <2>9, SMTT(30) DEF GInv
<1>2. CASE Parse
  BY <1>2, GroupsStep
<1>3. CASE Lookup \/ UNCHANGED config
  BY <1>3, LookupKeeps, GroupsStay DEF config
<1>4. QED
  BY <1>1, <1>2, <1>3, StartupSteps

\* Every group lists the upstreams of the file's rules for it, in the order of
\* the file, whatever the lines are.
THEOREM GroupsAreTheFiles == StartupSpec => []GroupsFollowTheFile
<1>1. EInv /\ GInv => GroupsFollowTheFile
  <2> SUFFICES ASSUME EInv, GInv, phase = "serve" PROVE GroupsFollowTheFile
    BY ZenonT(30) DEF GroupsFollowTheFile
  <2>1. lines \in Seq(Line) /\ DOMAIN lines = 1..Len(lines)
    BY DEF EInv
  <2>2. ASSUME NEW r \in domain_upstreams
        PROVE  r.group = Flattened([i \in DOMAIN lines |-> Contribution(lines[i], r.domain)])
    <3>1. r.group = OldGroup(r.domain)
      <4>1. (CHOOSE q \in domain_upstreams : q.domain = r.domain) = r
        BY ChosenRule DEF GInv
      <4>2. r.domain \in Registered
        BY DEF Registered
      <4>3. QED
        BY <4>1, <4>2, ZenonT(30) DEF OldGroup, GroupOf
    <3>2. OldGroup(r.domain) = First(Contributions(r.domain), Len(lines))
      BY GroupsComplete
    <3>3. Flattened(Contributions(r.domain)) = First(Contributions(r.domain), Len(lines))
      BY <2>1, ContributionsType, FirstAll
    <3>4. QED
      BY <3>1, <3>2, <3>3 DEF Contributions
  <2>3. ASSUME NEW i \in DOMAIN lines, NEW h \in DOMAIN lines[i].hosts, ~lines[i].skip
        PROVE  Lowered(lines[i].hosts[h]) \in Registered
    BY <2>1, <2>3, GroupsComplete, SMTT(30) DEF LoweredHosts
  <2>4. default_upstreams = Flattened(Defaults)
    BY <2>1, DefaultsType, FirstAll, GroupsComplete, ZenonT(30)
  <2>5. QED
    BY <2>2, <2>3, <2>4, ZenonT(30) DEF GroupsFollowTheFile, Defaults
<1>2. QED
  BY <1>1, InitErrors, ErrorsInductive, InitGroups, GroupsInductive, InitStartOnce, StartOnceStep, PTL
  DEF StartupSpec

=============================================================================
