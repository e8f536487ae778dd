--------------------------- MODULE DnsCryptProofs ---------------------------
(***************************************************************************)
(* Proofs about the DNSCrypt upstream: what is padded and sealed comes back *)
(* whole, so do stamps and key files, queries encrypt only to valid         *)
(* certificates of their resolver, and a successful exchange returns the    *)
(* handler's answer.                                                        *)
(***************************************************************************)
EXTENDS DnsCrypt, TLAPS, SequenceTheorems, WellFoundedInduction

----------------------------------------------------------------------------
(***************************************************************************)
(* The key file.                                                            *)
(***************************************************************************)
LEMMA LeastIs ==
  ASSUME NEW S \in SUBSET Int, NEW m \in S, \A x \in S : m <= x
  PROVE  Min(S) = m
<1>1. Min(S) \in S /\ \A x \in S : Min(S) <= x
  BY ZenonT(30) DEF Min
<1>2. \A x, y \in Int : x <= y /\ y <= x => x = y
  BY SMT
<1>3. QED
  BY <1>1, <1>2, ZenonT(30)

LEMMA GreatestIs ==
  ASSUME NEW S \in SUBSET Int, NEW m \in S, \A x \in S : m >= x
  PROVE  Max(S) = m
<1>1. Max(S) \in S /\ \A x \in S : Max(S) >= x
  BY ZenonT(30) DEF Max
<1>2. \A x, y \in Int : x >= y /\ y >= x => x = y
  BY SMT
<1>3. QED
  BY <1>1, <1>2, ZenonT(30)

\* A part of s is t when it has t's length and characters.
LEMMA PartIs ==
  ASSUME NEW s \in Seq(Nat), NEW t \in Seq(Nat), NEW a \in 1..(Len(s) + 1), NEW b \in Int,
         b = a + Len(t) - 1, b <= Len(s), \A i \in 1..Len(t) : s[a + i - 1] = t[i]
  PROVE  SubSeq(s, a, b) = t
<1> DEFINE u == SubSeq(s, a, b)
<1>1. Len(t) \in Nat /\ Len(s) \in Nat /\ a \in Int /\ b - a + 1 = Len(t) /\ (~(a <= b) => Len(t) = 0)
  BY SMT
<1>2. \A i \in a..b : s[i] \in Nat
  BY <1>1, SMT
<1>3. /\ u \in Seq(Nat)
      /\ Len(u) = IF a <= b THEN b - a + 1 ELSE 0
      /\ \A i \in 1..(b - a + 1) : u[i] = s[a + i - 1]
  BY <1>1, <1>2, SubSeqProperties, SMTT(30)
<1> HIDE DEF u
<1>4. Len(u) = Len(t)
  BY <1>1, <1>3, SMT
<1>5. \A i \in 1..Len(t) : u[i] = t[i]
  BY <1>1, <1>3, ZenonT(30)
<1>6. u = t
  BY <1>3, <1>4, <1>5, SeqEqual, ZenonT(30)
<1>7. QED
  BY <1>6 DEF u

\* trim: what is left is t when there are only blanks around it, and none at its
\* ends.
LEMMA TrimsTo ==
  ASSUME NEW s \in Seq(Nat), NEW t \in Seq(Nat), NEW a \in 1..Len(s), t # <<>>,
         a + Len(t) - 1 <= Len(s), \A i \in 1..Len(t) : s[a + i - 1] = t[i],
         t[1] \notin Blanks, t[Len(t)] \notin Blanks,
         \A i \in 1..Len(s) : i < a \/ i > a + Len(t) - 1 => s[i] \in Blanks
  PROVE  trim(s) = t
<1> DEFINE solid == {i \in DOMAIN s : s[i] \notin Blanks}
           b == a + Len(t) - 1
<1>1. Len(t) \in Nat /\ Len(t) > 0 /\ Len(s) \in Nat /\ DOMAIN s = 1..Len(s)
  BY SMT
<1>2. b \in 1..Len(s) /\ a \in 1..Len(s) /\ a <= b /\ b = a + Len(t) - 1
  BY <1>1, SMT
<1>3. s[a] = t[1] /\ s[b] = t[Len(t)]
  <2>1. 1 \in 1..Len(t) /\ Len(t) \in 1..Len(t) /\ a + 1 - 1 = a
    BY <1>1, SMT
  <2>2. QED
    BY <2>1
<1>4. a \in solid /\ b \in solid
  BY <1>1, <1>2, <1>3
<1>5. solid \in SUBSET Int /\ \A i \in solid : a <= i /\ b >= i
  BY <1>1, <1>2, SMT
<1> HIDE DEF solid
<1>6. Min(solid) = a /\ Max(solid) = b
  BY <1>4, <1>5, LeastIs, GreatestIs, ZenonT(30)
<1>7. trim(s) = SubSeq(s, a, b)
  BY <1>4, <1>6, ZenonT(30) DEF trim, solid
<1> HIDE DEF b
<1>8. SubSeq(s, a, b) = t
  <2>1. a \in 1..(Len(s) + 1) /\ b \in Int /\ b <= Len(s)
    BY <1>1, <1>2, SMT
  <2>2. QED
    BY <1>2, <2>1, PartIs
<1>9. QED
  BY <1>7, <1>8

LEMMA TrimsToNothing ==
  ASSUME NEW s \in Seq(Nat), \A i \in 1..Len(s) : s[i] \in Blanks
  PROVE  trim(s) = <<>>
<1>1. {i \in DOMAIN s : s[i] \notin Blanks} = {}
  BY SMT
<1>2. QED
  BY <1>1, ZenonT(30) DEF trim

\* The line of a key, without its end.
Written(k, v) == <<k, Space, Equals, Space>> \o v

LEMMA WrittenLine ==
  ASSUME NEW k \in Nat, NEW v \in Seq(Nat)
  PROVE  LET l == Written(k, v)
         IN /\ l \in Seq(Nat) /\ Len(l) = Len(v) + 4
            /\ l[1] = k /\ l[2] = Space /\ l[3] = Equals /\ l[4] = Space
            /\ \A i \in 1..Len(v) : l[i + 4] = v[i]
<1> DEFINE h == <<k, Space, Equals, Space>>
           l == Written(k, v)
<1>1. h \in Seq(Nat) /\ Len(h) = 4 /\ h[1] = k /\ h[2] = Space /\ h[3] = Equals /\ h[4] = Space
  BY SMT DEF Space, Equals
<1>2. l = h \o v
  BY DEF Written
<1> HIDE DEF h, l
<1>3. /\ l \in Seq(Nat) /\ Len(l) = Len(h) + Len(v)
      /\ \A i \in 1..(Len(h) + Len(v)) : l[i] = IF i <= Len(h) THEN h[i] ELSE v[i - Len(h)]
  BY <1>1, <1>2, ConcatProperties, ZenonT(30)
<1>4. Len(v) \in Nat
  OBVIOUS
<1>5. Len(l) = Len(v) + 4 /\ l[1] = h[1] /\ l[2] = h[2] /\ l[3] = h[3] /\ l[4] = h[4]
  BY <1>1, <1>3, <1>4, SMT
<1>6. ASSUME NEW i \in 1..Len(v) PROVE l[i + 4] = v[i]
  <2>1. i + 4 \in 1..(Len(h) + Len(v)) /\ ~(i + 4 <= Len(h)) /\ (i + 4) - Len(h) = i
    BY <1>1, <1>4, SMT
  <2>2. QED
    BY <1>3, <2>1, ZenonT(30)
<1>7. QED
  BY <1>1, <1>3, <1>5, <1>6 DEF l

\* The line, trimmed: the last blank goes too if there is no value.
LEMMA WrittenTrimmed ==
  ASSUME NEW k \in Nat, k \notin Blanks, NEW v \in Seq(Nat), Tidy(v)
  PROVE  LET l == trim(Written(k, v))
         IN /\ l \in Seq(Nat)
            /\ l[1] = k /\ l[2] = Space /\ l[3] = Equals
            /\ \/ v = <<>> /\ Len(l) = 3
               \/ v # <<>> /\ Len(l) = Len(v) + 4 /\ l[4] = Space /\ \A i \in 1..Len(v) : l[i + 4] = v[i]
<1> DEFINE w == Written(k, v)
<1>1. /\ w \in Seq(Nat) /\ Len(w) = Len(v) + 4
      /\ w[1] = k /\ w[2] = Space /\ w[3] = Equals /\ w[4] = Space
      /\ \A i \in 1..Len(v) : w[i + 4] = v[i]
  BY WrittenLine
<1> HIDE DEF w
<1>2. Space \in Blanks /\ Equals \notin Blanks
  BY SMT DEF Space, Equals, Blanks
<1>3. CASE v = <<>>
  <2> DEFINE t == <<k, Space, Equals>>
  <2>1. /\ t \in Seq(Nat) /\ Len(t) = 3 /\ t # <<>> /\ t[1] = k /\ t[2] = Space /\ t[3] = Equals
        /\ Len(w) = 4
    BY <1>1, <1>3, SMT DEF Space, Equals
  <2> HIDE DEF t
  <2>2. /\ 1 \in 1..Len(w) /\ 1 + Len(t) - 1 <= Len(w)
        /\ \A i \in 1..Len(t) : 1 + i - 1 = i /\ (i = 1 \/ i = 2 \/ i = 3)
        /\ \A i \in 1..Len(w) : i < 1 \/ i > 1 + Len(t) - 1 => i = 4
    BY <2>1, SMT
  <2>3. t[1] \notin Blanks /\ t[Len(t)] \notin Blanks
    BY <1>2, <2>1
  <2>4. /\ \A i \in 1..Len(t) : w[1 + i - 1] = t[i]
        /\ \A i \in 1..Len(w) : i < 1 \/ i > 1 + Len(t) - 1 => w[i] \in Blanks
    BY <1>1, <1>2, <2>1, <2>2, ZenonT(30)
  <2>5. trim(w) = t
    BY <1>1, <2>1, <2>2, <2>3, <2>4, TrimsTo, ZenonT(30)
  <2>6. QED
    BY <1>3, <2>1, <2>5 DEF w
<1>4. CASE v # <<>>
  <2>1. Len(v) \in Nat /\ Len(v) > 0
    BY <1>4, SMT
  <2>2. w # <<>> /\ 1 \in 1..Len(w) /\ 1 + Len(w) - 1 <= Len(w)
    BY <1>1, <2>1, SMT
  <2>3. \A i \in 1..Len(w) : w[1 + i - 1] = w[i] /\ ~(i < 1 \/ i > 1 + Len(w) - 1)
    BY <1>1, <2>1, SMT
  <2>4. w[Len(w)] = v[Len(v)]
    <3>1. Len(v) \in 1..Len(v)
      BY <2>1, SMT
    <3>2. QED
      BY <1>1, <3>1, ZenonT(30)
  <2>5. w[1] \notin Blanks /\ w[Len(w)] \notin Blanks
    BY <1>1, <1>4, <2>4 DEF Tidy
  <2>6. trim(w) = w
    BY <1>1, <2>2, <2>3, <2>5, TrimsTo, ZenonT(30)
  <2>7. QED
    BY <1>1, <1>4, <2>6 DEF w
<1>5. QED
  BY <1>3, <1>4

\* split_once and trim give the key and the value back.
LEMMA LineReadBack ==
  ASSUME NEW k \in Nat, k \notin Blanks, k # Equals, NEW v \in Seq(Nat), Tidy(v)
  PROVE  LET l == trim(Written(k, v))
         IN /\ l # <<>> /\ l[1] = k /\ Signs(l) # {}
            /\ KeyOf(l) = <<k>> /\ ValueOf(l) = v
<1> DEFINE l == trim(Written(k, v))
           key == <<k, Space>>
<1>1. /\ l \in Seq(Nat) /\ Len(l) \in Nat /\ Len(l) >= 3
      /\ l[1] = k /\ l[2] = Space /\ l[3] = Equals
      /\ \/ v = <<>> /\ Len(l) = 3
         \/ v # <<>> /\ Len(l) = Len(v) + 4 /\ l[4] = Space /\ \A i \in 1..Len(v) : l[i + 4] = v[i]
  <2>1. Len(v) \in Nat
    OBVIOUS
  <2> HIDE DEF l
  <2>2. /\ l \in Seq(Nat) /\ l[1] = k /\ l[2] = Space /\ l[3] = Equals
        /\ \/ v = <<>> /\ Len(l) = 3
           \/ v # <<>> /\ Len(l) = Len(v) + 4 /\ l[4] = Space /\ \A i \in 1..Len(v) : l[i + 4] = v[i]
    BY WrittenTrimmed, ZenonT(30) DEF l
  <2>3. Len(l) \in Nat /\ Len(l) >= 3
    BY <2>1, <2>2, SMT
  <2>4. QED
    BY <2>2, <2>3
<1> HIDE DEF l
<1>2. Space \in Blanks /\ Space # Equals /\ Space \in Nat
  BY SMT DEF Space, Equals, Blanks
<1>3. DOMAIN l = 1..Len(l) /\ l # <<>>
  BY <1>1, SMT
<1>4. 3 \in Signs(l) /\ Signs(l) \in SUBSET Int /\ \A i \in Signs(l) : 3 <= i
  <2>1. 3 \in 1..Len(l) /\ \A i \in 1..Len(l) : i \in Int /\ (i = 1 \/ i = 2 \/ 3 <= i)
    BY <1>1, SMT
  <2>2. QED
    BY <1>1, <1>2, <1>3, <2>1, ZenonT(30) DEF Signs
<1>5. Min(Signs(l)) = 3
  BY <1>4, LeastIs, ZenonT(30)
<1>6. KeyOf(l) = <<k>>
  <2>1. /\ key \in Seq(Nat) /\ Len(key) = 2 /\ key[1] = k /\ key[2] = Space
        /\ <<k>> \in Seq(Nat) /\ Len(<<k>>) = 1 /\ <<k>>[1] = k /\ <<k>> # <<>>
    BY <1>2, SMT
  <2> HIDE DEF key
  <2>2. SubSeq(l, 1, 2) = key
    <3>1. /\ 1 \in 1..(Len(l) + 1) /\ 2 \in Int /\ 2 = 1 + Len(key) - 1 /\ 2 <= Len(l)
          /\ \A i \in 1..Len(key) : 1 + i - 1 = i /\ (i = 1 \/ i = 2)
      BY <1>1, <2>1, SMT
    <3>2. \A i \in 1..Len(key) : l[1 + i - 1] = key[i]
      BY <1>1, <2>1, <3>1, ZenonT(30)
    <3>3. QED
      BY <1>1, <2>1, <3>1, <3>2, PartIs, ZenonT(30)
  <2>3. trim(key) = <<k>>
    <3> DEFINE t == <<k>>
    <3>1. /\ t \in Seq(Nat) /\ Len(t) = 1 /\ t[1] = k /\ t # <<>>
      BY <2>1
    <3> HIDE DEF t
    <3>2. /\ 1 \in 1..Len(key) /\ 1 + Len(t) - 1 <= Len(key)
          /\ \A i \in 1..Len(t) : 1 + i - 1 = i /\ i = 1
          /\ \A i \in 1..Len(key) : i < 1 \/ i > 1 + Len(t) - 1 => i = 2
      BY <2>1, <3>1, SMT
    <3>3. /\ \A i \in 1..Len(t) : key[1 + i - 1] = t[i]
          /\ \A i \in 1..Len(key) : i < 1 \/ i > 1 + Len(t) - 1 => key[i] \in Blanks
          /\ t[1] \notin Blanks /\ t[Len(t)] \notin Blanks
      BY <1>2, <2>1, <3>1, <3>2, ZenonT(30)
    <3>4. trim(key) = t
      BY <2>1, <3>1, <3>2, <3>3, TrimsTo, ZenonT(30)
    <3>5. QED
      BY <3>4 DEF t
  <2>4. 3 - 1 = 2
    OBVIOUS
  <2>5. QED
    BY <1>5, <2>2, <2>3, <2>4, ZenonT(30) DEF KeyOf
<1>7. ValueOf(l) = v
  <2>1. CASE v = <<>>
    <3>1. Len(l) = 3 /\ 3 + 1 = 4 /\ <<>> \in Seq(Nat) /\ Len(<<>>) = 0 /\ \A i \in 1..0 : FALSE
      BY <1>1, <2>1, SMT
    <3>2. SubSeq(l, 4, 3) = <<>>
      BY SubSeqEmpty
    <3>3. trim(<<>>) = <<>>
      BY <3>1, TrimsToNothing, ZenonT(30)
    <3>4. QED
      BY <1>5, <2>1, <3>1, <3>2, <3>3, ZenonT(30) DEF ValueOf
  <2>2. CASE v # <<>>
    <3> DEFINE u == <<Space>> \o v
    <3>1. Len(v) \in Nat /\ Len(v) > 0 /\ Len(l) = Len(v) + 4
      BY <1>1, <2>2, SMT
    <3>2. <<Space>> \in Seq(Nat) /\ Len(<<Space>>) = 1 /\ <<Space>>[1] = Space
      BY <1>2, SMT
    <3>3. /\ u \in Seq(Nat) /\ Len(u) = Len(v) + 1 /\ u[1] = Space
          /\ \A i \in 1..Len(v) : u[i + 1] = v[i]
      <4>1. /\ u \in Seq(Nat) /\ Len(u) = Len(<<Space>>) + Len(v)
            /\ \A i \in 1..(Len(<<Space>>) + Len(v)) :
                 u[i] = IF i <= Len(<<Space>>) THEN <<Space>>[i] ELSE v[i - Len(<<Space>>)]
        BY <3>2, ConcatProperties, ZenonT(30)
      <4> HIDE DEF u
      <4>2. QED
        BY <3>1, <3>2, <4>1, SMT
    <3> HIDE DEF u
    <3>4. SubSeq(l, 4, Len(l)) = u
      <4>1. /\ 4 \in 1..(Len(l) + 1) /\ Len(l) \in Int /\ Len(l) = 4 + Len(u) - 1 /\ Len(l) <= Len(l)
            /\ \A i \in 1..Len(u) : i = 1 \/ (i - 1 \in 1..Len(v) /\ i = (i - 1) + 1 /\ 4 + i - 1 = (i - 1) + 4)
            /\ 4 + 1 - 1 = 4
        BY <3>1, <3>3, SMT
      <4>2. ASSUME NEW i \in 1..Len(u) PROVE l[4 + i - 1] = u[i]
        <5>1. CASE i = 1
          BY <1>1, <2>2, <3>3, <4>1, <5>1
        <5>2. CASE i - 1 \in 1..Len(v) /\ i = (i - 1) + 1 /\ 4 + i - 1 = (i - 1) + 4
          <6> DEFINE j == i - 1
          <6>1. j \in 1..Len(v) /\ i = j + 1 /\ 4 + i - 1 = j + 4
            BY <5>2
          <6> HIDE DEF j
          <6>2. l[j + 4] = v[j] /\ u[j + 1] = v[j]
            BY <1>1, <2>2, <3>3, <6>1, ZenonT(30)
          <6>3. QED
            BY <6>1, <6>2, ZenonT(30)
        <5>3. QED
          BY <4>1, <5>1, <5>2
      <4>3. QED
        BY <1>1, <3>3, <4>1, <4>2, PartIs, ZenonT(30)
    <3>5. trim(u) = v
      <4>1. /\ 2 \in 1..Len(u) /\ 2 + Len(v) - 1 <= Len(u)
            /\ \A i \in 1..Len(v) : 2 + i - 1 = i + 1
            /\ \A i \in 1..Len(u) : i < 2 \/ i > 2 + Len(v) - 1 => i = 1
        BY <3>1, <3>3, SMT
      <4>2. /\ \A i \in 1..Len(v) : u[2 + i - 1] = v[i]
            /\ \A i \in 1..Len(u) : i < 2 \/ i > 2 + Len(v) - 1 => u[i] \in Blanks
        BY <1>2, <3>3, <4>1, ZenonT(30)
      <4>3. v[1] \notin Blanks /\ v[Len(v)] \notin Blanks
        BY <2>2 DEF Tidy
      <4>4. QED
        BY <2>2, <3>3, <4>1, <4>2, <4>3, TrimsTo, ZenonT(30)
    <3>6. 3 + 1 = 4
      OBVIOUS
    <3>7. QED
      BY <1>5, <3>4, <3>5, <3>6, ZenonT(30) DEF ValueOf
  <2>3. QED
    BY <2>1, <2>2
<1>8. QED
  BY <1>1, <1>3, <1>4, <1>6, <1>7, ZenonT(30) DEF l

\* Where the characters of u and of v stand in the two together.
LEMMA Joined ==
  ASSUME NEW u \in Seq(Nat), NEW v \in Seq(Nat)
  PROVE  LET w == u \o v
         IN /\ w \in Seq(Nat) /\ Len(w) = Len(u) + Len(v)
            /\ \A i \in 1..Len(u) : w[i] = u[i]
            /\ \A i \in 1..Len(v) : w[Len(u) + i] = v[i]
<1> DEFINE w == u \o v
           m == Len(u)
           n == Len(v)
<1>1. /\ w \in Seq(Nat) /\ Len(w) = m + n
      /\ \A i \in 1..(m + n) : w[i] = IF i <= m THEN u[i] ELSE v[i - m]
  BY ConcatProperties, ZenonT(30)
<1>2. m \in Nat /\ n \in Nat
  OBVIOUS
<1> HIDE DEF w, m, n
<1>3. /\ \A i \in 1..m : i \in 1..(m + n) /\ i <= m
      /\ \A i \in 1..n : m + i \in 1..(m + n) /\ ~(m + i <= m) /\ (m + i) - m = i
  BY <1>2, SMT
<1>4. (\A i \in 1..m : w[i] = u[i]) /\ (\A i \in 1..n : w[m + i] = v[i])
  BY <1>1, <1>3, ZenonT(30)
<1>5. QED
  BY <1>1, <1>4, ZenonT(30) DEF w, m, n

\* A line and its end.
LEMMA Ended ==
  ASSUME NEW l \in Seq(Nat)
  PROVE  LET w == l \o <<Newline>>
         IN /\ w \in Seq(Nat) /\ Len(w) = Len(l) + 1 /\ w[Len(l) + 1] = Newline
            /\ \A i \in 1..Len(l) : w[i] = l[i]
<1> DEFINE e == <<Newline>>
           w == l \o e
<1>1. e \in Seq(Nat) /\ Len(e) = 1 /\ e[1] = Newline /\ 1 \in 1..1
  BY SMT DEF Newline
<1> HIDE DEF e
<1>2. /\ w \in Seq(Nat) /\ Len(w) = Len(l) + Len(e)
      /\ \A i \in 1..Len(l) : w[i] = l[i]
      /\ \A i \in 1..Len(e) : w[Len(l) + i] = e[i]
  BY <1>1, Joined, ZenonT(30)
<1>3. QED
  BY <1>1, <1>2, ZenonT(30) DEF e

\* Where the characters of u and of a line after it stand.
LEMMA LineAppended ==
  ASSUME NEW u \in Seq(Nat), NEW l \in Seq(Nat)
  PROVE  LET v == u \o (l \o <<Newline>>)
         IN /\ v \in Seq(Nat) /\ Len(v) = Len(u) + Len(l) + 1
            /\ v[Len(u) + Len(l) + 1] = Newline
            /\ \A i \in 1..Len(l) : v[Len(u) + i] = l[i]
            /\ \A i \in 1..Len(u) : v[i] = u[i]
<1> DEFINE w == l \o <<Newline>>
           v == u \o w
           m == Len(u)
           n == Len(l)
<1>1. w \in Seq(Nat) /\ Len(w) = n + 1 /\ w[n + 1] = Newline /\ \A i \in 1..n : w[i] = l[i]
  BY Ended, ZenonT(30)
<1>2. m \in Nat /\ n \in Nat
  OBVIOUS
<1> HIDE DEF w
<1>3. /\ v \in Seq(Nat) /\ Len(v) = m + Len(w)
      /\ \A i \in 1..m : v[i] = u[i]
      /\ \A i \in 1..Len(w) : v[m + i] = w[i]
  BY <1>1, Joined, ZenonT(30)
<1> HIDE DEF v, m, n
<1>4. /\ m + (n + 1) = m + n + 1 /\ n + 1 \in 1..(n + 1)
      /\ \A i \in 1..n : i \in 1..(n + 1)
  BY <1>2, SMT
<1>5. /\ Len(v) = m + n + 1 /\ v[m + n + 1] = Newline
      /\ \A i \in 1..n : v[m + i] = l[i]
  <2>1. Len(v) = m + (n + 1) /\ v[m + (n + 1)] = Newline
    BY <1>1, <1>3, <1>4, ZenonT(30)
  <2>2. \A i \in 1..n : v[m + i] = l[i]
    BY <1>1, <1>3, <1>4, ZenonT(30)
  <2>3. QED
    BY <1>4, <2>1, <2>2, ZenonT(30)
<1>6. QED
  BY <1>3, <1>5, ZenonT(30) DEF v, w, m, n

\* str::lines: the line at p is l when l stands there and a newline after it.
LEMMA LineIs ==
  ASSUME NEW text \in Seq(Nat), NEW l \in Seq(Nat), NEW p \in 1..Len(text),
         p + Len(l) <= Len(text), text[p + Len(l)] = Newline,
         \A i \in 1..Len(l) : text[p + i - 1] = l[i] /\ l[i] # Newline
  PROVE  LineAt(text, p) = l
<1> DEFINE S == {i \in p..Len(text) : text[i] = Newline} \cup {Len(text) + 1}
           e == p + Len(l)
<1>1. Len(text) \in Nat /\ Len(l) \in Nat /\ p \in Int
  BY SMT
<1>2. e \in p..Len(text) /\ S \in SUBSET Int
  BY <1>1, SMT
<1>3. ASSUME NEW i \in S PROVE e <= i
  <2>1. CASE i = Len(text) + 1
    BY <1>1, <2>1, SMT
  <2>2. CASE i \in p..Len(text) /\ text[i] = Newline
    <3> SUFFICES ASSUME ~(e <= i) PROVE FALSE
      OBVIOUS
    <3> DEFINE j == i - p + 1
    <3>1. j \in 1..Len(l) /\ p + j - 1 = i
      BY <1>1, <2>2, SMT
    <3> HIDE DEF j
    <3>2. QED
      BY <2>2, <3>1, ZenonT(30)
  <2>3. QED
    BY <2>1, <2>2
<1>4. Min(S) = e
  <2>1. e \in S
    BY <1>2
  <2> HIDE DEF S, e
  <2>2. QED
    BY <1>2, <1>3, <2>1, LeastIs, ZenonT(30)
<1>5. LineAt(text, p) = SubSeq(text, p, e - 1)
  BY <1>4, ZenonT(30) DEF LineAt
<1>6. /\ p \in 1..(Len(text) + 1) /\ e - 1 \in Int /\ e - 1 = p + Len(l) - 1 /\ e - 1 <= Len(text)
  BY <1>1, SMT
<1> HIDE DEF e
<1>7. QED
  BY <1>5, <1>6, PartIs, ZenonT(30)

OneLine(s) == \A i \in 1..Len(s) : s[i] # Newline

LinesAre(text, a, b, c) ==
  LET p2 == Len(a) + 2
      p3 == Len(a) + Len(b) + 3
  IN /\ LineStarts(text) = {1, p2, p3}
     /\ LineAt(text, 1) = a /\ LineAt(text, p2) = b /\ LineAt(text, p3) = c

\* A text of three lines is read as these lines.
LEMMA ThreeLines ==
  ASSUME NEW a \in Seq(Nat), NEW b \in Seq(Nat), NEW c \in Seq(Nat),
         OneLine(a), OneLine(b), OneLine(c)
  PROVE  LinesAre((a \o <<Newline>>) \o (b \o <<Newline>>) \o (c \o <<Newline>>), a, b, c)
<1> USE DEF OneLine, LinesAre
<1> DEFINE t1 == a \o <<Newline>>
           t2 == t1 \o (b \o <<Newline>>)
           text == t2 \o (c \o <<Newline>>)
           x == Len(a)
           y == Len(b)
           z == Len(c)
<1>1. x \in Nat /\ y \in Nat /\ z \in Nat
  OBVIOUS
<1>2. /\ t1 \in Seq(Nat) /\ Len(t1) = x + 1 /\ t1[x + 1] = Newline
      /\ \A i \in 1..x : t1[i] = a[i]
  BY Ended, ZenonT(30)
<1> HIDE DEF t1
<1>3. /\ t2 \in Seq(Nat) /\ Len(t2) = Len(t1) + y + 1 /\ t2[Len(t1) + y + 1] = Newline
      /\ \A i \in 1..y : t2[Len(t1) + i] = b[i]
      /\ \A i \in 1..Len(t1) : t2[i] = t1[i]
  BY <1>2, LineAppended, ZenonT(30)
<1> HIDE DEF t2
<1>4. /\ text \in Seq(Nat) /\ Len(text) = Len(t2) + z + 1 /\ text[Len(t2) + z + 1] = Newline
      /\ \A i \in 1..z : text[Len(t2) + i] = c[i]
      /\ \A i \in 1..Len(t2) : text[i] = t2[i]
  BY <1>3, LineAppended, ZenonT(30)
<1> HIDE DEF text, x, y, z
<1> DEFINE L1 == x + 1
           L2 == x + y + 2
           L3 == x + y + z + 3
<1>5. /\ L1 \in Nat /\ L2 \in Nat /\ L3 \in Nat
      /\ L1 + y + 1 = L2 /\ L2 + z + 1 = L3
      /\ L1 \in 1..L1 /\ L1 \in 1..L2 /\ L2 \in 1..L2
      /\ \A i \in 1..x : i \in 1..L1 /\ i \in 1..L2
      /\ \A i \in 1..y : L1 + i \in 1..L2
  BY <1>1, SMTT(30)
<1>6. Len(t1) = L1 /\ Len(t2) = L2 /\ Len(text) = L3
  BY <1>2, <1>3, <1>4, <1>5, ZenonT(30)
<1>7. text[L1] = Newline /\ text[L2] = Newline /\ text[L3] = Newline
  <2>1. t1[L1] = Newline
    BY <1>2
  <2> HIDE DEF L1, L2, L3
  <2>2. t2[L1] = Newline /\ t2[L2] = Newline
    BY <1>3, <1>5, <1>6, <2>1, ZenonT(30)
  <2>3. QED
    BY <1>4, <1>5, <1>6, <2>2, ZenonT(30)
<1> HIDE DEF L1, L2, L3
<1>8. /\ \A i \in 1..x : text[i] = a[i]
      /\ \A i \in 1..y : text[L1 + i] = b[i]
      /\ \A i \in 1..z : text[L2 + i] = c[i]
  BY <1>2, <1>3, <1>4, <1>5, <1>6, ZenonT(30)
<1>9. LineAt(text, 1) = a
  <2> DEFINE p == 1
  <2>1. p \in 1..L3 /\ p + x <= L3 /\ p + x = L1 /\ \A i \in 1..x : p + i - 1 = i
    BY <1>1, SMT DEF L1, L3
  <2> HIDE DEF p
  <2>2. \A i \in 1..Len(a) : text[p + i - 1] = a[i] /\ a[i] # Newline
    BY <1>8, <2>1, ZenonT(30) DEF x
  <2>3. /\ p \in 1..Len(text) /\ p + Len(a) <= Len(text) /\ text[p + Len(a)] = Newline
    BY <1>6, <1>7, <2>1, ZenonT(30) DEF x
  <2>4. LineAt(text, p) = a
    BY <1>4, <2>2, <2>3, LineIs, ZenonT(30)
  <2>5. QED
    BY <2>4 DEF p
<1>10. LineAt(text, x + 2) = b
  <2> DEFINE p == x + 2
  <2>1. p \in 1..L3 /\ p + y <= L3 /\ p + y = L2 /\ \A i \in 1..y : p + i - 1 = L1 + i
    BY <1>1, SMT DEF L1, L2, L3
  <2> HIDE DEF p
  <2>2. \A i \in 1..Len(b) : text[p + i - 1] = b[i] /\ b[i] # Newline
    BY <1>8, <2>1, ZenonT(30) DEF y
  <2>3. /\ p \in 1..Len(text) /\ p + Len(b) <= Len(text) /\ text[p + Len(b)] = Newline
    BY <1>6, <1>7, <2>1, ZenonT(30) DEF y
  <2>4. LineAt(text, p) = b
    BY <1>4, <2>2, <2>3, LineIs, ZenonT(30)
  <2>5. QED
    BY <2>4 DEF p
<1>11. LineAt(text, x + y + 3) = c
  <2> DEFINE p == x + y + 3
  <2>1. p \in 1..L3 /\ p + z <= L3 /\ p + z = L3 /\ \A i \in 1..z : p + i - 1 = L2 + i
    BY <1>1, SMT DEF L2, L3
  <2> HIDE DEF p
  <2>2. \A i \in 1..Len(c) : text[p + i - 1] = c[i] /\ c[i] # Newline
    BY <1>8, <2>1, ZenonT(30) DEF z
  <2>3. /\ p \in 1..Len(text) /\ p + Len(c) <= Len(text) /\ text[p + Len(c)] = Newline
    BY <1>6, <1>7, <2>1, ZenonT(30) DEF z
  <2>4. LineAt(text, p) = c
    BY <1>4, <2>2, <2>3, LineIs, ZenonT(30)
  <2>5. QED
    BY <2>4 DEF p
<1>12. LineStarts(text) = {1, x + 2, x + y + 3}
  <2> DEFINE p2 == x + 2
             p3 == x + y + 3
  <2>1. DOMAIN text = 1..L3
    BY <1>4, <1>6
  <2>2. 1 \in 1..L3 /\ p2 \in 1..L3 /\ p3 \in 1..L3 /\ p2 - 1 = L1 /\ p3 - 1 = L2
    BY <1>1, SMT DEF L1, L2, L3
  <2>3. ASSUME NEW p \in 1..L3, text[p - 1] = Newline PROVE p \in {1, p2, p3}
    <3> SUFFICES ASSUME p # 1, p # p2, p # p3 PROVE FALSE
      OBVIOUS
    <3> DEFINE i == p - 1
               j == i - L1
               k == i - L2
    <3>1. p \in Int
      OBVIOUS
    <3>2. \/ i \in 1..x
          \/ j \in 1..y /\ i = L1 + j
          \/ k \in 1..z /\ i = L2 + k
      BY <1>1, <3>1, SMTT(30) DEF L1, L2, L3
    <3>3. text[i] = Newline
      BY <2>3
    <3> HIDE DEF i, j, k
    <3>4. QED
      BY <1>8, <3>2, <3>3, ZenonT(30) DEF x, y, z
  <2> HIDE DEF p2, p3
  <2>4. LineStarts(text) = {1, p2, p3}
    BY <1>7, <2>1, <2>2, <2>3, ZenonT(30) DEF LineStarts
  <2>5. QED
    BY <2>4 DEF p2, p3
<1>13. QED
  BY <1>9, <1>10, <1>11, <1>12, ZenonT(30) DEF text, t2, t1, x, y, z

\* What save writes of a key is tidy, and decode reads it back.
LEMMA KeyReadBack ==
  ASSUME NEW key \in Seq(Nat), Len(key) = KeyLen
  PROVE  encode(key) \in Seq(Nat) /\ Tidy(encode(key)) /\ decode(encode(key)) = Ok(key)
<1> DEFINE d == [i \in 1..Len(key) |-> Base64 + key[i]]
           e == encode(key)
           n == KeyLen
<1>1. n \in Nat /\ n > 0
  BY StampAssumption
<1>2. \A i \in 1..n : key[i] \in Nat
  BY SMT
<1>3. d \in Seq(Nat) /\ Len(d) = n /\ \A i \in 1..n : d[i] = Base64 + key[i]
  <2>1. \A i \in 1..n : Base64 + key[i] \in Nat
    BY <1>2, SMT DEF Base64
  <2>2. d = [i \in 1..n |-> Base64 + key[i]] /\ d \in [1..n -> Nat]
    BY <2>1, ZenonT(30)
  <2>3. QED
    BY <1>1, <2>2, SMT
<1>4. <<Equals>> \in Seq(Nat) /\ Len(<<Equals>>) = 1 /\ <<Equals>>[1] = Equals /\ 1 \in 1..1
  BY SMT DEF Equals
<1>5. e = d \o <<Equals>>
  BY DEF encode
<1> HIDE DEF d, e
<1>6. /\ e \in Seq(Nat) /\ Len(e) = n + 1 /\ e[n + 1] = Equals
      /\ \A i \in 1..n : e[i] = Base64 + key[i]
  <2>1. /\ d \o <<Equals>> \in Seq(Nat) /\ Len(d \o <<Equals>>) = Len(d) + Len(<<Equals>>)
        /\ \A i \in 1..Len(d) : (d \o <<Equals>>)[i] = d[i]
        /\ \A i \in 1..Len(<<Equals>>) : (d \o <<Equals>>)[Len(d) + i] = <<Equals>>[i]
    BY <1>3, <1>4, Joined, ZenonT(30)
  <2>2. QED
    BY <1>3, <1>4, <1>5, <2>1, ZenonT(30)
<1>7. Tidy(e)
  <2>1. DOMAIN e = 1..(n + 1) /\ 1 \in 1..n /\ \A i \in 1..(n + 1) : i \in 1..n \/ i = n + 1
    BY <1>1, <1>6, SMT
  <2>2. \A i \in 1..n : e[i] # Newline /\ e[i] \notin Blanks
    <3>1. ASSUME NEW x \in Nat PROVE Base64 + x # Newline /\ Base64 + x \notin Blanks
      BY SMTT(30) DEF Base64, Newline, Blanks
    <3>2. QED
      BY <1>2, <1>6, <3>1, ZenonT(30)
  <2>3. Equals # Newline /\ Equals \notin Blanks
    BY SMT DEF Equals, Newline, Blanks
  <2>4. QED
    BY <1>6, <2>1, <2>2, <2>3, ZenonT(30) DEF Tidy
<1>8. decode(e) = Ok(key)
  <2>1. \A i \in 1..n : e[i] >= Base64 /\ e[i] - Base64 = key[i]
    BY <1>2, <1>6, SMTT(30) DEF Base64
  <2>2. key = [i \in 1..n |-> key[i]]
    BY SMT
  <2>3. [i \in 1..n |-> e[i] - Base64] = key
    BY <2>1, <2>2, ZenonT(30)
  <2>4. QED
    BY <1>6, <2>1, <2>3, ZenonT(30) DEF decode
<1>9. QED
  BY <1>6, <1>7, <1>8 DEF e

\* A line as save writes it is in a single line.
LEMMA WrittenIsOneLine ==
  ASSUME NEW k \in Nat, k # Newline, NEW v \in Seq(Nat), Tidy(v)
  PROVE  OneLine(Written(k, v))
<1> DEFINE w == Written(k, v)
<1>1. /\ w \in Seq(Nat) /\ Len(w) = Len(v) + 4
      /\ w[1] = k /\ w[2] = Space /\ w[3] = Equals /\ w[4] = Space
      /\ \A i \in 1..Len(v) : w[i + 4] = v[i]
  BY WrittenLine
<1> HIDE DEF w
<1>2. Space # Newline /\ Equals # Newline
  BY SMT DEF Space, Equals, Newline
<1>3. \A i \in 1..Len(v) : v[i] # Newline
  <2>1. DOMAIN v = 1..Len(v)
    OBVIOUS
  <2>2. QED
    BY <2>1, ZenonT(30) DEF Tidy
<1>4. ASSUME NEW i \in 1..Len(w) PROVE w[i] # Newline
  <2>1. i = 1 \/ i = 2 \/ i = 3 \/ i = 4 \/ (i - 4 \in 1..Len(v) /\ i = (i - 4) + 4)
    <3>1. Len(v) \in Nat
      OBVIOUS
    <3>2. QED
      BY <1>1, <3>1, SMT
  <2>2. CASE i = 1 \/ i = 2 \/ i = 3 \/ i = 4
    BY <1>1, <1>2, <2>2, ZenonT(30)
  <2>3. CASE i - 4 \in 1..Len(v) /\ i = (i - 4) + 4
    <3> DEFINE j == i - 4
    <3>1. j \in 1..Len(v) /\ i = j + 4
      BY <2>3
    <3> HIDE DEF j
    <3>2. QED
      BY <1>1, <1>3, <3>1, ZenonT(30)
  <2>4. QED
    BY <2>1, <2>2, <2>3
<1>5. QED
  BY <1>4 DEF w, OneLine

\* The name of a key has none of the characters that load looks for.
LEMMA KeysAreNoCharacters ==
  \A k \in KeyNames : /\ KeyChar[k] \in Nat /\ KeyChar[k] \notin Blanks
                      /\ KeyChar[k] # Equals /\ KeyChar[k] # Newline /\ KeyChar[k] # Hash
<1>1. ASSUME NEW c \in Nat, c > 2000000
      PROVE  c \notin Blanks /\ c # Equals /\ c # Newline /\ c # Hash
  BY <1>1, SMTT(30) DEF Blanks, Equals, Newline, Hash
<1>2. \A k \in KeyNames : KeyChar[k] \in Nat /\ KeyChar[k] > 2000000
  BY SMTT(30) DEF KeyNames, KeyChar
<1>3. QED
  BY <1>1, <1>2, SMTT(30)

(***************************************************************************)
(* config.rs: load reads back the key file that save wrote, for every name  *)
(* of one line without blanks around it.  Its trim() takes such blanks off, *)
(* and its lines() a name apart.                                            *)
(***************************************************************************)
THEOREM KeyFileRoundTrip ==
  ASSUME NEW config \in [KeyNames -> Seq(Nat)], Tidy(config["provider_name"]),
         Len(config["provider_signing_key"]) = KeyLen, Len(config["resolver_secret_key"]) = KeyLen
  PROVE  load(save(config)) = Ok(config)
<1> DEFINE n1 == "provider_name"
           n2 == "provider_signing_key"
           n3 == "resolver_secret_key"
           v1 == config[n1]
           v2 == encode(config[n2])
           v3 == encode(config[n3])
           w1 == Written(KeyChar[n1], v1)
           w2 == Written(KeyChar[n2], v2)
           w3 == Written(KeyChar[n3], v3)
           text == save(config)
           p2 == Len(w1) + 2
           p3 == Len(w1) + Len(w2) + 3
           line(p) == trim(LineAt(text, p))
           pairs == {p \in LineStarts(text) : line(p) # <<>> /\ line(p)[1] # Hash}
           of(k) == {p \in pairs : Signs(line(p)) # {} /\ KeyOf(line(p)) = <<KeyChar[k]>>}
<1>1. config[n1] \in Seq(Nat) /\ config[n2] \in Seq(Nat) /\ config[n3] \in Seq(Nat)
  BY ZenonT(30) DEF KeyNames
<1>2. \A k \in KeyNames : /\ KeyChar[k] \in Nat /\ KeyChar[k] \notin Blanks
                          /\ KeyChar[k] # Equals /\ KeyChar[k] # Newline /\ KeyChar[k] # Hash
  BY KeysAreNoCharacters
<1>3. KeyChar[n1] # KeyChar[n2] /\ KeyChar[n1] # KeyChar[n3] /\ KeyChar[n2] # KeyChar[n3]
  BY SMTT(30) DEF KeyChar
<1>4. n1 \in KeyNames /\ n2 \in KeyNames /\ n3 \in KeyNames /\ KeyNames = {n1, n2, n3}
  BY ZenonT(30) DEF KeyNames
<1>5. n2 # n1 /\ n3 # n1 /\ n2 # n3
  OBVIOUS
<1>6. /\ v2 \in Seq(Nat) /\ Tidy(v2) /\ decode(v2) = Ok(config[n2])
      /\ v3 \in Seq(Nat) /\ Tidy(v3) /\ decode(v3) = Ok(config[n3])
      /\ v1 \in Seq(Nat) /\ Tidy(v1)
  BY <1>1, KeyReadBack, ZenonT(30)
<1>7. text = (w1 \o <<Newline>>) \o (w2 \o <<Newline>>) \o (w3 \o <<Newline>>)
  BY ZenonT(30) DEF save, Entry, Written
<1>8. config = [k \in KeyNames |-> config[k]]
  OBVIOUS
<1> HIDE DEF n1, n2, n3, v1, v2, v3, w1, w2, w3, text, p2, p3
<1>9. w1 \in Seq(Nat) /\ w2 \in Seq(Nat) /\ w3 \in Seq(Nat)
  BY <1>2, <1>4, <1>6, WrittenLine, ZenonT(30) DEF w1, w2, w3
<1>10. OneLine(w1) /\ OneLine(w2) /\ OneLine(w3)
  BY <1>2, <1>4, <1>6, WrittenIsOneLine, ZenonT(30) DEF w1, w2, w3
<1>11. /\ LineStarts(text) = {1, p2, p3}
       /\ LineAt(text, 1) = w1 /\ LineAt(text, p2) = w2 /\ LineAt(text, p3) = w3
  <2> DEFINE t == (w1 \o <<Newline>>) \o (w2 \o <<Newline>>) \o (w3 \o <<Newline>>)
  <2>1. LinesAre(t, w1, w2, w3)
    BY <1>9, <1>10, ThreeLines, ZenonT(30)
  <2>2. QED
    BY <1>7, <2>1, ZenonT(30) DEF p2, p3, LinesAre
<1>12. 1 \in Int /\ p2 \in Int /\ p3 \in Int
  <2>1. Len(w1) \in Nat /\ Len(w2) \in Nat
    BY <1>9
  <2>2. QED
    BY <2>1, SMT DEF p2, p3
<1>13. /\ line(1) # <<>> /\ line(1)[1] = KeyChar[n1] /\ Signs(line(1)) # {}
       /\ KeyOf(line(1)) = <<KeyChar[n1]>> /\ ValueOf(line(1)) = v1
  <2>1. line(1) = trim(Written(KeyChar[n1], v1))
    BY <1>11, ZenonT(30) DEF w1
  <2> HIDE DEF line
  <2>2. QED
    BY <1>2, <1>4, <1>6, <2>1, LineReadBack, ZenonT(30)
<1>14. /\ line(p2) # <<>> /\ line(p2)[1] = KeyChar[n2] /\ Signs(line(p2)) # {}
       /\ KeyOf(line(p2)) = <<KeyChar[n2]>> /\ ValueOf(line(p2)) = v2
  <2>1. line(p2) = trim(Written(KeyChar[n2], v2))
    BY <1>11, ZenonT(30) DEF w2
  <2> HIDE DEF line
  <2>2. QED
    BY <1>2, <1>4, <1>6, <2>1, LineReadBack, ZenonT(30)
<1>15. /\ line(p3) # <<>> /\ line(p3)[1] = KeyChar[n3] /\ Signs(line(p3)) # {}
       /\ KeyOf(line(p3)) = <<KeyChar[n3]>> /\ ValueOf(line(p3)) = v3
  <2>1. line(p3) = trim(Written(KeyChar[n3], v3))
    BY <1>11, ZenonT(30) DEF w3
  <2> HIDE DEF line
  <2>2. QED
    BY <1>2, <1>4, <1>6, <2>1, LineReadBack, ZenonT(30)
<1> HIDE DEF line
<1>16. pairs = {1, p2, p3}
  BY <1>2, <1>4, <1>11, <1>13, <1>14, <1>15, ZenonT(30)
<1>17. of(n1) = {1} /\ of(n2) = {p2} /\ of(n3) = {p3}
  <2>1. \A x, y : <<x>> = <<y>> => x = y
    BY SMT
  <2> HIDE DEF pairs
  <2>2. \A p \in pairs : p = 1 \/ p = p2 \/ p = p3
    BY <1>16
  <2>3. /\ <<KeyChar[n1]>> # <<KeyChar[n2]>> /\ <<KeyChar[n1]>> # <<KeyChar[n3]>>
        /\ <<KeyChar[n2]>> # <<KeyChar[n3]>>
    BY <1>3, <2>1, ZenonT(30)
  <2>4. of(n1) = {1}
    BY <1>13, <1>14, <1>15, <1>16, <2>2, <2>3, ZenonT(30)
  <2>5. of(n2) = {p2}
    BY <1>13, <1>14, <1>15, <1>16, <2>2, <2>3, ZenonT(30)
  <2>6. of(n3) = {p3}
    BY <1>13, <1>14, <1>15, <1>16, <2>2, <2>3, ZenonT(30)
  <2>7. QED
    BY <2>4, <2>5, <2>6
<1>18. /\ Decoded(n1, ValueOf(line(1))) = Ok(config[n1])
       /\ Decoded(n2, ValueOf(line(p2))) = Ok(config[n2])
       /\ Decoded(n3, ValueOf(line(p3))) = Ok(config[n3])
  <2>1. Decoded(n1, v1) = Ok(v1) /\ Decoded(n2, v2) = decode(v2) /\ Decoded(n3, v3) = decode(v3)
    BY <1>5, ZenonT(30) DEF Decoded, n1
  <2>2. QED
    BY <1>6, <1>13, <1>14, <1>15, <2>1, ZenonT(30) DEF v1
<1>19. \A x : Ok(x).ok = TRUE /\ Ok(x).val = x
  BY SMT DEF Ok
<1>20. Max({1}) = 1 /\ Max({p2}) = p2 /\ Max({p3}) = p3
  <2>1. ASSUME NEW m \in Int PROVE Max({m}) = m
    <3>1. {m} \in SUBSET Int /\ m \in {m} /\ \A x \in {m} : m >= x
      BY SMT
    <3>2. QED
      BY <3>1, GreatestIs, ZenonT(30)
  <2>2. QED
    BY <1>12, <2>1, ZenonT(30)
<1> HIDE DEF pairs, of
<1>21. \A p \in pairs : \E k \in KeyNames : p \in of(k) /\ Decoded(k, ValueOf(line(p))).ok
  BY <1>4, <1>16, <1>17, <1>18, <1>19, ZenonT(30)
<1>22. \A k \in KeyNames : of(k) # {}
  BY <1>4, <1>17, ZenonT(30)
<1>23. \A k \in KeyNames : Decoded(k, ValueOf(line(Max(of(k))))).val = config[k]
  <2>1. Decoded(n1, ValueOf(line(Max(of(n1))))).val = config[n1]
    BY <1>17, <1>18, <1>19, <1>20, ZenonT(30)
  <2>2. Decoded(n2, ValueOf(line(Max(of(n2))))).val = config[n2]
    BY <1>17, <1>18, <1>19, <1>20, ZenonT(30)
  <2>3. Decoded(n3, ValueOf(line(Max(of(n3))))).val = config[n3]
    BY <1>17, <1>18, <1>19, <1>20, ZenonT(30)
  <2>4. QED
    BY <1>4, <2>1, <2>2, <2>3, ZenonT(30)
<1>24. load(text) = Ok([k \in KeyNames |-> Decoded(k, ValueOf(line(Max(of(k))))).val])
  BY <1>21, <1>22, ZenonT(30) DEF load, pairs, of, line
<1>25. [k \in KeyNames |-> Decoded(k, ValueOf(line(Max(of(k))))).val] = [k \in KeyNames |-> config[k]]
  BY <1>23, ZenonT(30)
<1>26. QED
  BY <1>8, <1>24, <1>25, ZenonT(30) DEF text

----------------------------------------------------------------------------
\* A function on 1..n is a sequence.
LEMMA FunctionIsSeq ==
  ASSUME NEW S, NEW n \in Nat, NEW f \in [1..n -> S]
  PROVE  f \in Seq(S) /\ Len(f) = n
<1>1. f \in Seq(S)
  BY SeqDef, ZenonT(30)
<1>2. Len(f) \in Nat /\ DOMAIN f = 1..Len(f)
  BY <1>1, LenProperties
<1>3. 1..Len(f) = 1..n
  BY <1>2
<1>4. Len(f) = n
  <2>1. CASE n = 0
    BY <1>2, <1>3, <2>1, SMT
  <2>2. CASE n > 0
    <3>1. n \in 1..Len(f) /\ (Len(f) = 0 \/ Len(f) \in 1..n)
      BY <1>2, <1>3, <2>2, SMT
    <3>2. QED
      BY <1>2, <2>2, <3>1, SMT
  <2>3. QED
    BY <2>1, <2>2, SMT
<1>5. QED
  BY <1>1, <1>4

\* What to_bytes writes, from_bytes reads.
LEMMA WireRoundTrip ==
  ASSUME NEW a \in Byte, NEW t \in {0, 1}, NEW b \in Seq(Byte),
         NEW m, m = [question |-> a, tc |-> t, body |-> b]
  PROVE  to_bytes(m) \in Seq(Byte) /\ from_bytes(to_bytes(m)) = Ok(m)
<1> DEFINE h == <<a, t>>
<1>1. h \in Seq(Byte) /\ Len(h) = 2 /\ h[1] = a /\ h[2] = t
  BY SMT DEF Byte
<1>2. /\ h \o b \in Seq(Byte)
      /\ Len(h \o b) = 2 + Len(b)
      /\ \A i \in 1..Len(h \o b) : (h \o b)[i] = IF i <= 2 THEN h[i] ELSE b[i - 2]
  BY <1>1, ConcatProperties
<1>3. Len(b) \in Nat /\ b = [i \in 1..Len(b) |-> b[i]]
  BY LenProperties, SMT
<1>4. (h \o b)[1] = a /\ (h \o b)[2] = t
  BY <1>1, <1>2, <1>3, SMT
<1>5. SubSeq(h \o b, 3, Len(h \o b)) = b
  <2>1. SubSeq(h \o b, 3, Len(h \o b)) = [i \in 1..Len(b) |-> (h \o b)[i + 2]]
    BY <1>2, <1>3, SMT
  <2>2. \A i \in 1..Len(b) : (h \o b)[i + 2] = b[i]
    BY <1>2, <1>3, SMT
  <2>3. QED
    BY <1>3, <2>1, <2>2
<1>6. to_bytes(m) = h \o b
  BY DEF to_bytes
<1>7. ~(Len(h \o b) < 2)
  BY <1>2, <1>3, SMT
<1>8. QED
  BY <1>2, <1>4, <1>5, <1>6, <1>7, ZenonT(30) DEF from_bytes

USE BlockAssumption DEF Byte, Marker

----------------------------------------------------------------------------
\* pad leaves room for the marker.
LEMMA PadRoom ==
  ASSUME NEW n \in Nat
  PROVE  PaddedLen(n) \in Nat /\ PaddedLen(n) >= n + 1
<1>1. (n + 1) % Block \in 0..(Block - 1)
  BY SMT
<1>2. QED
  BY <1>1, SMT DEF PaddedLen

\* The last nonzero byte of a padded message is the marker pad appends.
LEMMA PadMarker ==
  ASSUME NEW m \in Seq(Byte)
  PROVE  Max({i \in DOMAIN pad(m) : pad(m)[i] # 0}) = Len(m) + 1
<1> DEFINE nz == {i \in DOMAIN pad(m) : pad(m)[i] # 0}
<1>1. Len(m) \in Nat /\ PaddedLen(Len(m)) \in Nat /\ PaddedLen(Len(m)) >= Len(m) + 1
  BY PadRoom, LenProperties
<1>2. Len(m) + 1 \in nz
  BY <1>1, SMT DEF pad
<1>3. \A i \in nz : i \in Nat /\ i <= Len(m) + 1
  BY <1>1, SMT DEF pad
<1>4. QED
  BY <1>1, <1>2, <1>3, SMT DEF Max

\* crypto.rs: unpad gives back exactly the message pad was given, even one that
\* ends in zeros or in the marker itself.
THEOREM PadRoundTrip ==
  ASSUME NEW m \in Seq(Byte)
  PROVE  unpad(pad(m)) = Ok(m)
<1> DEFINE p == pad(m)
           nz == {i \in DOMAIN p : p[i] # 0}
<1>1. Len(m) \in Nat /\ PaddedLen(Len(m)) \in Nat /\ PaddedLen(Len(m)) >= Len(m) + 1
  BY PadRoom, LenProperties
<1>2. Max(nz) = Len(m) + 1
  BY PadMarker
<1>3. Len(m) + 1 \in nz /\ p[Len(m) + 1] = Marker
  BY <1>1, SMT DEF pad
<1>4. p \in Seq(Byte) /\ Len(p) = PaddedLen(Len(m))
  <2>1. \A i \in 1..Len(m) : m[i] \in Byte
    BY ElementOfSeq, SMTT(30)
  <2>2. p \in [1..PaddedLen(Len(m)) -> Byte]
    BY <1>1, <2>1, SMTT(30) DEF pad
  <2>3. QED
    BY <1>1, <2>2, FunctionIsSeq, ZenonT(30)
<1>5. SubSeq(p, 1, Len(m)) = m
  <2>1. SubSeq(p, 1, Len(m)) = [i \in 1..Len(m) |-> p[i]]
    BY <1>1, <1>4, SMT
  <2>2. \A i \in 1..Len(m) : p[i] = m[i]
    BY <1>1, SMT DEF pad
  <2>3. m = [i \in 1..Len(m) |-> m[i]]
    BY SMT
  <2>4. QED
    BY <2>1, <2>2, <2>3
<1>6. unpad(p) = Ok(SubSeq(p, 1, (Len(m) + 1) - 1))
  BY <1>2, <1>3 DEF unpad
<1>7. (Len(m) + 1) - 1 = Len(m)
  BY <1>1
<1>8. QED
  BY <1>5, <1>6, <1>7, ZenonT(30)

\* The server reads from a query what the client encrypted.
LEMMA QueryRoundTrip ==
  ASSUME NEW c, NEW mine, NEW nonce, NEW m \in Seq(Byte), NEW secret, NEW magic,
         decrypt_query(secret, magic, encrypt_query(c, mine, nonce, m)).ok
  PROVE  decrypt_query(secret, magic, encrypt_query(c, mine, nonce, m)) = Ok(m)
<1> DEFINE f == encrypt_query(c, mine, nonce, m)
           padded == Open(shared_box(secret, f.client_pk), <<f.nonce, NoNonce>>, f.sealed)
<1>1. f.sealed.text = pad(m)
  BY DEF encrypt_query, Seal
<1>2. padded = Ok(f.sealed.text) \/ padded = Err
  BY DEF Open
<1>3. Ok(pad(m)).val = pad(m) /\ Err.ok = FALSE
  BY DEF Ok, Err
<1>4. padded.ok
  BY <1>3 DEF decrypt_query
<1>5. padded.val = pad(m)
  BY <1>1, <1>2, <1>3, <1>4
<1>6. decrypt_query(secret, magic, f) = unpad(padded.val)
  BY <1>3 DEF decrypt_query
<1>7. QED
  BY <1>5, <1>6, PadRoundTrip

\* A response the client accepts was made for its own query, and holds what
\* the server encrypted.
LEMMA ResponseRoundTrip ==
  ASSUME NEW c, NEW mine, NEW nonce, NEW m \in Seq(Byte), NEW secret,
         NEW peer, NEW other, NEW half,
         decrypt_response(c, mine, nonce,
           encrypt_server_response(secret, peer, other, half, m)).ok
  PROVE  /\ other = nonce
         /\ decrypt_response(c, mine, nonce,
              encrypt_server_response(secret, peer, other, half, m)) = Ok(m)
<1> DEFINE f == encrypt_server_response(secret, peer, other, half, m)
           padded == Open(shared_box(mine, c.resolver_public_key),
                          <<nonce, f.resolver_nonce>>, f.sealed)
<1>1. f.sealed.text = pad(m) /\ f.nonce = other
  BY DEF encrypt_server_response, Seal
<1>2. padded = Ok(f.sealed.text) \/ padded = Err
  BY DEF Open
<1>3. Ok(pad(m)).val = pad(m) /\ Err.ok = FALSE
  BY DEF Ok, Err
<1>4. padded.ok /\ f.nonce = nonce
  BY <1>3 DEF decrypt_response
<1>5. padded.val = pad(m)
  BY <1>1, <1>2, <1>3, <1>4
<1>6. decrypt_response(c, mine, nonce, f) = unpad(padded.val)
  BY <1>3 DEF decrypt_response
<1>7. QED
  BY <1>1, <1>4, <1>5, <1>6, PadRoundTrip

----------------------------------------------------------------------------
(***************************************************************************)
(* Answers.                                                                 *)
(***************************************************************************)
\* The handler's answer to q, and its truncated form, survive the wire.
LEMMA HandlerMessages ==
  ASSUME NEW q \in Queries
  PROVE  /\ to_bytes(Request(q)) \in Seq(Byte)
         /\ from_bytes(to_bytes(Request(q))) = Ok(Request(q))
         /\ \A m \in {handler(Request(q)), truncate(handler(Request(q)))} :
              /\ to_bytes(m) \in Seq(Byte)
              /\ from_bytes(to_bytes(m)) = Ok(m)
              /\ m.question = Asks[q]
         /\ truncate(handler(Request(q))).tc = 1
<1> DEFINE a == Asks[q]
<1>1. a \in Byte /\ Answers[a] \in Seq(Byte) /\ <<>> \in Seq(Byte)
  BY DnsCryptAssumption, EmptySeq, ZenonT(30)
<1>2. Request(q) = [question |-> a, tc |-> 0, body |-> <<>>]
  BY DEF Request
<1>3. handler(Request(q)) = [question |-> a, tc |-> 0, body |-> Answers[a]]
  BY <1>2 DEF handler
<1>4. truncate(handler(Request(q))) = [question |-> a, tc |-> 1, body |-> <<>>]
  BY <1>3 DEF truncate
<1>5. /\ to_bytes(Request(q)) \in Seq(Byte)
      /\ from_bytes(to_bytes(Request(q))) = Ok(Request(q))
  <2>1. 0 \in {0, 1}
    OBVIOUS
  <2>2. QED
    BY <1>1, <1>2, <2>1, WireRoundTrip, ZenonT(30)
<1>6. /\ to_bytes(handler(Request(q))) \in Seq(Byte)
      /\ from_bytes(to_bytes(handler(Request(q)))) = Ok(handler(Request(q)))
  <2>1. 0 \in {0, 1}
    OBVIOUS
  <2>2. QED
    BY <1>1, <1>3, <2>1, WireRoundTrip, ZenonT(30)
<1>7. /\ to_bytes(truncate(handler(Request(q)))) \in Seq(Byte)
      /\ from_bytes(to_bytes(truncate(handler(Request(q))))) = Ok(truncate(handler(Request(q))))
  <2>1. 1 \in {0, 1}
    OBVIOUS
  <2>2. QED
    BY <1>1, <1>4, <2>1, WireRoundTrip, ZenonT(30)
<1>8. /\ truncate(handler(Request(q))).tc = 1
      /\ truncate(handler(Request(q))).question = a
      /\ handler(Request(q)).question = a
  BY <1>3, <1>4
<1>9. QED
  BY <1>5, <1>6, <1>7, <1>8

\* A reply that decrypts for some call was made for that call, and carries the
\* handler's answer, over UDP possibly truncated.
LEMMA RepliesCarryTheAnswer ==
  ASSUME NEW p \in Queries, NEW tcp \in BOOLEAN, NEW resp \in Replies(p, tcp),
         NEW c, NEW me, NEW nonce, decrypt_response(c, me, nonce, resp).ok
  PROVE  /\ nonce = Nonce(p)
         /\ \E m \in {handler(Request(p)), truncate(handler(Request(p)))} :
              /\ decrypt_response(c, me, nonce, resp) = Ok(to_bytes(m))
              /\ tcp => m = handler(Request(p))
<1> DEFINE Dec(d) == decrypt_query(d.resolver_public_key, d.client_magic, Framed(p))
           Sent(r) == IF ~tcp /\ FramedLen(to_bytes(r)) > UdpMax THEN truncate(r) ELSE r
<1>1. PICK d : /\ Dec(d).ok
               /\ resp = encrypt_server_response(d.resolver_public_key, Framed(p).client_pk,
                           Framed(p).nonce, 1,
                           to_bytes(Sent(handler(from_bytes(Dec(d).val).val))))
  BY DEF Replies
<1>2. Dec(d) = Ok(to_bytes(Request(p)))
  <2> HIDE BlockAssumption DEF Byte, Marker
  <2> DEFINE b == to_bytes(Request(p))
             sent == encrypt_query(using[p], ClientKey(p), Nonce(p), b)
  <2>1. b \in Seq(Byte)
    BY HandlerMessages, ZenonT(30)
  <2>2. Framed(p) = sent
    BY DEF Framed
  <2>3. decrypt_query(d.resolver_public_key, d.client_magic, sent).ok
    BY <1>1, <2>2, ZenonT(30)
  <2> HIDE DEF b
  <2>4. decrypt_query(d.resolver_public_key, d.client_magic, sent) = Ok(b)
    BY <2>1, <2>3, QueryRoundTrip, ZenonT(30)
  <2> QED
    BY <2>2, <2>4 DEF b
<1>3. from_bytes(Dec(d).val).val = Request(p)
  <2>1. Dec(d).val = to_bytes(Request(p))
    BY <1>2 DEF Ok
  <2>2. from_bytes(to_bytes(Request(p))) = Ok(Request(p))
    BY HandlerMessages, ZenonT(30)
  <2>3. Ok(Request(p)).val = Request(p)
    BY DEF Ok
  <2> QED
    BY <2>1, <2>2, <2>3
<1> DEFINE m == Sent(handler(Request(p)))
<1>4. /\ m \in {handler(Request(p)), truncate(handler(Request(p)))}
      /\ tcp => m = handler(Request(p))
  OBVIOUS
<1>5. to_bytes(m) \in Seq(Byte)
  BY <1>4, HandlerMessages
<1>6. Framed(p).nonce = Nonce(p)
  BY DEF Framed, encrypt_query
<1>7. resp = encrypt_server_response(d.resolver_public_key, Framed(p).client_pk,
                                     Nonce(p), 1, to_bytes(m))
  BY <1>1, <1>3, <1>6
<1>8. nonce = Nonce(p) /\ decrypt_response(c, me, nonce, resp) = Ok(to_bytes(m))
  <2> HIDE DEF m
  <2>1. QED
    BY <1>5, <1>7, ResponseRoundTrip
<1>9. QED
  BY <1>4, <1>8

\* A call ends without success, goes on, or has the handler's answer.
Progress(q) ==
  \/ result' = [result EXCEPT ![q] = "error"]
  \/ result' = [result EXCEPT ![q] = "unanswered"]
  \/ result' = [result EXCEPT ![q] = "none"]
  \/ UNCHANGED <<result, answer>>
  \/ answer' = [answer EXCEPT ![q] = handler(Request(q))]

Others(q) ==
  /\ DOMAIN result' = DOMAIN result /\ DOMAIN answer' = DOMAIN answer
  /\ \A p \in DOMAIN result \ {q} : result'[p] = result[p]
  /\ \A p \in DOMAIN answer \ {q} : answer'[p] = answer[p]

\* exchange_with_cert returns nothing but the handler's answer to its own query.
LEMMA ReceiveAnswers ==
  ASSUME NEW q \in Queries, NEW p \in Queries, NEW tcp \in BOOLEAN,
         NEW resp \in Replies(p, tcp), Receive(q, resp),
         pc[q] = (IF tcp THEN "tcp" ELSE "udp")
  PROVE  Progress(q) /\ Others(q)
<1> DEFINE bytes == decrypt_response(using[q], ClientKey(q), Nonce(q), resp)
           msg == from_bytes(bytes.val)
<1>1. CASE ~bytes.ok
  <2>1. Fail(q)
    BY <1>1, ZenonT(30) DEF Receive
  <2>2. QED
    BY <2>1, SMTT(30) DEF Fail, Return, Progress, Others
<1>2. CASE bytes.ok
  <2>1. Nonce(q) = Nonce(p)
    BY <1>2, RepliesCarryTheAnswer
  <2>2. p = q
    BY <2>1 DEF Nonce
  <2>3. PICK m \in {handler(Request(q)), truncate(handler(Request(q)))} :
          bytes = Ok(to_bytes(m)) /\ (tcp => m = handler(Request(q)))
    BY <1>2, <2>2, RepliesCarryTheAnswer
  <2>4. msg = Ok(m) /\ msg.ok /\ msg.val = m /\ m.question = Asks[q]
    BY <2>3, HandlerMessages, SMTT(30) DEF Ok
  <2>5. CASE pc[q] = "udp" /\ m.tc = 1
    <3>1. UNCHANGED <<result, answer>>
      BY <1>2, <2>4, <2>5, ZenonT(30) DEF Receive
    <3>2. QED
      BY <3>1, ZenonT(30) DEF Progress, Others
  <2>6. CASE ~(pc[q] = "udp" /\ m.tc = 1)
    <3>1. m = handler(Request(q))
      BY <2>3, <2>6, HandlerMessages, SMTT(30)
    <3>2. Return(q, "ok", m)
      BY <1>2, <2>4, <2>6, ZenonT(30) DEF Receive
    <3>3. QED
      BY <3>1, <3>2 DEF Return, Progress, Others
  <2>7. QED
    BY <2>5, <2>6
<1>3. QED
  BY <1>1, <1>2

AInv ==
  /\ DOMAIN result = Queries
  /\ DOMAIN answer = Queries
  /\ AnswersAreTheHandlers

LEMMA ProgressKeepsAInv ==
  ASSUME AInv, NEW q \in Queries, Progress(q), Others(q)
  PROVE  AInv'
<1>1. DOMAIN result' = Queries /\ DOMAIN answer' = Queries
  BY DEF AInv, Others
<1>2. ASSUME NEW p \in Queries, result'[p] = "ok"
      PROVE  answer'[p] = handler(Request(p))
  <2>1. CASE p # q
    BY <1>2, <2>1 DEF AInv, AnswersAreTheHandlers, Others
  <2>2. CASE p = q
    BY <1>2, <2>2 DEF AInv, AnswersAreTheHandlers, Progress
  <2>3. QED
    BY <2>1, <2>2
<1>3. QED
  BY <1>1, <1>2 DEF AInv, AnswersAreTheHandlers

\* Every step of a call is progress, and none changes another's result.
LEMMA CallSteps ==
  ASSUME NEW q \in Queries, Begin(q) \/ Served(q) \/ Failed(q)
  PROVE  Progress(q) /\ Others(q)
<1> USE DEF Progress, Others
<1>1. CASE Begin(q)
  BY <1>1, SMTT(30) DEF Begin
<1>2. CASE FetchTxt(q)
  BY <1>2 DEF FetchTxt
<1>3. CASE PickCert(q)
  BY <1>3, ZenonT(30) DEF PickCert, Fail, Return
<1>4. CASE StoreCert(q)
  BY <1>4 DEF StoreCert
<1>5. CASE UdpAnswer(q)
  <2>1. PICK p \in Queries : \E resp \in Replies(p, FALSE) : pc[q] = "udp" /\ Receive(q, resp)
    BY <1>5, ZenonT(30) DEF UdpAnswer
  <2>2. PICK resp \in Replies(p, FALSE) : pc[q] = "udp" /\ Receive(q, resp)
    BY <2>1, ZenonT(30)
  <2>3. QED
    BY <2>2, ReceiveAnswers, ZenonT(30)
<1>6. CASE TcpAnswer(q)
  <2>1. PICK resp \in Replies(q, TRUE) : pc[q] = "tcp" /\ Receive(q, resp)
    BY <1>6, ZenonT(30) DEF TcpAnswer
  <2>2. QED
    BY <2>1, ReceiveAnswers, ZenonT(30)
<1>7. CASE FetchErr(q)
  BY <1>7 DEF FetchErr, Fail, Return
<1>8. CASE BadAnswer(q)
  <2>1. ~decrypt_response(using[q], ClientKey(q), Nonce(q), Mangled).ok
    BY DEF decrypt_response, Mangled, RESOLVER_MAGIC, Err
  <2>2. Fail(q)
    BY <1>8, <2>1, ZenonT(30) DEF BadAnswer, Receive
  <2>3. QED
    BY <2>2 DEF Fail, Return
<1>9. CASE IoErr(q)
  BY <1>9 DEF IoErr, Fail, Return
<1>10. CASE Timeout(q)
  BY <1>10, ZenonT(30) DEF Timeout, Return
<1>11. QED
  BY <1>1, <1>2, <1>3, <1>4, <1>5, <1>6, <1>7, <1>8, <1>9, <1>10, SMTT(30) DEF Served, Failed

\* exchange of dnscrypt.rs with respond and handle_udp_packet of the listener:
\* for any number of calls and any answers, a successful exchange returns the
\* whole answer the handler gave to the call's own question.
THEOREM AnswersAreWhole == Spec => []AnswersAreTheHandlers
<1>1. Init => AInv
  BY DEF Init, AInv, AnswersAreTheHandlers
<1>2. AInv /\ [Next]_vars => AInv'
  <2> SUFFICES ASSUME AInv, [Next]_vars
               PROVE  AInv'
    OBVIOUS
  <2>1. ASSUME NEW q \in Queries, Begin(q) \/ Served(q) \/ Failed(q)
        PROVE  AInv'
    BY <2>1, CallSteps, ProgressKeepsAInv
  <2>2. CASE Rotate \/ Retire \/ Stop \/ Start \/ Tick \/ UNCHANGED vars
    <3>1. UNCHANGED <<result, answer>>
      BY <2>2, SMTT(30) DEF Rotate, Retire, Stop, Start, Tick, client, vars
    <3>2. QED
      BY <3>1 DEF AInv, AnswersAreTheHandlers
  <2>3. QED
    BY <2>1, <2>2 DEF Next
<1>3. AInv => AnswersAreTheHandlers
  BY DEF AInv
<1>4. QED
  BY <1>1, <1>2, <1>3, PTL DEF Spec

----------------------------------------------------------------------------
(***************************************************************************)
(* Certificates.                                                            *)
(***************************************************************************)
\* A record the client may trust names a key of the resolver.
Trusted(r) ==
  parse_one_certificate(r, R.config.provider_signing_key)
    => r.signed.resolver_public_key \in ResolverKeys

\* The certificate of a call is the resolver's, and was valid since it began.
Holds(q) ==
  /\ using[q].resolver_public_key \in ResolverKeys
  /\ \E t \in start[q]..now : using[q].ts_start <= t /\ t < using[q].ts_end

\* UsesValidCert is not inductive: what is used comes from the cache or from a
\* TXT answer, and these must be the resolver's already.
VInv ==
  /\ resolver \in DOMAIN Resolvers
  /\ stamp.provider_public_key = R.config.provider_signing_key
  /\ now \in Nat
  /\ DOMAIN pc = Queries /\ DOMAIN using = Queries
  /\ DOMAIN heard = Queries /\ DOMAIN start = Queries
  /\ \A q \in Queries : start[q] \in Nat /\ start[q] <= now
  /\ \A r \in live : Trusted(r)
  /\ \A q \in Queries : \A r \in heard[q] : Trusted(r)
  /\ cert # None => cert.resolver_public_key \in ResolverKeys
  /\ \A q \in Queries : pc[q] \in {"store", "udp", "tcp"} => Holds(q)

LEMMA ProviderCertTrusted ==
  ASSUME R.rotates, NEW s \in Serials
  PROVE  Trusted(ProviderCert(R.config, s))
BY ZenonT(30) DEF Trusted, ProviderCert, sign_certificate, ResolverKeys

LEMMA StartedTrusted ==
  ASSUME resolver \in DOMAIN Resolvers, ~R.rotates, NEW t, NEW r \in Started(R.config, t)
  PROVE  Trusted(r)
<1> DEFINE config == R.config
<1>1. /\ config \in [KeyNames -> Seq(Nat)] /\ Tidy(config["provider_name"])
      /\ Len(config["provider_signing_key"]) = KeyLen /\ Len(config["resolver_secret_key"]) = KeyLen
  BY ResolverAssumption, ZenonT(30) DEF R
<1> HIDE DEF config
<1>2. load(save(config)) = Ok(config)
  BY <1>1, KeyFileRoundTrip, ZenonT(30)
<1>3. r = ServerCert(load(save(config)).val, t)
  BY DEF Started, config
<1>4. r.signed.resolver_public_key = load(save(config)).val.resolver_secret_key
  BY <1>3 DEF ServerCert, sign_certificate
<1>5. r.signed.resolver_public_key = config.resolver_secret_key
  BY <1>2, <1>4, SMTT(30) DEF Ok
<1>6. QED
  BY <1>5, SMTT(30) DEF Trusted, ResolverKeys, config

\* What a step of call q must establish for itself.
Local(q) ==
  /\ DOMAIN pc' = Queries /\ DOMAIN using' = Queries
  /\ DOMAIN heard' = Queries /\ DOMAIN start' = Queries
  /\ \A p \in Queries \ {q} :
       pc'[p] = pc[p] /\ using'[p] = using[p] /\ heard'[p] = heard[p] /\ start'[p] = start[p]
  /\ start'[q] \in Nat /\ start'[q] <= now
  /\ \A r \in heard'[q] : Trusted(r)
  /\ cert' = cert \/ cert'.resolver_public_key \in ResolverKeys
  /\ pc'[q] \in {"store", "udp", "tcp"} =>
       /\ using'[q].resolver_public_key \in ResolverKeys
       /\ \E t \in start'[q]..now : using'[q].ts_start <= t /\ t < using'[q].ts_end

\* What an update of one call's local leaves alone.
LEMMA Updated ==
  ASSUME NEW f, DOMAIN f = Queries, NEW q \in Queries, NEW v, NEW g, g = [f EXCEPT ![q] = v]
  PROVE  DOMAIN g = Queries /\ g[q] = v /\ \A p \in Queries \ {q} : g[p] = f[p]
OBVIOUS

\* What VInv says of one call.
LEMMA Known ==
  ASSUME VInv, NEW q \in Queries
  PROVE  /\ DOMAIN pc = Queries /\ DOMAIN using = Queries
         /\ DOMAIN heard = Queries /\ DOMAIN start = Queries
         /\ now \in Nat /\ start[q] \in Nat /\ start[q] <= now
         /\ \A r \in heard[q] : Trusted(r)
         /\ cert # None => cert.resolver_public_key \in ResolverKeys
         /\ pc[q] \in {"store", "udp", "tcp"} => Holds(q)
BY ZenonT(30) DEF VInv

LEMMA LocalKeepsVInv ==
  ASSUME VInv, NEW q \in Queries, UNCHANGED env, Local(q)
  PROVE  VInv'
<1>1. R' = R /\ ResolverKeys' = ResolverKeys /\ now' = now /\ live' = live /\ stamp' = stamp
  BY SMTT(30) DEF env, R, ResolverKeys
<1>2. ASSUME NEW r PROVE Trusted(r)' = Trusted(r)
  BY <1>1 DEF Trusted
<1>3. ASSUME NEW p \in Queries PROVE start'[p] \in Nat /\ start'[p] <= now'
  BY <1>1, Known, ZenonT(30) DEF Local
<1>4. ASSUME NEW p \in Queries PROVE \A r \in heard'[p] : Trusted(r)'
  <2>1. \A r \in heard'[p] : Trusted(r)
    BY Known, ZenonT(30) DEF Local
  <2>2. QED
    BY <1>2, <2>1, ZenonT(30)
<1>5. \A r \in live' : Trusted(r)'
  BY <1>1, <1>2 DEF VInv
<1>6. ASSUME NEW p \in Queries, pc'[p] \in {"store", "udp", "tcp"}
      PROVE  Holds(p)'
  <2>1. CASE p = q
    BY <1>1, <1>6, <2>1, SMTT(30) DEF Local, Holds
  <2>2. CASE p # q
    <3>1. Holds(p)
      BY <1>6, <2>2, Known, ZenonT(30) DEF Local
    <3>2. using'[p] = using[p] /\ start'[p] = start[p]
      BY <2>2, SMTT(30) DEF Local
    <3>3. QED
      BY <1>1, <3>1, <3>2, SMTT(30) DEF Holds
  <2>3. QED
    BY <2>1, <2>2
<1>7. cert' # None => cert'.resolver_public_key \in ResolverKeys'
  BY <1>1, Known, ZenonT(30) DEF Local
<1>8. /\ resolver' \in DOMAIN Resolvers /\ now' \in Nat
      /\ stamp'.provider_public_key = R'.config.provider_signing_key
  <2>1. /\ resolver \in DOMAIN Resolvers /\ now \in Nat /\ resolver' = resolver
        /\ stamp.provider_public_key = R.config.provider_signing_key
    BY ZenonT(30) DEF VInv, env
  <2>2. QED
    BY <1>1, <2>1, ZenonT(30)
<1>9. /\ DOMAIN pc' = Queries /\ DOMAIN using' = Queries
      /\ DOMAIN heard' = Queries /\ DOMAIN start' = Queries
  BY ZenonT(30) DEF Local
<1>10. QED
  BY <1>3, <1>4, <1>5, <1>6, <1>7, <1>8, <1>9, ZenonT(30) DEF VInv

\* A call that ends holds nothing.
LEMMA ReturnIsLocal ==
  ASSUME VInv, NEW q \in Queries, NEW r, NEW m, Return(q, r, m), UNCHANGED cert
  PROVE  Local(q)
<1>1. /\ pc' = [pc EXCEPT ![q] = "idle"] /\ heard' = [heard EXCEPT ![q] = {}]
      /\ using' = [using EXCEPT ![q] = None] /\ start' = [start EXCEPT ![q] = 0]
  BY DEF Return, Goto
<1>2. /\ DOMAIN pc' = Queries /\ pc'[q] = "idle" /\ \A p \in Queries \ {q} : pc'[p] = pc[p]
      /\ DOMAIN heard' = Queries /\ heard'[q] = {} /\ \A p \in Queries \ {q} : heard'[p] = heard[p]
      /\ DOMAIN using' = Queries /\ \A p \in Queries \ {q} : using'[p] = using[p]
      /\ DOMAIN start' = Queries /\ start'[q] = 0 /\ \A p \in Queries \ {q} : start'[p] = start[p]
  BY <1>1, Updated, Known, ZenonT(30)
<1>3. 0 \in Nat /\ 0 <= now
  BY Known
<1>4. QED
  BY <1>2, <1>3, ZenonT(30) DEF Local

\* Receive ends the call or turns to TCP with the certificate it has.
LEMMA ReceiveIsLocal ==
  ASSUME VInv, NEW q \in Queries, NEW resp, Receive(q, resp), UNCHANGED cert,
         pc[q] \in {"udp", "tcp"}
  PROVE  Local(q)
<1>1. ASSUME NEW r, NEW m, Return(q, r, m)
      PROVE  Local(q)
  BY <1>1, ReturnIsLocal
<1>2. CASE Goto(q, "tcp") /\ UNCHANGED <<heard, using, attempt, start, result, answer>>
  <2>1. Holds(q)
    BY Known, ZenonT(30)
  <2>2. DOMAIN pc' = Queries /\ \A p \in Queries \ {q} : pc'[p] = pc[p]
    BY <1>2, Updated, Known, ZenonT(30) DEF Goto
  <2>3. QED
    BY <1>2, <2>1, <2>2, Known, ZenonT(30) DEF Local, Holds
<1>3. \/ Return(q, "error", NoAnswer)
      \/ Goto(q, "tcp") /\ UNCHANGED <<heard, using, attempt, start, result, answer>>
      \/ \E m : Return(q, "ok", m)
  BY ZenonT(30) DEF Receive, Fail
<1>4. QED
  BY <1>1, <1>2, <1>3, ZenonT(30)

LEMMA CallKeepsVInv ==
  ASSUME VInv, NEW q \in Queries, Begin(q) \/ Served(q) \/ Failed(q)
  PROVE  VInv'
<1>1. CASE Begin(q)
  <2>1. CASE cert # None /\ is_valid_at(cert, now)
    <3>1. now \in Nat /\ now <= now /\ now \in now..now
      BY Known
    <3>2. cert.ts_start <= now /\ now < cert.ts_end
      BY <2>1 DEF is_valid_at
    <3>3. /\ pc' = [pc EXCEPT ![q] = "udp"] /\ using' = [using EXCEPT ![q] = cert]
          /\ start' = [start EXCEPT ![q] = now] /\ heard' = heard /\ cert' = cert
      BY <1>1, <2>1, ZenonT(30) DEF Begin, Goto
    <3>4. /\ DOMAIN pc' = Queries /\ \A p \in Queries \ {q} : pc'[p] = pc[p]
          /\ DOMAIN using' = Queries /\ using'[q] = cert /\ \A p \in Queries \ {q} : using'[p] = using[p]
          /\ DOMAIN start' = Queries /\ start'[q] = now /\ \A p \in Queries \ {q} : start'[p] = start[p]
      BY <3>3, Updated, Known, ZenonT(30)
    <3>5. Local(q)
      BY <2>1, <3>1, <3>2, <3>3, <3>4, Known, ZenonT(30) DEF Local
    <3>6. QED
      BY <1>1, <3>5, LocalKeepsVInv DEF Begin
  <2>2. CASE ~(cert # None /\ is_valid_at(cert, now))
    <3>1. now \in Nat /\ now <= now
      BY Known
    <3>2. /\ pc' = [pc EXCEPT ![q] = "fetch"] /\ start' = [start EXCEPT ![q] = now]
          /\ using' = using /\ heard' = heard /\ cert' = cert
      BY <1>1, <2>2, ZenonT(30) DEF Begin, Goto
    <3>3. /\ DOMAIN pc' = Queries /\ pc'[q] = "fetch" /\ \A p \in Queries \ {q} : pc'[p] = pc[p]
          /\ DOMAIN start' = Queries /\ start'[q] = now /\ \A p \in Queries \ {q} : start'[p] = start[p]
      BY <3>2, Updated, Known, ZenonT(30)
    <3>4. Local(q)
      BY <3>1, <3>2, <3>3, Known, ZenonT(30) DEF Local
    <3>5. QED
      BY <1>1, <3>4, LocalKeepsVInv DEF Begin
  <2>3. QED
    BY <2>1, <2>2, SMTT(30)
<1>2. CASE FetchTxt(q)
  <2>1. \A r \in ProviderTxt : Trusted(r)
    BY ResolverAssumption, SMTT(30) DEF ProviderTxt, Trusted, VInv, R
  <2>2. Local(q)
    <3>1. /\ pc' = [pc EXCEPT ![q] = "parse"] /\ heard' = [heard EXCEPT ![q] = ProviderTxt]
          /\ using' = using /\ start' = start /\ cert' = cert
      BY <1>2, ZenonT(30) DEF FetchTxt, Goto
    <3>2. /\ DOMAIN pc' = Queries /\ pc'[q] = "parse" /\ \A p \in Queries \ {q} : pc'[p] = pc[p]
          /\ DOMAIN heard' = Queries /\ heard'[q] = ProviderTxt
          /\ \A p \in Queries \ {q} : heard'[p] = heard[p]
      BY <3>1, Updated, Known, ZenonT(30)
    <3>3. QED
      BY <2>1, <3>1, <3>2, Known, ZenonT(30) DEF Local
  <2>3. QED
    BY <1>2, <2>2, LocalKeepsVInv DEF FetchTxt
<1>3. CASE PickCert(q)
  <2> DEFINE certs == {c \in parse_certificates(heard[q], stamp.provider_public_key) :
                         is_valid_at(c, now)}
  <2>1. CASE Fail(q)
    BY <1>3, <2>1, ReturnIsLocal, LocalKeepsVInv DEF Fail, PickCert
  <2>2. CASE ~Fail(q)
    <3>1. PICK c \in Newest(certs) :
            /\ using' = [using EXCEPT ![q] = c]
            /\ heard' = [heard EXCEPT ![q] = {}]
            /\ Goto(q, "store")
            /\ UNCHANGED <<attempt, start, result, answer>>
      BY <1>3, <2>2, SMTT(30) DEF PickCert
    <3>2. c \in parse_certificates(heard[q], stamp.provider_public_key) /\ is_valid_at(c, now)
      BY DEF Newest
    <3>3. PICK r \in heard[q] :
            parse_one_certificate(r, stamp.provider_public_key) /\ c = r.signed
      BY <3>2, SMTT(30) DEF parse_certificates
    <3>4. c.resolver_public_key \in ResolverKeys
      BY <3>3, SMTT(30) DEF VInv, Trusted
    <3>5. now \in start[q]..now
      BY Known
    <3>6. c.ts_start <= now /\ now < c.ts_end
      BY <3>2 DEF is_valid_at
    <3>7. /\ DOMAIN pc' = Queries /\ \A p \in Queries \ {q} : pc'[p] = pc[p]
          /\ DOMAIN using' = Queries /\ using'[q] = c /\ \A p \in Queries \ {q} : using'[p] = using[p]
          /\ DOMAIN heard' = Queries /\ heard'[q] = {} /\ \A p \in Queries \ {q} : heard'[p] = heard[p]
          /\ start' = start
      BY <3>1, Updated, Known, ZenonT(30) DEF Goto
    <3>8. Local(q)
      <4>1. cert' = cert
        BY <1>3 DEF PickCert
      <4>2. QED
        BY <3>4, <3>5, <3>6, <3>7, <4>1, Known, ZenonT(30) DEF Local
    <3>9. QED
      BY <1>3, <3>8, LocalKeepsVInv, SMTT(30) DEF PickCert
  <2>3. QED
    BY <2>1, <2>2
<1>4. CASE StoreCert(q)
  <2>1. Holds(q)
    BY <1>4, Known, ZenonT(30) DEF StoreCert
  <2>2. Local(q)
    <3>1. /\ pc' = [pc EXCEPT ![q] = "udp"] /\ cert' = using[q]
          /\ using' = using /\ heard' = heard /\ start' = start
      BY <1>4, ZenonT(30) DEF StoreCert, Goto
    <3>2. DOMAIN pc' = Queries /\ \A p \in Queries \ {q} : pc'[p] = pc[p]
      BY <3>1, Updated, Known, ZenonT(30)
    <3>3. QED
      BY <2>1, <3>1, <3>2, Known, ZenonT(30) DEF Local, Holds
  <2>3. QED
    BY <1>4, <2>2, LocalKeepsVInv, SMTT(30) DEF StoreCert
<1>5. CASE UdpAnswer(q)
  <2>1. PICK resp : Receive(q, resp)
    BY <1>5 DEF UdpAnswer
  <2>2. QED
    BY <1>5, <2>1, ReceiveIsLocal, LocalKeepsVInv DEF UdpAnswer
<1>6. CASE TcpAnswer(q)
  <2>1. PICK resp : Receive(q, resp)
    BY <1>6 DEF TcpAnswer
  <2>2. QED
    BY <1>6, <2>1, ReceiveIsLocal, LocalKeepsVInv DEF TcpAnswer
<1>7. CASE BadAnswer(q)
  BY <1>7, ReceiveIsLocal, LocalKeepsVInv DEF BadAnswer
<1>8. CASE FetchErr(q)
  BY <1>8, ReturnIsLocal, LocalKeepsVInv DEF FetchErr, Fail
<1>9. CASE IoErr(q)
  <2>1. CASE Fail(q)
    BY <1>9, <2>1, ReturnIsLocal, LocalKeepsVInv DEF IoErr, Fail
  <2>2. CASE ~Fail(q)
    <3>1. /\ pc' = [pc EXCEPT ![q] = "fetch"] /\ using' = [using EXCEPT ![q] = None]
          /\ heard' = heard /\ start' = start /\ cert' = cert
      BY <1>9, <2>2, ZenonT(30) DEF IoErr, Goto
    <3>2. /\ DOMAIN pc' = Queries /\ pc'[q] = "fetch" /\ \A p \in Queries \ {q} : pc'[p] = pc[p]
          /\ DOMAIN using' = Queries /\ \A p \in Queries \ {q} : using'[p] = using[p]
      BY <3>1, Updated, Known, ZenonT(30)
    <3>3. Local(q)
      BY <3>1, <3>2, Known, ZenonT(30) DEF Local
    <3>4. QED
      BY <1>9, <3>3, LocalKeepsVInv DEF IoErr
  <2>3. QED
    BY <2>1, <2>2
<1>10. CASE Timeout(q)
  BY <1>10, ReturnIsLocal, LocalKeepsVInv, SMTT(30) DEF Timeout
<1>11. QED
  BY <1>1, <1>2, <1>3, <1>4, <1>5, <1>6, <1>7, <1>8, <1>9, <1>10 DEF Served, Failed

\* A step of the resolver or of the clock.
LEMMA EnvironmentKeepsVInv ==
  ASSUME VInv, Rotate \/ Retire \/ Stop \/ Start \/ Tick
  PROVE  VInv'
<1>1. UNCHANGED <<resolver, stamp, client>>
  BY SMTT(30) DEF Rotate, Retire, Stop, Start, Tick
<1>2. R' = R /\ ResolverKeys' = ResolverKeys
  BY <1>1 DEF R, ResolverKeys
<1>3. ASSUME NEW r PROVE Trusted(r)' = Trusted(r)
  BY <1>2 DEF Trusted
<1>4. now \in Nat /\ now' \in Nat /\ now <= now'
  BY SMTT(30) DEF VInv, Rotate, Retire, Stop, Start, Tick
<1>5. \A r \in live' : Trusted(r)
  <2>1. CASE Rotate
    BY <2>1, ProviderCertTrusted, SMTT(30) DEF Rotate, VInv
  <2>2. CASE Retire
    BY <2>2, SMTT(30) DEF Retire, VInv
  <2>3. CASE Stop
    BY <2>3 DEF Stop
  <2>4. CASE Start
    BY <2>4, StartedTrusted DEF Start, VInv
  <2>5. CASE Tick
    BY <2>5, SMTT(30) DEF Tick, VInv
  <2>6. QED
    BY <2>1, <2>2, <2>3, <2>4, <2>5
<1>6. ASSUME NEW q \in Queries, pc'[q] \in {"store", "udp", "tcp"}
      PROVE  Holds(q)'
  <2>1. Holds(q) /\ start[q] \in Nat
    BY <1>1, <1>6, Known, ZenonT(30) DEF client
  <2>2. PICK t \in start[q]..now : using[q].ts_start <= t /\ t < using[q].ts_end
    BY <2>1 DEF Holds
  <2>3. t \in start[q]..now'
    BY <1>4, <2>1
  <2>4. QED
    BY <1>1, <1>2, <2>1, <2>2, <2>3, SMTT(30) DEF Holds, client
<1>7. ASSUME NEW q \in Queries PROVE start'[q] \in Nat /\ start'[q] <= now'
  <2>1. start' = start /\ start[q] \in Nat /\ start[q] <= now
    BY <1>1, Known, ZenonT(30) DEF client
  <2>2. QED
    BY <1>4, <2>1
<1>8. QED
  BY <1>1, <1>2, <1>3, <1>4, <1>5, <1>6, <1>7, ZenonT(30) DEF VInv, client

----------------------------------------------------------------------------
(***************************************************************************)
(* Stamps and key files.                                                    *)
(***************************************************************************)
\* Every set of natural numbers has a least one.
LEMMA LeastNatural ==
  ASSUME NEW S \in SUBSET Nat, S # {}
  PROVE  \E n \in S : \A m \in S : n <= m
<1>1. PICK n \in S : \A m \in S : ~(<<m, n>> \in OpToRel(<, Nat))
  BY NatLessThanWellFounded, WFMin, ZenonT(30)
<1>2. \A m \in S : ~(m < n)
  BY <1>1, ZenonT(30) DEF OpToRel
<1>3. QED
  BY <1>2

\* Induction, for what can be said of the numbers in a set.
LEMMA Induction ==
  ASSUME NEW P \in SUBSET Nat, 0 \in P, \A n \in P : n + 1 \in P
  PROVE  P = Nat
<1> SUFFICES ASSUME P # Nat PROVE FALSE
  OBVIOUS
<1>1. PICK n \in Nat \ P : \A m \in Nat \ P : n <= m
  BY LeastNatural, ZenonT(30)
<1>2. n - 1 \in Nat /\ ~(n <= n - 1) /\ (n - 1) + 1 = n
  BY <1>1
<1>3. n - 1 \in P
  BY <1>1, <1>2
<1>4. QED
  BY <1>1, <1>2, <1>3

\* What read_lp finds at p, if f is what it finds further on.
SegAt(f, buf, p) ==
  IF p > Len(buf) \/ p + (buf[p] % HighBit) > Len(buf)
  THEN Err
  ELSE LET end  == p + (buf[p] % HighBit)
           here == SubSeq(buf, p + 1, end)
       IN IF buf[p] < HighBit
          THEN Ok([bytes |-> here, pos |-> end + 1])
          ELSE IF f[end + 1].ok
               THEN Ok([bytes |-> here \o f[end + 1].val.bytes, pos |-> f[end + 1].val.pos])
               ELSE Err

Segs(f, buf) == f = [p \in 1..(Len(buf) + 1) |-> SegAt(f, buf, p)]

\* A length is what a length byte has below its high bit.
LEMMA SegLength ==
  ASSUME NEW b \in Nat
  PROVE  b % HighBit \in Nat /\ (b < HighBit => b % HighBit = b)
<1>1. HighBit \in Nat /\ HighBit > 0
  BY StampAssumption
<1>2. QED
  BY <1>1, SMTT(30)

\* Only what is further on matters.
LEMMA SegLocal ==
  ASSUME NEW buf \in Seq(Nat), NEW f, NEW g, NEW p \in 1..(Len(buf) + 1),
         \A r \in 1..(Len(buf) + 1) : r > p => f[r] = g[r]
  PROVE  SegAt(f, buf, p) = SegAt(g, buf, p)
<1>1. CASE p > Len(buf) \/ p + (buf[p] % HighBit) > Len(buf)
  BY <1>1, ZenonT(30) DEF SegAt
<1>2. CASE ~(p > Len(buf) \/ p + (buf[p] % HighBit) > Len(buf))
  <2> DEFINE r == (p + (buf[p] % HighBit)) + 1
  <2>1. Len(buf) \in Nat /\ p \in 1..Len(buf)
    BY <1>2, SMTT(30)
  <2>2. buf[p] % HighBit \in Nat
    <3>1. buf[p] \in Nat
      BY <2>1, SMTT(30)
    <3>2. QED
      BY <3>1, SegLength, ZenonT(30)
  <2>3. r \in 1..(Len(buf) + 1) /\ r > p
    BY <1>2, <2>1, <2>2, SMTT(30)
  <2>4. f[r] = g[r]
    BY <2>3
  <2>5. QED
    BY <1>2, <2>4, ZenonT(30) DEF SegAt
<1>3. QED
  BY <1>1, <1>2

\* What read_lp computes is well defined: it only ever goes on.
LEMMA SegsExist ==
  ASSUME NEW buf \in Seq(Nat)
  PROVE  \E f : Segs(f, buf)
<1> DEFINE n == Len(buf) + 1
           From(f, k) == f = [p \in 1..n |-> f[p]] /\ \A p \in 1..n : p > n - k => f[p] = SegAt(f, buf, p)
           P == { k \in Nat : \E f : From(f, k) }
<1>0. n \in Nat /\ n = Len(buf) + 1
  OBVIOUS
<1> HIDE DEF n
<1>1. 0 \in P
  <2>1. From([p \in 1..n |-> 0], 0)
    <3>1. \A p \in 1..n : ~(p > n - 0)
      BY <1>0
    <3>2. QED
      BY <3>1, ZenonT(30)
  <2> HIDE DEF From
  <2>2. QED
    BY <2>1
<1>2. ASSUME NEW k \in P PROVE k + 1 \in P
  <2>1. PICK f : From(f, k)
    OBVIOUS
  <2> DEFINE q == n - k
             g == [p \in 1..n |-> IF p = q THEN SegAt(f, buf, q) ELSE f[p]]
  <2>2. k \in Nat /\ q \in Int /\ \A p \in 1..n : p > n - (k + 1) => p = q \/ (p > q /\ p # q)
    BY <1>0
  <2>3. ASSUME NEW p \in 1..n, p > n - (k + 1) PROVE g[p] = SegAt(g, buf, p)
    <3>1. g[p] = SegAt(f, buf, p)
      <4>1. CASE p = q
        BY <4>1, ZenonT(30)
      <4>2. CASE p > q /\ p # q
        <5>1. f[p] = SegAt(f, buf, p)
          BY <2>1, <4>2
        <5>2. g[p] = f[p]
          BY <4>2, ZenonT(30)
        <5>3. QED
          BY <5>1, <5>2
      <4>3. QED
        BY <2>2, <2>3, <4>1, <4>2
    <3>2. \A r \in 1..n : r > p => f[r] = g[r]
      <4>1. \A r \in 1..n : r > p => r # q
        BY <1>0, <2>2, <2>3
      <4>2. QED
        BY <4>1, ZenonT(30)
    <3>3. SegAt(f, buf, p) = SegAt(g, buf, p)
      <4> HIDE DEF g
      <4>1. QED
        BY <1>0, <3>2, SegLocal
    <3>4. QED
      BY <3>1, <3>3
  <2>4. g = [p \in 1..n |-> g[p]]
    OBVIOUS
  <2> HIDE DEF g
  <2>5. From(g, k + 1)
    BY <2>3, <2>4
  <2> HIDE DEF From
  <2>6. QED
    BY <2>2, <2>5
<1>3. n \in P
  <2> HIDE DEF P
  <2>1. P = Nat
    BY <1>1, <1>2, Induction, ZenonT(30) DEF P
  <2>2. QED
    BY <1>0, <2>1
<1>4. PICK f : From(f, n)
  BY <1>3
<1>5. \A p \in 1..n : f[p] = SegAt(f, buf, p)
  <2>1. \A p \in 1..n : p > n - n
    BY <1>0
  <2>2. QED
    BY <1>4, <2>1
<1>6. f = [p \in 1..n |-> f[p]]
  BY <1>4
<1>7. f = [p \in 1..n |-> SegAt(f, buf, p)]
  BY <1>5, <1>6, ZenonT(30)
<1>8. QED
  BY <1>0, <1>7, ZenonT(30) DEF Segs

\* A segment whose length has no high bit is what it says.
LEMMA ReadSegment ==
  ASSUME NEW buf \in Seq(Nat), NEW p \in 1..Len(buf), buf[p] < HighBit, p + buf[p] <= Len(buf)
  PROVE  read_lp(buf, p) = Ok([bytes |-> SubSeq(buf, p + 1, p + buf[p]), pos |-> p + buf[p] + 1])
<1> DEFINE f == CHOOSE g : Segs(g, buf)
<1>1. Segs(f, buf)
  BY SegsExist
<1>2. read_lp(buf, p) = f[p]
  BY ZenonT(30) DEF read_lp, Segs, SegAt
<1> HIDE DEF f
<1>3. p \in 1..(Len(buf) + 1) /\ Len(buf) \in Nat /\ buf[p] \in Nat /\ HighBit \in Nat
  BY StampAssumption
<1>4. f[p] = SegAt(f, buf, p)
  BY <1>1, <1>3, ZenonT(30) DEF Segs
<1>5. buf[p] % HighBit = buf[p] /\ ~(p > Len(buf)) /\ ~(p + buf[p] > Len(buf))
  <2>1. buf[p] % HighBit = buf[p]
    BY <1>3, SegLength, ZenonT(30)
  <2>2. QED
    BY <1>3, <2>1, SMTT(30)
<1>6. SegAt(f, buf, p) = Ok([bytes |-> SubSeq(buf, p + 1, p + buf[p]), pos |-> (p + buf[p]) + 1])
  BY <1>5, ZenonT(30) DEF SegAt
<1>7. QED
  BY <1>2, <1>4, <1>6, ZenonT(30)

\* A segment that fits one length byte is read back.
LEMMA ReadBack ==
  ASSUME NEW buf \in Seq(Nat), NEW p \in 1..Len(buf), NEW s \in Seq(Nat), Len(s) < HighBit,
         p + Len(s) <= Len(buf), buf[p] = Len(s), \A i \in 1..Len(s) : buf[p + i] = s[i]
  PROVE  read_lp(buf, p) = Ok([bytes |-> s, pos |-> p + Len(s) + 1])
<1> DEFINE t == SubSeq(buf, p + 1, p + Len(s))
<1>1. Len(s) \in Nat /\ Len(buf) \in Nat
  OBVIOUS
<1>2. t \in Seq(Nat) /\ Len(t) = Len(s) /\ \A i \in 1..Len(s) : t[i] = buf[p + i]
  <2>1. p + 1 \in 1..(Len(buf) + 1) /\ p + Len(s) \in p..Len(buf)
    BY <1>1
  <2>2. /\ t \in Seq(Nat) /\ Len(t) = (p + Len(s)) - (p + 1) + 1
        /\ \A i \in 1..((p + Len(s)) - (p + 1) + 1) : t[i] = buf[(p + 1) + i - 1]
    <3> DEFINE m == p + 1
               n == p + Len(s)
    <3>1. m \in Int /\ n \in Int /\ (m <= n \/ n - m + 1 = 0)
      BY <1>1
    <3>2. \A i \in m..n : buf[i] \in Nat
      BY <1>1, <2>1, SMTT(30)
    <3> HIDE DEF m, n
    <3>3. /\ SubSeq(buf, m, n) \in Seq(Nat)
          /\ Len(SubSeq(buf, m, n)) = IF m <= n THEN n - m + 1 ELSE 0
          /\ \A i \in 1..(n - m + 1) : SubSeq(buf, m, n)[i] = buf[m + i - 1]
      BY <3>1, <3>2, SubSeqProperties
    <3>4. Len(SubSeq(buf, m, n)) = n - m + 1
      BY <3>1, <3>3, ZenonT(30)
    <3>5. QED
      BY <3>3, <3>4, ZenonT(30) DEF m, n
  <2> HIDE DEF t
  <2>3. (p + Len(s)) - (p + 1) + 1 = Len(s) /\ \A i \in 1..Len(s) : (p + 1) + i - 1 = p + i
    BY <1>1
  <2>4. QED
    BY <2>2, <2>3
<1> HIDE DEF t
<1>3. t = s
  BY <1>2, SeqEqual, ZenonT(30)
<1>4. read_lp(buf, p) = Ok([bytes |-> t, pos |-> p + Len(s) + 1])
  BY <1>1, ReadSegment, ZenonT(30) DEF t
<1>5. QED
  BY <1>3, <1>4

\* Where the parts of u and of a segment after it stand.
LEMMA Appended ==
  ASSUME NEW u \in Seq(Nat), NEW s \in Seq(Nat)
  PROVE  LET v == u \o LengthPrefixed(s)
         IN /\ v \in Seq(Nat) /\ Len(v) = Len(u) + Len(s) + 1
            /\ Len(s) < HighBit => v[Len(u) + 1] = Len(s)
            /\ \A i \in 1..Len(s) : v[Len(u) + 1 + i] = s[i]
            /\ \A i \in 1..Len(u) : v[i] = u[i]
<1> DEFINE b == Len(s) % (2 * HighBit)
           l == LengthPrefixed(s)
           v == u \o l
<1>1. Len(s) \in Nat /\ Len(u) \in Nat /\ HighBit \in Nat /\ HighBit > 0
  BY StampAssumption
<1>2. b \in Nat /\ (Len(s) < HighBit => b = Len(s))
  <2> DEFINE n == Len(s)
             h == 2 * HighBit
  <2>1. n \in Nat /\ h \in Nat /\ h > 0 /\ (n < HighBit => n < h)
    BY <1>1
  <2> HIDE DEF n, h
  <2>2. n % h \in Nat /\ (n < h => n % h = n)
    BY <2>1
  <2>3. QED
    BY <2>1, <2>2, ZenonT(30) DEF n, h
<1>3. <<b>> \in Seq(Nat) /\ Len(<<b>>) = 1 /\ <<b>>[1] = b
  BY <1>2
<1> HIDE DEF b
<1>4. /\ l \in Seq(Nat) /\ Len(l) = Len(s) + 1 /\ l[1] = b
      /\ \A i \in 1..Len(s) : l[i + 1] = s[i]
  <2>1. l = <<b>> \o s
    BY DEF LengthPrefixed, b
  <2> HIDE DEF l
  <2>2. /\ l \in Seq(Nat) /\ Len(l) = Len(<<b>>) + Len(s)
        /\ \A i \in 1..(Len(<<b>>) + Len(s)) :
             l[i] = IF i <= Len(<<b>>) THEN <<b>>[i] ELSE s[i - Len(<<b>>)]
    BY <1>3, <2>1, ConcatProperties
  <2>3. QED
    BY <1>1, <1>3, <2>2, SMTT(30)
<1> HIDE DEF l
<1>5. /\ v \in Seq(Nat) /\ Len(v) = Len(u) + Len(l)
      /\ \A i \in 1..(Len(u) + Len(l)) : v[i] = IF i <= Len(u) THEN u[i] ELSE l[i - Len(u)]
  BY <1>4, ConcatProperties, ZenonT(30)
<1> HIDE DEF v
<1>6. v[Len(u) + 1] = l[1]
  <2>1. Len(u) + 1 \in 1..(Len(u) + Len(l)) /\ ~(Len(u) + 1 <= Len(u)) /\ (Len(u) + 1) - Len(u) = 1
    BY <1>1, <1>4
  <2>2. QED
    BY <1>5, <2>1
<1>7. ASSUME NEW i \in 1..Len(s) PROVE v[Len(u) + 1 + i] = s[i]
  <2>1. /\ Len(u) + 1 + i \in 1..(Len(u) + Len(l)) /\ ~(Len(u) + 1 + i <= Len(u))
        /\ (Len(u) + 1 + i) - Len(u) = i + 1
    BY <1>1, <1>4, SMTT(30)
  <2>2. v[Len(u) + 1 + i] = l[i + 1]
    BY <1>5, <2>1, SMTT(30)
  <2>3. QED
    BY <1>4, <2>2
<1>8. \A i \in 1..Len(u) : v[i] = u[i]
  BY <1>1, <1>4, <1>5, SMTT(30)
<1>9. /\ v \in Seq(Nat) /\ Len(v) = Len(u) + Len(s) + 1
      /\ Len(s) < HighBit => v[Len(u) + 1] = Len(s)
  BY <1>1, <1>2, <1>4, <1>5, <1>6
<1>10. QED
  BY <1>7, <1>8, <1>9, SMTT(30) DEF v, l

\* An address is printed in a form that only it has.
LEMMA AddrRoundTrip ==
  ASSUME NEW a \in Addrs
  PROVE  /\ parse_stamp_addr(AddrString(a)) = Ok(a)
         /\ AddrString(a) \in Seq(Nat) /\ Len(AddrString(a)) <= 5
<1>1. a.ip \in {IpV4, IpV6} /\ a.port \in Nat
  BY DEF Addrs, Ports
<1>2. ASSUME NEW b \in Addrs, AddrString(a) \in AddrForms(b) PROVE a = b
  <2>1. a.ip = b.ip /\ a.port = b.port
    BY <1>2, SMTT(60) DEF Addrs, Ports, AddrForms, AddrString, IpV4, IpV6, Colon, Open_,
                           Close_, DEFAULT_PORT_DNSCRYPT
  <2>2. QED
    BY <2>1 DEF Addrs
<1>3. AddrString(a) \in AddrForms(a)
  BY DEF AddrForms
<1>4. parse_stamp_addr(AddrString(a)) = Ok(a)
  BY <1>2, <1>3, ZenonT(30) DEF parse_stamp_addr
<1>5. AddrString(a) \in Seq(Nat) /\ Len(AddrString(a)) <= 5
  BY <1>1, SMTT(30) DEF AddrString, IpV4, IpV6, Colon, Open_, Close_
<1>6. QED
  BY <1>4, <1>5

\* How the parser reads a stamp this crate prints: the address and the key are
\* what was written, however long the name is.
LEMMA ParsedStamp ==
  ASSUME NEW a \in Addrs, NEW key \in Seq(Nat), Len(key) = KeyLen, NEW name \in Seq(Nat)
  PROVE  LET found == read_lp(build_stamp(a, key, name), Len(AddrString(a)) + KeyLen + 12)
         IN /\ parse_dnscrypt_stamp(build_stamp(a, key, name)) =
                 IF found.ok
                 THEN Ok([addr |-> a, provider_public_key |-> key, provider_name |-> found.val.bytes])
                 ELSE Err
            /\ Len(name) < HighBit => found.ok /\ found.val.bytes = name
<1> DEFINE s == AddrString(a)
           head == <<1>> \o [i \in 1..8 |-> 0]
           v == head \o LengthPrefixed(s)
           w == v \o LengthPrefixed(key)
           z == w \o LengthPrefixed(name)
           n == Len(s)
           found == read_lp(z, n + KeyLen + 12)
<1>0. z = build_stamp(a, key, name)
  BY DEF build_stamp
<1>1. s \in Seq(Nat) /\ n \in Nat /\ n < HighBit /\ KeyLen \in Nat /\ KeyLen < HighBit /\ HighBit \in Nat
  BY AddrRoundTrip, StampAssumption, SMTT(30)
<1>2. head \in Seq(Nat) /\ Len(head) = 9 /\ head[1] = 1
  OBVIOUS
<1> HIDE DEF s, head, n
<1>3. /\ v \in Seq(Nat) /\ Len(v) = n + 10 /\ v[10] = n
      /\ \A i \in 1..n : v[10 + i] = s[i]
      /\ v[1] = 1
  <2>1. n = Len(s)
    BY DEF n
  <2>2. /\ v \in Seq(Nat) /\ Len(v) = Len(head) + Len(s) + 1
        /\ Len(s) < HighBit => v[Len(head) + 1] = Len(s)
        /\ \A i \in 1..Len(s) : v[Len(head) + 1 + i] = s[i]
        /\ \A i \in 1..Len(head) : v[i] = head[i]
    BY <1>1, <1>2, Appended, ZenonT(30)
  <2> HIDE DEF v
  <2>3. QED
    BY <1>1, <1>2, <2>1, <2>2
<1> HIDE DEF v
<1>4. /\ w \in Seq(Nat) /\ Len(w) = n + KeyLen + 11 /\ w[n + 11] = KeyLen
      /\ \A i \in 1..KeyLen : w[n + 11 + i] = key[i]
      /\ \A i \in 1..(n + 10) : w[i] = v[i]
  <2>2. /\ w \in Seq(Nat) /\ Len(w) = Len(v) + Len(key) + 1
        /\ Len(key) < HighBit => w[Len(v) + 1] = Len(key)
        /\ \A i \in 1..Len(key) : w[Len(v) + 1 + i] = key[i]
        /\ \A i \in 1..Len(v) : w[i] = v[i]
    BY <1>3, Appended, ZenonT(30)
  <2> HIDE DEF w
  <2>3. Len(v) + 1 = n + 11 /\ Len(v) + Len(key) + 1 = n + KeyLen + 11
    BY <1>1, <1>3
  <2>4. QED
    BY <1>1, <1>3, <2>2, <2>3
<1> HIDE DEF w
<1>5. /\ z \in Seq(Nat) /\ Len(z) = n + KeyLen + Len(name) + 12
      /\ Len(name) < HighBit => z[n + KeyLen + 12] = Len(name)
      /\ \A i \in 1..Len(name) : z[n + KeyLen + 12 + i] = name[i]
      /\ \A i \in 1..(n + KeyLen + 11) : z[i] = w[i]
  <2>2. /\ z \in Seq(Nat) /\ Len(z) = Len(w) + Len(name) + 1
        /\ Len(name) < HighBit => z[Len(w) + 1] = Len(name)
        /\ \A i \in 1..Len(name) : z[Len(w) + 1 + i] = name[i]
        /\ \A i \in 1..Len(w) : z[i] = w[i]
    BY <1>4, Appended, ZenonT(30)
  <2> HIDE DEF z
  <2>3. Len(name) \in Nat /\ Len(w) + 1 = n + KeyLen + 12
        /\ Len(w) + Len(name) + 1 = n + KeyLen + Len(name) + 12
    BY <1>1, <1>4
  <2>4. QED
    BY <1>1, <1>4, <2>2, <2>3
<1> HIDE DEF z
<1>6. Len(name) \in Nat /\ Len(z) \in Nat
  BY <1>5
<1>7. read_lp(z, 10) = Ok([bytes |-> s, pos |-> n + 11])
  <2>1. 10 \in 1..Len(z) /\ 10 + Len(s) <= Len(z) /\ 10 + Len(s) + 1 = n + 11 /\ Len(s) < HighBit
    BY <1>1, <1>5, <1>6, SMTT(30) DEF n
  <2>2. z[10] = Len(s)
    <3>1. 10 \in 1..(n + 10) /\ 10 \in 1..(n + KeyLen + 11) /\ n = Len(s)
      BY <1>1 DEF n
    <3>2. z[10] = w[10] /\ w[10] = v[10]
      BY <1>4, <1>5, <3>1, ZenonT(30)
    <3>3. QED
      BY <1>3, <3>1, <3>2
  <2>3. ASSUME NEW i \in 1..Len(s) PROVE z[10 + i] = s[i]
    <3>1. i \in 1..n /\ 10 + i \in 1..(n + 10) /\ 10 + i \in 1..(n + KeyLen + 11)
      BY <1>1 DEF n
    <3>2. QED
      BY <1>3, <1>4, <1>5, <3>1, ZenonT(30)
  <2>4. read_lp(z, 10) = Ok([bytes |-> s, pos |-> 10 + Len(s) + 1])
    BY <1>1, <1>5, <2>1, <2>2, <2>3, ReadBack, ZenonT(30)
  <2>5. QED
    BY <2>1, <2>4, ZenonT(30)
<1>8. read_lp(z, n + 11) = Ok([bytes |-> key, pos |-> n + KeyLen + 12])
  <2>1. /\ n + 11 \in 1..Len(z) /\ (n + 11) + Len(key) <= Len(z)
        /\ (n + 11) + Len(key) + 1 = n + KeyLen + 12 /\ Len(key) < HighBit
    BY <1>1, <1>5, <1>6, SMTT(30)
  <2>2. z[n + 11] = Len(key)
    BY <1>1, <1>4, <1>5, SMTT(30)
  <2>3. ASSUME NEW i \in 1..Len(key) PROVE z[(n + 11) + i] = key[i]
    <3>1. i \in 1..KeyLen /\ (n + 11) + i \in 1..(n + KeyLen + 11)
      BY <1>1
    <3>2. QED
      BY <1>4, <1>5, <3>1, SMTT(30)
  <2>4. read_lp(z, n + 11) = Ok([bytes |-> key, pos |-> (n + 11) + Len(key) + 1])
    BY <1>5, <2>1, <2>2, <2>3, ReadBack, ZenonT(30)
  <2>5. QED
    BY <2>1, <2>4, ZenonT(30)
<1>9. ASSUME Len(name) < HighBit PROVE found.ok /\ found.val.bytes = name
  <2> DEFINE p == n + KeyLen + 12
  <2>1. p \in 1..Len(z) /\ p + Len(name) <= Len(z)
    BY <1>1, <1>5, <1>6, SMTT(30)
  <2>2. z[p] = Len(name) /\ \A i \in 1..Len(name) : z[p + i] = name[i]
    BY <1>5, <1>9
  <2> HIDE DEF p
  <2>3. read_lp(z, p) = Ok([bytes |-> name, pos |-> p + Len(name) + 1])
    BY <1>5, <1>9, <2>1, <2>2, ReadBack, ZenonT(30)
  <2>4. found = Ok([bytes |-> name, pos |-> p + Len(name) + 1])
    BY <2>3 DEF p
  <2>5. QED
    BY <2>4, SMTT(30) DEF Ok
<1>10. ~(Len(z) < 9) /\ z[1] = 1
  BY <1>1, <1>3, <1>4, <1>5, <1>6, SMTT(30)
<1>11. parse_stamp_addr(s) = Ok(a)
  BY AddrRoundTrip, ZenonT(30) DEF s
<1> HIDE DEF found
<1>12. parse_dnscrypt_stamp(z) =
         IF found.ok
         THEN Ok([addr |-> a, provider_public_key |-> key, provider_name |-> found.val.bytes])
         ELSE Err
  <2>1. /\ read_lp(z, 10).ok /\ read_lp(z, 10).val.bytes = s /\ read_lp(z, 10).val.pos = n + 11
        /\ read_lp(z, n + 11).ok /\ read_lp(z, n + 11).val.bytes = key
        /\ read_lp(z, n + 11).val.pos = n + KeyLen + 12
    BY <1>7, <1>8, SMTT(30) DEF Ok
  <2>2. parse_stamp_addr(s).ok /\ parse_stamp_addr(s).val = a
    BY <1>11 DEF Ok
  <2>3. found = read_lp(z, n + KeyLen + 12)
    BY DEF found
  <2>4. CASE found.ok
    BY <1>10, <2>1, <2>2, <2>3, <2>4, ZenonT(30) DEF parse_dnscrypt_stamp
  <2>5. CASE ~found.ok
    BY <1>10, <2>1, <2>2, <2>3, <2>5, ZenonT(30) DEF parse_dnscrypt_stamp
  <2>6. QED
    BY <2>4, <2>5
<1>13. QED
  BY <1>0, <1>9, <1>12, ZenonT(30) DEF found, n, s

(***************************************************************************)
(* stamp.rs: parse_dnscrypt_stamp reads back what build_stamp wrote, for    *)
(* every address, key and name that fits a single length byte.              *)
(***************************************************************************)
THEOREM StampRoundTrip ==
  ASSUME NEW a \in Addrs, NEW key \in Seq(Nat), Len(key) = KeyLen,
         NEW name \in Seq(Nat), Len(name) < HighBit
  PROVE  parse_dnscrypt_stamp(build_stamp(a, key, name)) =
           Ok([addr |-> a, provider_public_key |-> key, provider_name |-> name])
<1> DEFINE found == read_lp(build_stamp(a, key, name), Len(AddrString(a)) + KeyLen + 12)
<1>1. /\ parse_dnscrypt_stamp(build_stamp(a, key, name)) =
           IF found.ok
           THEN Ok([addr |-> a, provider_public_key |-> key, provider_name |-> found.val.bytes])
           ELSE Err
      /\ found.ok /\ found.val.bytes = name
  BY ParsedStamp, ZenonT(30)
<1> HIDE DEF found
<1>2. QED
  BY <1>1, ZenonT(30)

----------------------------------------------------------------------------
LEMMA VInvInit == Init => VInv
<1> SUFFICES ASSUME Init PROVE VInv
  OBVIOUS
<1>1. \A r \in live : Trusted(r)
  <2>1. CASE R.rotates
    BY <2>1, ProviderCertTrusted, DnsCryptAssumption, ZenonT(30) DEF Init
  <2>2. CASE ~R.rotates
    BY <2>2, StartedTrusted DEF Init
  <2>3. QED
    BY <2>1, <2>2
<1>2. stamp.provider_public_key = R.config.provider_signing_key
  <2>1. stamp = parse_dnscrypt_stamp(StampOf(R)).val /\ parse_dnscrypt_stamp(StampOf(R)).ok
    BY DEF Init
  <2>2. CASE R.rotates
    <3>1. parse_dnscrypt_stamp(R.stamp).ok => parse_dnscrypt_stamp(R.stamp).val.provider_public_key
                                                = R.config.provider_signing_key
      BY <2>2, ResolverAssumption, ZenonT(30) DEF Init, R
    <3>2. StampOf(R) = R.stamp
      BY <2>2, ZenonT(30) DEF StampOf
    <3>3. QED
      BY <2>1, <3>1, <3>2
  <2>3. CASE ~R.rotates
    <3> DEFINE key == R.config.provider_signing_key
               name == R.config.provider_name
               parsed == parse_dnscrypt_stamp(build_stamp(R.addr, key, name))
    <3>1. R.addr \in Addrs /\ key \in Seq(Nat) /\ Len(key) = KeyLen /\ name \in Seq(Nat)
      <4>1. /\ R.addr \in Addrs /\ R.config \in [KeyNames -> Seq(Nat)]
            /\ Len(R.config["provider_signing_key"]) = KeyLen
        BY <2>3, ResolverAssumption, ZenonT(30) DEF Init, R
      <4>2. QED
        BY <4>1, ZenonT(30) DEF KeyNames
    <3>2. stamp = parsed.val /\ parsed.ok
      BY <2>1, <2>3, ZenonT(30) DEF StampOf
    <3> HIDE DEF key, name
    <3>3. \E n : parsed = Err
                  \/ parsed = Ok([addr |-> R.addr, provider_public_key |-> key, provider_name |-> n])
      <4> DEFINE found == read_lp(build_stamp(R.addr, key, name), Len(AddrString(R.addr)) + KeyLen + 12)
      <4>1. parsed = IF found.ok
                     THEN Ok([addr |-> R.addr, provider_public_key |-> key,
                              provider_name |-> found.val.bytes])
                     ELSE Err
        BY <3>1, ParsedStamp, ZenonT(30)
      <4> HIDE DEF parsed, found
      <4>2. QED
        BY <4>1, ZenonT(30)
    <3> HIDE DEF parsed
    <3>4. parsed.val.provider_public_key = key
      BY <3>2, <3>3, SMTT(30) DEF Ok, Err
    <3>5. QED
      BY <3>2, <3>4 DEF key
  <2>4. QED
    BY <2>2, <2>3
<1>3. /\ resolver \in DOMAIN Resolvers /\ now = 0 /\ cert = None
      /\ pc = [q \in Queries |-> "idle"] /\ heard = [q \in Queries |-> {}]
      /\ using = [q \in Queries |-> None] /\ start = [q \in Queries |-> 0]
  BY ZenonT(30) DEF Init
<1>4. QED
  BY <1>1, <1>2, <1>3, SMTT(30) DEF VInv

\* current_cert and refresh_cert, for any number of calls, certificates and
\* validity windows: a query is encrypted to a key of its own resolver, by a
\* certificate that was valid during the exchange.
THEOREM CertsAreValid == Spec => []UsesValidCert
<1>1. VInv /\ [Next]_vars => VInv'
  <2> SUFFICES ASSUME VInv, [Next]_vars
               PROVE  VInv'
    OBVIOUS
  <2>1. CASE UNCHANGED vars
    BY <2>1, ZenonT(30) DEF vars, VInv, Holds, Trusted, R, ResolverKeys
  <2>2. CASE Next
    BY <2>2, CallKeepsVInv, EnvironmentKeepsVInv DEF Next
  <2>3. QED
    BY <2>1, <2>2
<1>2. VInv => UsesValidCert
  BY SMTT(30) DEF VInv, UsesValidCert, Holds
<1>3. QED
  BY <1>1, <1>2, VInvInit, PTL DEF Spec
=============================================================================
