---------------------------- MODULE ClientProofs ----------------------------
(***************************************************************************)
(* Proofs about the clients' connections.  For any number of exchanges: the *)
(* connection DoqUpstream keeps changes as ConnSlot says, and those made are*)
(* paid for by failures.  For every set of resolvers and whatever they      *)
(* answer: resolution fails only when every resolver does, and the dial     *)
(* handler keeps to the order of the preferred family.                      *)
(***************************************************************************)
EXTENDS DoqUpstream, DialedClient, TLAPS, SequenceTheorems, FiniteSetTheorems,
        WellFoundedInduction

----------------------------------------------------------------------------
(* The connection DoqUpstream keeps *)

\* The mutex is held exactly by the exchange that dials.
MutexHeld == \A q \in Queries : pc[q] \in {"dial", "redial"} <=> conn_mx = q

\* get_conn dials only while nothing is kept.
DialsEmpty == \A q \in Queries : pc[q] = "dial" => conn = 0

\* An exchange past get_conn has a connection.
HasOne == \A q \in Queries : pc[q] \in {"stream", "reset", "redial", "drop"} => used[q] # 0

\* The exchanges whose failure has not yet been used for a dial or a drop.
Owing == {q \in Queries : pc[q] \in {"reset", "redial", "drop"}}

Kept == IF conn = 0 THEN 0 ELSE 1

\* Each failure pays for one connection: the one kept, or one dropped before.
Earned == made + Cardinality(Owing) <= failed + Kept

IInv == TypeOK /\ MutexHeld /\ DialsEmpty /\ HasOne /\ Earned

USE DoqAssumption

\* The queries that owe are finitely many, and one more or one less of them
\* changes their number by one.
LEMMA OwingCount ==
  ASSUME NEW S, NEW q, IsFiniteSet(S)
  PROVE  /\ Cardinality(S) \in Nat
         /\ q \notin S => Cardinality(S \cup {q}) = Cardinality(S) + 1
         /\ q \in S => Cardinality(S \ {q}) = Cardinality(S) - 1
BY FS_CardinalityType, FS_AddElement, FS_RemoveElement, ZenonT(30)

LEMMA OwingFinite == IsFiniteSet(Owing)
BY FS_Subset, Owing \subseteq Queries DEF Owing

\* The exchanges that owe after a step of q that goes to label l.
LEMMA OwingAfter ==
  ASSUME TypeOK, NEW q \in Queries, NEW l, Goto(q, l)
  PROVE  /\ l \in {"reset", "redial", "drop"} => Owing' = Owing \cup {q}
         /\ l \notin {"reset", "redial", "drop"} => Owing' = Owing \ {q}
BY DEF TypeOK, Goto, Owing

\* new, exchange and its parts keep the types of the fields.
LEMMA TypePreserved == TypeOK /\ [Next]_vars => TypeOK'
<1> SUFFICES ASSUME TypeOK, [Next]_vars PROVE TypeOK'
  OBVIOUS
<1> USE DEF TypeOK, Labels
<1>1. CASE UNCHANGED vars
  BY <1>1 DEF vars, local
<1>2. ASSUME NEW q \in Queries, Begin(q) PROVE TypeOK'
  BY <1>2 DEF Begin, Goto, local
<1>3. ASSUME NEW q \in Queries, TakeCached(q) PROVE TypeOK'
  BY <1>3 DEF TakeCached, Goto
<1>4. ASSUME NEW q \in Queries, BeginDial(q) \/ BeginReset(q) PROVE TypeOK'
  BY <1>4 DEF BeginDial, BeginReset, Goto, local
<1>5. ASSUME NEW q \in Queries, DropConn(q) PROVE TypeOK'
  BY <1>5 DEF DropConn, Return, Goto
<1>6. ASSUME NEW q \in Queries, DialOk(q) PROVE TypeOK'
  BY <1>6 DEF DialOk, Goto
<1>7. ASSUME NEW q \in Queries, DialErr(q) PROVE TypeOK'
  BY <1>7 DEF DialErr, Return, Goto
<1>8. ASSUME NEW q \in Queries, StreamOk(q) \/ RetryFails(q) PROVE TypeOK'
  <2>1. PICK r \in {"ok", "error"} : Return(q, r)
    BY <1>8 DEF StreamOk, RetryFails
  <2>2. UNCHANGED <<begun, made, conn, conn_mx, failed>>
    BY <1>8 DEF StreamOk, RetryFails
  <2> QED
    BY <2>1, <2>2 DEF Return, Goto
<1>9. ASSUME NEW q \in Queries, NEW r \in BOOLEAN, FirstFails(q, r) PROVE TypeOK'
  BY <1>9 DEF FirstFails, Goto, local
<1>10. ASSUME NEW q \in Queries, Cancel(q) PROVE TypeOK'
  BY <1>10 DEF Cancel, Return, Goto
<1> QED
  BY <1>1, <1>2, <1>3, <1>4, <1>5, <1>6, <1>7, <1>8, <1>9, <1>10
     DEF Next, Lock, Timed

\* The mutex of get_conn and reset_conn does its work.
LEMMA MutexPreserved ==
  IInv /\ [Next]_vars => MutexHeld' /\ DialsEmpty' /\ HasOne'
<1> SUFFICES ASSUME IInv, [Next]_vars PROVE MutexHeld' /\ DialsEmpty' /\ HasOne'
  BY ZenonT(30)
<1> USE DEF IInv, TypeOK, Labels, MutexHeld, DialsEmpty, HasOne
<1>1. CASE UNCHANGED vars
  BY <1>1 DEF vars, local
<1>2. ASSUME NEW q \in Queries, Begin(q) PROVE MutexHeld' /\ DialsEmpty' /\ HasOne'
  BY <1>2 DEF Begin, Goto, local
<1>3. ASSUME NEW q \in Queries, TakeCached(q) PROVE MutexHeld' /\ DialsEmpty' /\ HasOne'
  BY <1>3 DEF TakeCached, Goto
<1>4. ASSUME NEW q \in Queries, BeginDial(q) PROVE MutexHeld' /\ DialsEmpty' /\ HasOne'
  BY <1>4 DEF BeginDial, Goto, local
<1>5. ASSUME NEW q \in Queries, BeginReset(q) PROVE MutexHeld' /\ DialsEmpty' /\ HasOne'
  BY <1>5 DEF BeginReset, Goto, local
<1>6. ASSUME NEW q \in Queries, DropConn(q) PROVE MutexHeld' /\ DialsEmpty' /\ HasOne'
  BY <1>6 DEF DropConn, Return, Goto
<1>7. ASSUME NEW q \in Queries, DialOk(q) PROVE MutexHeld' /\ DialsEmpty' /\ HasOne'
  BY <1>7 DEF DialOk, Goto
<1>8. ASSUME NEW q \in Queries, DialErr(q) PROVE MutexHeld' /\ DialsEmpty' /\ HasOne'
  BY <1>8 DEF DialErr, Return, Goto
<1>9. ASSUME NEW q \in Queries, StreamOk(q) \/ RetryFails(q)
      PROVE  MutexHeld' /\ DialsEmpty' /\ HasOne'
  <2>1. Return(q, "ok") \/ Return(q, "error")
    BY <1>9 DEF StreamOk, RetryFails
  <2>2. pc[q] = "stream" /\ UNCHANGED <<conn, conn_mx>>
    BY <1>9 DEF StreamOk, RetryFails
  <2> QED
    BY <2>1, <2>2 DEF Return, Goto
<1>10. ASSUME NEW q \in Queries, NEW r \in BOOLEAN, FirstFails(q, r)
       PROVE  MutexHeld' /\ DialsEmpty' /\ HasOne'
  <2>1. pc[q] = "stream" /\ (Goto(q, "reset") \/ Goto(q, "drop"))
    BY <1>10 DEF FirstFails
  <2>2. UNCHANGED <<conn, conn_mx, used>>
    BY <1>10 DEF FirstFails, local
  <2> QED
    BY <2>1, <2>2 DEF Goto
<1>11. ASSUME NEW q \in Queries, Cancel(q) PROVE MutexHeld' /\ DialsEmpty' /\ HasOne'
  BY <1>11 DEF Cancel, Return, Goto
<1> QED
  BY <1>1, <1>2, <1>3, <1>4, <1>5, <1>6, <1>7, <1>8, <1>9, <1>10, <1>11
     DEF Next, Lock, Timed

\* Every dial, drop and failure keeps the account.
LEMMA EarnedPreserved == IInv /\ [Next]_vars => Earned'
<1> SUFFICES ASSUME IInv, [Next]_vars PROVE Earned'
  OBVIOUS
<1> USE DEF IInv, Earned, Kept
<1>0. /\ IsFiniteSet(Owing) /\ Cardinality(Owing) \in Nat
      /\ made \in Nat /\ failed \in Nat /\ conn \in Nat
  <2>1. IsFiniteSet(Owing) /\ Cardinality(Owing) \in Nat
    BY OwingFinite, FS_CardinalityType
  <2>2. made \in Nat /\ failed \in Nat /\ conn \in Nat
    BY DEF TypeOK
  <2> QED
    BY <2>1, <2>2
<1>1. CASE UNCHANGED vars
  <2>1. Owing' = Owing
    BY <1>1 DEF vars, Owing
  <2> QED
    BY <1>1, <2>1 DEF vars
<1>2. ASSUME NEW q \in Queries, Begin(q) \/ TakeCached(q) \/ BeginDial(q) \/ BeginReset(q)
      PROVE  Earned'
  <2>1. Owing' = Owing
    BY <1>2 DEF Begin, TakeCached, BeginDial, BeginReset, Goto, Owing, TypeOK
  <2>2. UNCHANGED <<made, conn, failed>>
    BY <1>2 DEF Begin, TakeCached, BeginDial, BeginReset
  <2> QED
    BY <2>1, <2>2
<1>3. ASSUME NEW q \in Queries, DropConn(q) PROVE Earned'
  <2>1. q \in Owing /\ Owing' = Owing \ {q}
    BY <1>3, OwingAfter DEF DropConn, Return, Owing
  <2>2. Cardinality(Owing') = Cardinality(Owing) - 1
    BY <1>0, <2>1, OwingCount
  <2> QED
    BY <1>0, <1>3, <2>2 DEF DropConn
<1>4. ASSUME NEW q \in Queries, DialOk(q) PROVE Earned'
  <2>1. Owing' = Owing \ {q}
    BY <1>4, OwingAfter DEF DialOk
  <2>2. CASE pc[q] = "dial"
    <3>1. conn = 0 /\ Owing' = Owing
      BY <2>1, <2>2 DEF DialsEmpty, Owing
    <3> QED
      BY <1>0, <1>4, <3>1 DEF DialOk
  <2>3. CASE pc[q] = "redial"
    <3>1. Cardinality(Owing') = Cardinality(Owing) - 1
      BY <1>0, <2>1, <2>3, OwingCount, ZenonT(30) DEF Owing
    <3> QED
      BY <1>0, <1>4, <3>1 DEF DialOk
  <2> QED
    BY <1>4, <2>2, <2>3 DEF DialOk
<1>5. ASSUME NEW q \in Queries, DialErr(q) \/ StreamOk(q) \/ RetryFails(q) \/ Cancel(q)
      PROVE  Earned'
  <2>1. UNCHANGED <<made, conn, failed>>
    BY <1>5 DEF DialErr, StreamOk, RetryFails, Cancel
  <2>2. Owing' = Owing \ {q}
    BY <1>5, OwingAfter DEF DialErr, StreamOk, RetryFails, Cancel, Return
  <2>3. Cardinality(Owing') \in Nat /\ Cardinality(Owing') <= Cardinality(Owing)
    <3>1. CASE q \in Owing
      <4>1. IsFiniteSet(Owing') /\ Cardinality(Owing') = Cardinality(Owing) - 1
        BY <1>0, <2>2, <3>1, FS_RemoveElement
      <4>2. Cardinality(Owing') \in Nat
        BY <4>1, FS_CardinalityType
      <4> QED
        BY <1>0, <4>1, <4>2
    <3>2. CASE q \notin Owing
      <4>1. Owing' = Owing
        BY <2>2, <3>2
      <4> QED
        BY <1>0, <4>1
    <3> QED
      BY <3>1, <3>2
  <2> QED
    BY <1>0, <2>1, <2>3
<1>6. ASSUME NEW q \in Queries, NEW r \in BOOLEAN, FirstFails(q, r) PROVE Earned'
  <2>1. q \notin Owing /\ Owing' = Owing \cup {q}
    BY <1>6, OwingAfter DEF FirstFails, Owing
  <2>2. Cardinality(Owing') = Cardinality(Owing) + 1
    BY <1>0, <2>1, OwingCount
  <2> QED
    BY <1>0, <1>6, <2>2 DEF FirstFails
<1> QED
  BY <1>1, <1>2, <1>3, <1>4, <1>5, <1>6 DEF Next, Lock, Timed

LEMMA InitIInv == Init => IInv
<1> SUFFICES ASSUME Init PROVE IInv
  OBVIOUS
<1>1. TypeOK /\ MutexHeld /\ DialsEmpty /\ HasOne
  BY DEF Init, TypeOK, Labels, MutexHeld, DialsEmpty, HasOne
<1>2. Owing = {}
  BY DEF Init, Owing
<1>3. Earned
  BY <1>2, FS_EmptySet DEF Init, Earned, Kept
<1> QED
  BY <1>1, <1>3 DEF IInv

LEMMA NextIInv == IInv /\ [Next]_vars => IInv'
BY TypePreserved, MutexPreserved, EarnedPreserved DEF IInv

\* The fields of DoqUpstream and the locals of exchange keep their types.
THEOREM Typed == Spec => []TypeOK
<1>1. IInv => TypeOK
  BY DEF IInv
<1> QED
  BY InitIInv, NextIInv, <1>1, PTL DEF Spec

\* For any number of queries get_conn and reset_conn make no more connections
\* than the first one and one per attempt that failed.
THEOREM Dials == Spec => []DialsAreEarned
<1>1. IInv => DialsAreEarned
  <2> SUFFICES ASSUME IInv PROVE DialsAreEarned
    OBVIOUS
  <2>1. Cardinality(Owing) \in Nat
    BY OwingFinite, FS_CardinalityType
  <2>2. made \in Nat /\ failed \in Nat /\ Earned
    BY DEF IInv, TypeOK
  <2> QED
    BY <2>1, <2>2 DEF Earned, Kept, DialsAreEarned
<1> QED
  BY InitIInv, NextIInv, <1>1, PTL DEF Spec

----------------------------------------------------------------------------
(* DoqUpstream implements ConnSlot *)

held == [q \in Queries |-> Held(q)]

\* A step of the upstream is a step of ConnSlot, or leaves what it sees alone.
LEMMA StepSimulates ==
  IInv /\ [Next]_vars => [Slot!Next]_<<conn, held>> /\ [made' > made]_made
<1> SUFFICES ASSUME IInv, [Next]_vars
             PROVE  [Slot!Next]_<<conn, held>> /\ [made' > made]_made
  OBVIOUS
<1> USE DEF IInv
<1> DEFINE Simulates == [Slot!Next]_<<conn, held>> /\ [made' > made]_made
<1>1. CASE UNCHANGED vars
  BY <1>1 DEF vars, local, held, Held
<1>2. ASSUME NEW q \in Queries, Begin(q) \/ BeginDial(q) \/ BeginReset(q) PROVE Simulates
  <2>1. UNCHANGED <<conn, made, used>>
    BY <1>2 DEF Begin, BeginDial, BeginReset, local
  <2>2. held' = held
    BY <1>2, <2>1 DEF Begin, BeginDial, BeginReset, Goto, held, Held, TypeOK
  <2> QED
    BY <2>1, <2>2
<1>3. ASSUME NEW q \in Queries, TakeCached(q) PROVE Simulates
  <2>1. held' = [held EXCEPT ![q] = conn] /\ held[q] = 0
    BY <1>3, ZenonT(30) DEF TakeCached, Goto, held, Held, TypeOK
  <2>2. Slot!Hit(q)
    BY <1>3, <2>1 DEF TakeCached, Slot!Hit, Slot!Hold, held
  <2> QED
    BY <1>3, <2>2 DEF TakeCached, Slot!Next
<1>4. ASSUME NEW q \in Queries, DropConn(q) PROVE Simulates
  <2>1. held' = [held EXCEPT ![q] = 0] /\ held[q] # 0
    BY <1>4, ZenonT(30) DEF DropConn, Return, Goto, held, Held, TypeOK, HasOne
  <2>2. Slot!Drop(q)
    BY <1>4, <2>1 DEF DropConn, Slot!Drop, Slot!Hold, held
  <2> QED
    BY <1>4, <2>2 DEF DropConn, Slot!Next
<1>5. ASSUME NEW q \in Queries, DialOk(q) PROVE Simulates
  <2>1. held' = [held EXCEPT ![q] = made']
    BY <1>5, ZenonT(30) DEF DialOk, Goto, held, Held, TypeOK
  <2>2. made' > made /\ conn' = made'
    BY <1>5 DEF DialOk, TypeOK
  <2>3. Slot!MakeFor(q)
    BY <2>1, <2>2 DEF Slot!MakeFor, Slot!Hold, held
  <2>4. CASE pc[q] = "dial"
    <3>1. conn = 0 /\ held[q] = 0
      BY <2>4 DEF DialsEmpty, held, Held
    <3> QED
      BY <2>2, <2>3, <3>1 DEF Slot!Fill, Slot!Next, held
  <2>5. CASE pc[q] = "redial"
    <3>1. held[q] # 0
      BY <2>5 DEF HasOne, held, Held
    <3> QED
      BY <2>2, <2>3, <3>1 DEF Slot!Replace, Slot!Next, held
  <2> QED
    BY <1>5, <2>4, <2>5 DEF DialOk
<1>6. ASSUME NEW q \in Queries, DialErr(q) \/ StreamOk(q) \/ RetryFails(q) \/ Cancel(q)
      PROVE  Simulates
  <2>1. UNCHANGED <<made, conn>>
    BY <1>6, SMTT(30) DEF DialErr, StreamOk, RetryFails, Cancel
  <2>2. held' = [held EXCEPT ![q] = 0]
    BY <1>6, ZenonT(30) DEF DialErr, StreamOk, RetryFails, Cancel, Return, Goto, held, Held, TypeOK
  <2>3. CASE held[q] = 0
    <3>1. held' = held
      BY <2>2, <2>3, ZenonT(30) DEF held
    <3> QED
      BY <2>1, <3>1
  <2>4. CASE held[q] # 0
    <3>1. Slot!Leave(q)
      BY <2>1, <2>2, <2>4 DEF Slot!Leave, Slot!Hold, held
    <3> QED
      BY <2>1, <3>1 DEF Slot!Next
  <2> QED
    BY <2>3, <2>4
<1>7. ASSUME NEW q \in Queries, NEW r \in BOOLEAN, FirstFails(q, r) PROVE Simulates
  <2>1. UNCHANGED <<made, conn, used>>
    BY <1>7 DEF FirstFails, local
  <2>2. held' = held
    BY <1>7, <2>1 DEF FirstFails, Goto, held, Held, TypeOK
  <2> QED
    BY <2>1, <2>2
<1> QED
  BY <1>1, <1>2, <1>3, <1>4, <1>5, <1>6, <1>7 DEF Next, Lock, Timed

\* Initially no connection is kept and no exchange has one.
LEMMA InitSimulates == Init => Slot!Init
BY DEF Init, Slot!Init, Held

\* For any number of queries the connection DoqUpstream keeps, under its mutex,
\* its dials and its cancelled exchanges, changes as ConnSlot says.
THEOREM Refines == Spec => KeepsOneConnection
<1>1. Spec => []IInv
  BY InitIInv, NextIInv, PTL DEF Spec
<1>2. IInv /\ [Next]_vars => [Slot!Next]_<<conn, [q \in Queries |-> Held(q)]>>
  BY StepSimulates DEF held
<1>3. IInv /\ [Next]_vars => [made' > made]_made
  BY StepSimulates
<1> QED
  BY <1>1, <1>2, <1>3, InitSimulates, PTL DEF Spec, KeepsOneConnection, Slot!Spec
----------------------------------------------------------------------------
(* Induction, and the sublists of a list *)

\* Every set of natural numbers has a least one.
LEMMA LeastNatural ==
  ASSUME NEW S \in SUBSET Nat, S # {}
  PROVE  \E n \in S : \A m \in S : n <= m
<1>1. PICK n \in S : \A m \in S : ~(<<m, n>> \in OpToRel(<, Nat))
  BY NatLessThanWellFounded, WFMin, ZenonT(30)
<1>2. \A m \in S : ~(m < n)
  BY <1>1, ZenonT(30) DEF OpToRel
<1>3. QED
  BY <1>2

\* Induction, for what can be said of the numbers in a set.
LEMMA Induction ==
  ASSUME NEW P \in SUBSET Nat, 0 \in P, \A n \in P : n + 1 \in P
  PROVE  P = Nat
<1> SUFFICES ASSUME P # Nat PROVE FALSE
  OBVIOUS
<1>1. PICK n \in Nat \ P : \A m \in Nat \ P : n <= m
  BY LeastNatural, ZenonT(30)
<1>2. n - 1 \in Nat /\ ~(n <= n - 1) /\ (n - 1) + 1 = n
  BY <1>1
<1>3. n - 1 \in P
  BY <1>1, <1>2
<1>4. QED
  BY <1>1, <1>2, <1>3

\* f[k] picks those of the first k elements of s whose place is in K.
Picks(f, s, K, n) ==
  f = [k \in 0..n |-> IF k = 0 THEN <<>> ELSE IF k \in K THEN Append(f[k - 1], s[k]) ELSE f[k - 1]]

LEMMA PicksExists ==
  ASSUME NEW s, NEW K, NEW n \in Nat
  PROVE  \E f : Picks(f, s, K, n)
<1> DEFINE P == { m \in Nat : \E f : Picks(f, s, K, m) }
           after(x, k) == IF k \in K THEN Append(x, s[k]) ELSE x
<1>1. 0 \in P
  <2> DEFINE f == [k \in 0..0 |-> <<>>]
  <2>1. Picks(f, s, K, 0)
    BY DEF Picks
  <2>2. QED
    BY <2>1
<1>2. ASSUME NEW m \in P PROVE m + 1 \in P
  <2>0. m \in Nat
    OBVIOUS
  <2>1. PICK f : Picks(f, s, K, m)
    OBVIOUS
  <2> DEFINE g == [k \in 0..(m + 1) |-> IF k <= m THEN f[k] ELSE after(f[m], m + 1)]
  <2>2. \A k \in 0..m : f[k] = IF k = 0 THEN <<>> ELSE after(f[k - 1], k)
    BY <2>1, ZenonT(30) DEF Picks
  <2> HIDE DEF after
  <2>3. ASSUME NEW k \in 0..(m + 1)
        PROVE  g[k] = IF k = 0 THEN <<>> ELSE after(g[k - 1], k)
    <3>1. CASE k = m + 1
      <4>1. k - 1 = m /\ k # 0 /\ ~(k <= m) /\ m \in 0..(m + 1) /\ m <= m
        BY <2>0, <3>1
      <4>2. g[k] = after(f[m], m + 1) /\ g[m] = f[m]
        BY <4>1, ZenonT(30)
      <4>3. QED
        BY <3>1, <4>1, <4>2, ZenonT(30)
    <3>2. CASE k # m + 1
      <4>1. k \in 0..m /\ k <= m
        BY <2>0, <3>2
      <4>2. g[k] = f[k]
        BY <4>1
      <4>3. CASE k = 0
        BY <2>2, <4>1, <4>2, <4>3
      <4>4. CASE k # 0
        <5>1. k - 1 \in 0..(m + 1) /\ k - 1 <= m
          BY <2>0, <4>1, <4>4
        <5>2. g[k - 1] = f[k - 1]
          BY <5>1
        <5>3. QED
          BY <2>2, <4>1, <4>2, <4>4, <5>2, ZenonT(30)
      <4>5. QED
        BY <4>3, <4>4
    <3>3. QED
      BY <3>1, <3>2
  <2>4. DOMAIN g = 0..(m + 1) /\ g = [k \in 0..(m + 1) |-> g[k]]
    OBVIOUS
  <2> HIDE DEF g
  <2>5. g = [k \in 0..(m + 1) |-> IF k = 0 THEN <<>> ELSE after(g[k - 1], k)]
    BY <2>3, <2>4, ZenonT(30)
  <2>6. Picks(g, s, K, m + 1)
    BY <2>5, ZenonT(30) DEF Picks, after
  <2>7. QED
    BY <2>6
<1> HIDE DEF P
<1>3. P = Nat
  BY <1>1, <1>2, Induction, ZenonT(30) DEF P
<1>4. QED
  BY <1>3 DEF P

\* Where the picked elements go, and that they keep their order.
LEMMA PickedPlaces ==
  ASSUME NEW T, NEW s \in Seq(T), NEW K, NEW f, Picks(f, s, K, Len(s))
  PROVE  \A n \in 0..Len(s) :
           /\ f[n] \in Seq(T)
           /\ \A i \in 0..n : Len(f[i]) <= Len(f[n])
           /\ \A i \in 0..(n - 1) : n \in K => Len(f[i]) < Len(f[n])
           /\ \A i \in 1..n : i \in K => /\ Len(f[i]) \in 1..Len(f[n])
                                       /\ f[n][Len(f[i])] = s[i]
<1> DEFINE Q(n) == /\ f[n] \in Seq(T)
                   /\ \A i \in 0..n : f[i] \in Seq(T) /\ Len(f[i]) <= Len(f[n])
                   /\ \A i \in 0..(n - 1) : n \in K => Len(f[i]) < Len(f[n])
                   /\ \A i \in 1..n : i \in K => /\ Len(f[i]) \in 1..Len(f[n])
                                               /\ f[n][Len(f[i])] = s[i]
           P == { n \in Nat : n <= Len(s) => Q(n) }
<1>0. Len(s) \in Nat
  OBVIOUS
<1>1. \A k \in 0..Len(s) :
        f[k] = IF k = 0 THEN <<>> ELSE IF k \in K THEN Append(f[k - 1], s[k]) ELSE f[k - 1]
  BY ZenonT(30) DEF Picks
<1>2. 0 \in P
  <2>1. f[0] = <<>>
    BY <1>0, <1>1
  <2>2. 0..0 = {0} /\ 0..(0 - 1) = {} /\ 1..0 = {}
    OBVIOUS
  <2>3. <<>> \in Seq(T) /\ Len(<<>>) <= Len(<<>>)
    BY EmptySeq
  <2>4. Q(0)
    BY <2>1, <2>2, <2>3, ZenonT(30)
  <2>5. QED
    BY <2>4
<1>3. ASSUME NEW m \in P PROVE m + 1 \in P
  <2> SUFFICES ASSUME m + 1 <= Len(s) PROVE Q(m + 1)
    OBVIOUS
  <2>1. m \in Nat /\ m <= Len(s)
    BY <1>0
  <2>2. Q(m)
    BY <2>1
  <2>3. s[m + 1] \in T /\ m + 1 \in 0..Len(s) /\ m + 1 # 0 /\ (m + 1) - 1 = m
    BY <1>0, <2>1
  <2>4. f[m + 1] = IF m + 1 \in K THEN Append(f[m], s[m + 1]) ELSE f[m]
    BY <1>1, <2>3
  <2>5. \A i \in 0..(m + 1) : i \in 0..m \/ i = m + 1
    BY <2>1
  <2>6. \A i \in 1..(m + 1) : i \in 1..m \/ i = m + 1
    BY <2>1
  <2>7. CASE m + 1 \in K
    <3>1. /\ f[m + 1] \in Seq(T) /\ Len(f[m + 1]) = Len(f[m]) + 1
          /\ f[m + 1][Len(f[m]) + 1] = s[m + 1]
          /\ \A k \in 1..Len(f[m]) : f[m + 1][k] = f[m][k]
      BY <2>2, <2>3, <2>4, <2>7, AppendProperties, SMTT(30)
    <3>2. ASSUME NEW i \in 0..m PROVE f[i] \in Seq(T) /\ Len(f[i]) < Len(f[m + 1])
      <4>1. f[i] \in Seq(T) /\ Len(f[i]) <= Len(f[m])
        BY <2>2
      <4>2. Len(f[i]) \in Nat /\ Len(f[m]) \in Nat
        BY <2>2, <4>1
      <4>3. QED
        BY <3>1, <4>1, <4>2, SMTT(30)
    <3>3. ASSUME NEW i \in 1..m, i \in K
          PROVE  Len(f[i]) \in 1..Len(f[m + 1]) /\ f[m + 1][Len(f[i])] = s[i]
      <4>1. Len(f[i]) \in 1..Len(f[m]) /\ f[m][Len(f[i])] = s[i]
        BY <2>2, <3>3, SMTT(30)
      <4>2. Len(f[m]) \in Nat
        BY <2>2
      <4>3. QED
        BY <3>1, <4>1, <4>2, SMTT(30)
    <3>4. Len(f[m + 1]) \in 1..Len(f[m + 1]) /\ f[m + 1][Len(f[m + 1])] = s[m + 1]
      BY <2>2, <3>1
    <3>5. QED
      BY <2>3, <2>5, <2>6, <3>1, <3>2, <3>3, <3>4, SMTT(30)
  <2>8. CASE m + 1 \notin K
    <3>1. f[m + 1] = f[m]
      BY <2>4, <2>8, ZenonT(30)
    <3>2. QED
      BY <2>1, <2>2, <2>3, <2>5, <2>6, <2>8, <3>1, SMTT(30)
  <2>9. QED
    BY <2>7, <2>8, ZenonT(30)
<1> HIDE DEF P
<1>4. P = Nat
  BY <1>2, <1>3, Induction, ZenonT(30) DEF P
<1>5. QED
  BY <1>0, <1>4 DEF P

\* Two complementary sublists have all the elements between them.
LEMMA PickedLengths ==
  ASSUME NEW s \in Seq(Addrs), NEW K, NEW f, Picks(f, s, K, Len(s)),
         NEW g, Picks(g, s, 1..Len(s) \ K, Len(s))
  PROVE  Len(f[Len(s)]) + Len(g[Len(s)]) = Len(s)
<1> DEFINE L == 1..Len(s) \ K
           Q(n) == Len(f[n]) + Len(g[n]) = n
           P == { n \in Nat : n <= Len(s) => Q(n) }
<1>0. Len(s) \in Nat
  OBVIOUS
<1>1. /\ \A k \in 0..Len(s) :
           f[k] = IF k = 0 THEN <<>> ELSE IF k \in K THEN Append(f[k - 1], s[k]) ELSE f[k - 1]
      /\ \A k \in 0..Len(s) :
           g[k] = IF k = 0 THEN <<>> ELSE IF k \in L THEN Append(g[k - 1], s[k]) ELSE g[k - 1]
  BY ZenonT(30) DEF Picks
<1>2. \A n \in 0..Len(s) : f[n] \in Seq(Addrs) /\ g[n] \in Seq(Addrs)
  BY PickedPlaces
<1>3. 0 \in P
  <2>1. f[0] = <<>> /\ g[0] = <<>>
    BY <1>0, <1>1
  <2>2. Q(0)
    BY <2>1
  <2> HIDE DEF Q
  <2>3. QED
    BY <2>2
<1>4. ASSUME NEW m \in P PROVE m + 1 \in P
  <2> HIDE DEF Q
  <2> SUFFICES ASSUME m + 1 <= Len(s) PROVE Q(m + 1)
    OBVIOUS
  <2>0. m \in Nat
    OBVIOUS
  <2>1. m \in 0..Len(s) /\ m + 1 \in 0..Len(s) /\ m + 1 \in 1..Len(s) /\ (m + 1) - 1 = m
    BY <1>0, <2>0
  <2>2. f[m] \in Seq(Addrs) /\ g[m] \in Seq(Addrs) /\ s[m + 1] \in Addrs /\ Q(m)
    BY <1>2, <2>1
  <2> HIDE DEF P
  <2>3. /\ f[m + 1] = IF m + 1 \in K THEN Append(f[m], s[m + 1]) ELSE f[m]
        /\ g[m + 1] = IF m + 1 \in L THEN Append(g[m], s[m + 1]) ELSE g[m]
    BY <1>1, <2>1
  <2>4. Len(Append(f[m], s[m + 1])) = Len(f[m]) + 1 /\ Len(Append(g[m], s[m + 1])) = Len(g[m]) + 1
    BY <2>2, AppendProperties
  <2>5. Len(f[m]) \in Nat /\ Len(g[m]) \in Nat
    BY <2>2
  <2> DEFINE x == Len(f[m])
             y == Len(g[m])
  <2>6. x \in Nat /\ y \in Nat /\ x + y = m
    BY <2>2, <2>5, ZenonT(30) DEF Q
  <2> HIDE DEF x, y
  <2>7. CASE m + 1 \in K
    <3>1. f[m + 1] = Append(f[m], s[m + 1]) /\ g[m + 1] = g[m]
      BY <2>1, <2>3, <2>7
    <3>2. Len(f[m + 1]) = Len(f[m]) + 1 /\ Len(g[m + 1]) = Len(g[m])
      BY <2>4, <3>1, ZenonT(30)
    <3>3. (x + 1) + y = m + 1
      BY <2>0, <2>6
    <3>4. QED
      BY <3>2, <3>3, ZenonT(30) DEF Q, x, y
  <2>8. CASE m + 1 \notin K
    <3>1. f[m + 1] = f[m] /\ g[m + 1] = Append(g[m], s[m + 1])
      BY <2>1, <2>3, <2>8
    <3>2. Len(f[m + 1]) = Len(f[m]) /\ Len(g[m + 1]) = Len(g[m]) + 1
      BY <2>4, <3>1, ZenonT(30)
    <3>3. x + (y + 1) = m + 1
      BY <2>0, <2>6
    <3>4. QED
      BY <3>2, <3>3, ZenonT(30) DEF Q, x, y
  <2>9. QED
    BY <2>7, <2>8
<1> HIDE DEF P, Q
<1>5. P = Nat
  BY <1>3, <1>4, Induction, ZenonT(30) DEF P
<1>6. Q(Len(s))
  BY <1>0, <1>5 DEF P
<1>7. QED
  BY <1>6, ZenonT(30) DEF Q

----------------------------------------------------------------------------
(* sort_by_key *)

Family(ips, v6) == { n \in 1..Len(ips) : IsV6(ips[n]) = v6 }

LEMMA OfFamilyPicks ==
  ASSUME NEW ips, Len(ips) \in Nat, NEW v6
  PROVE  \E f : Picks(f, ips, Family(ips, v6), Len(ips)) /\ OfFamily(ips, v6) = f[Len(ips)]
<1> DEFINE K == Family(ips, v6)
           n == Len(ips)
           R(f) == f = [k \in 0..n |-> IF k = 0 THEN <<>> ELSE
                          IF IsV6(ips[k]) = v6 THEN Append(f[k - 1], ips[k]) ELSE f[k - 1]]
<1>1. \A k \in 0..n : k # 0 => (k \in K <=> IsV6(ips[k]) = v6)
  <2>1. \A k \in 0..n : k # 0 => k \in 1..n
    OBVIOUS
  <2>2. QED
    BY <2>1, ZenonT(30) DEF Family
<1>2. ASSUME NEW f PROVE Picks(f, ips, K, n) <=> R(f)
  <2>1. [k \in 0..n |-> IF k = 0 THEN <<>> ELSE IF k \in K THEN Append(f[k - 1], ips[k]) ELSE f[k - 1]]
          = [k \in 0..n |-> IF k = 0 THEN <<>> ELSE
               IF IsV6(ips[k]) = v6 THEN Append(f[k - 1], ips[k]) ELSE f[k - 1]]
    <3> HIDE DEF K, n
    <3>1. QED
      BY <1>1, ZenonT(30)
  <2>2. QED
    BY <2>1, ZenonT(30) DEF Picks
<1>3. \E f : R(f)
  BY <1>2, PicksExists, ZenonT(30)
<1> DEFINE g == CHOOSE f : R(f)
<1>4. R(g)
  BY <1>3, ZenonT(30)
<1>5. OfFamily(ips, v6) = g[n]
  BY ZenonT(30) DEF OfFamily
<1> HIDE DEF g, R
<1>6. Picks(g, ips, K, n)
  BY <1>2, <1>4
<1>7. QED
  BY <1>5, <1>6

\* place[i] is when the i-th address of the answer is dialed.
InOrder(ips, place) ==
  \A i, j \in DOMAIN ips :
    \/ IsV6(ips[i]) = prefer_ipv6 /\ IsV6(ips[j]) # prefer_ipv6
    \/ IsV6(ips[i]) = IsV6(ips[j]) /\ i < j
    => place[i] < place[j]

\* s has the addresses of ips, the preferred family first.
Sorts(s, ips) ==
  /\ s \in Seq(Addrs) /\ Len(s) = Len(ips)
  /\ \E place \in [DOMAIN ips -> DOMAIN ips] :
       InOrder(ips, place) /\ \A i \in DOMAIN ips : s[place[i]] = ips[i]

\* SortByFamily sorts, and keeps the resolver's order within a family.
LEMMA SortPlaces ==
  ASSUME NEW ips \in Seq(Addrs), prefer_ipv6 \in BOOLEAN
  PROVE  Sorts(SortByFamily(ips), ips)
<1> DEFINE n == Len(ips)
           K == Family(ips, prefer_ipv6)
           L == Family(ips, ~prefer_ipv6)
<1>1. n \in Nat /\ DOMAIN ips = 1..n /\ \A i \in 1..n : ips[i] \in Addrs
  OBVIOUS
<1>2. \A i \in 1..n : IsV6(ips[i]) \in BOOLEAN
  BY <1>1, BootstrapAssumption
<1>3. \A i \in 1..n : (i \in K <=> IsV6(ips[i]) = prefer_ipv6) /\ (i \in K <=> i \notin L)
  BY <1>2, ZenonT(30) DEF Family
<1>4. PICK f : Picks(f, ips, K, n) /\ OfFamily(ips, prefer_ipv6) = f[n]
  BY <1>1, OfFamilyPicks
<1>5. PICK g : Picks(g, ips, L, n) /\ OfFamily(ips, ~prefer_ipv6) = g[n]
  BY <1>1, OfFamilyPicks
<1>6. SortByFamily(ips) = f[n] \o g[n]
  BY <1>4, <1>5, ZenonT(30) DEF SortByFamily
<1> HIDE DEF K, L, n
<1>7. \A i \in 1..n : f[i] \in Seq(Addrs) /\ g[i] \in Seq(Addrs)
  <2>1. \A i \in 1..n : i \in 0..Len(ips)
    BY <1>1 DEF n
  <2>2. QED
    BY <1>4, <1>5, <2>1, PickedPlaces DEF n
<1>8. f[n] \in Seq(Addrs) /\ g[n] \in Seq(Addrs)
  BY <1>1, <1>4, <1>5, PickedPlaces DEF n
<1>9. \A i \in 1..n : i \in K => Len(f[i]) \in 1..Len(f[n]) /\ f[n][Len(f[i])] = ips[i]
  BY <1>1, <1>4, PickedPlaces DEF n
<1>10. \A i \in 1..n : i \in L => Len(g[i]) \in 1..Len(g[n]) /\ g[n][Len(g[i])] = ips[i]
  BY <1>1, <1>5, PickedPlaces, SMTT(30) DEF n
<1>11. \A i, j \in 1..n : i < j => (j \in K => Len(f[i]) < Len(f[j])) /\ (j \in L => Len(g[i]) < Len(g[j]))
  <2> SUFFICES ASSUME NEW i \in 1..n, NEW j \in 1..n, i < j
               PROVE  (j \in K => Len(f[i]) < Len(f[j])) /\ (j \in L => Len(g[i]) < Len(g[j]))
    OBVIOUS
  <2>1. j \in 0..n /\ i \in 0..(j - 1)
    BY <1>1
  <2>2. QED
    BY <1>4, <1>5, <2>1, PickedPlaces, SMTT(30) DEF n
<1>12. Len(f[n]) + Len(g[n]) = n
  <2>1. L = 1..Len(ips) \ K
    BY <1>3 DEF n, L, Family
  <2>2. Picks(f, ips, K, Len(ips)) /\ Picks(g, ips, 1..Len(ips) \ K, Len(ips))
    BY <1>4, <1>5, <2>1, ZenonT(30) DEF n
  <2>3. Len(f[Len(ips)]) + Len(g[Len(ips)]) = Len(ips)
    BY <2>2, PickedLengths, ZenonT(30)
  <2>4. QED
    BY <2>3, ZenonT(30) DEF n
<1> DEFINE s == f[n] \o g[n]
           a == Len(f[n])
           b == Len(g[n])
           place == [i \in 1..n |-> IF i \in K THEN Len(f[i]) ELSE a + Len(g[i])]
<1>13. a \in Nat /\ b \in Nat /\ a + b = n
  <2>1. Len(f[n]) \in Nat /\ Len(g[n]) \in Nat
    BY <1>8
  <2>2. QED
    BY <1>12, <2>1, ZenonT(30)
<1>14. s \in Seq(Addrs) /\ Len(s) = n
  BY <1>8, <1>12, ConcatProperties, ZenonT(30)
<1>15. \A k \in 1..(a + b) : s[k] = IF k <= a THEN f[n][k] ELSE g[n][k - a]
  BY <1>8, ConcatProperties, SMTT(30)
<1>16. ASSUME NEW i \in 1..n
       PROVE  /\ place[i] \in 1..n /\ s[place[i]] = ips[i]
              /\ i \in K => place[i] = Len(f[i]) /\ place[i] <= a
              /\ i \notin K => place[i] = a + Len(g[i]) /\ place[i] > a
  <2>1. CASE i \in K
    <3>1. place[i] = Len(f[i])
      BY <2>1
    <3> HIDE DEF place, s
    <3>2. Len(f[i]) \in 1..a /\ f[n][Len(f[i])] = ips[i]
      BY <1>9, <2>1
    <3> HIDE DEF a, b
    <3>3. Len(f[i]) \in 1..n /\ Len(f[i]) \in 1..(a + b) /\ Len(f[i]) <= a
      BY <1>13, <3>2
    <3>4. s[Len(f[i])] = ips[i]
      BY <1>15, <3>2, <3>3
    <3>5. QED
      BY <2>1, <3>1, <3>3, <3>4
  <2>2. CASE i \notin K
    <3>1. place[i] = a + Len(g[i])
      BY <2>2
    <3> HIDE DEF place, s
    <3>2. i \in L
      BY <1>3, <2>2
    <3>3. Len(g[i]) \in 1..b /\ g[n][Len(g[i])] = ips[i]
      BY <1>10, <3>2
    <3> HIDE DEF a, b
    <3>4. /\ a + Len(g[i]) \in 1..n /\ a + Len(g[i]) \in 1..(a + b) /\ ~(a + Len(g[i]) <= a)
          /\ (a + Len(g[i])) - a = Len(g[i]) /\ a + Len(g[i]) > a
      BY <1>13, <3>3
    <3>5. s[a + Len(g[i])] = ips[i]
      BY <1>15, <3>3, <3>4
    <3>6. QED
      BY <2>2, <3>1, <3>4, <3>5
  <2>3. QED
    BY <2>1, <2>2, ZenonT(30)
<1>17. place \in [DOMAIN ips -> DOMAIN ips]
  <2>1. \A i \in 1..n : place[i] \in 1..n
    BY <1>16, ZenonT(30)
  <2>2. DOMAIN place = 1..n /\ place = [i \in 1..n |-> place[i]]
    OBVIOUS
  <2> HIDE DEF place
  <2>3. QED
    BY <1>1, <2>1, <2>2
<1>18. InOrder(ips, place)
  <2> HIDE DEF place, s, a, b
  <2> SUFFICES ASSUME NEW i \in 1..n, NEW j \in 1..n,
                      \/ i \in K /\ j \notin K
                      \/ (i \in K <=> j \in K) /\ i < j
               PROVE  place[i] < place[j]
    <3>1. \A i, j \in 1..n : /\ IsV6(ips[i]) = prefer_ipv6 <=> i \in K
                             /\ IsV6(ips[j]) # prefer_ipv6 <=> j \notin K
                             /\ IsV6(ips[i]) = IsV6(ips[j]) => (i \in K <=> j \in K)
      BY <1>2, <1>3, ZenonT(30)
    <3>2. QED
      BY <1>1, <3>1, ZenonT(30) DEF InOrder
  <2>1. place[i] \in Nat /\ place[j] \in Nat
    BY <1>13, <1>16, SMTT(30)
  <2>2. CASE i \in K /\ j \notin K
    BY <1>13, <1>16, <2>1, <2>2, SMTT(30)
  <2>3. CASE i \in K /\ j \in K /\ i < j
    BY <1>11, <1>16, <2>3, ZenonT(30)
  <2>4. CASE i \notin K /\ j \notin K /\ i < j
    <3>1. Len(g[i]) < Len(g[j]) /\ Len(g[i]) \in Nat /\ Len(g[j]) \in Nat
      BY <1>3, <1>7, <1>11, <2>4, SMTT(30)
    <3>2. QED
      BY <1>13, <1>16, <2>4, <3>1, SMTT(30)
  <2>5. QED
    BY <2>2, <2>3, <2>4
<1>19. QED
  <2> HIDE DEF place, s
  <2>1. \A i \in DOMAIN ips : s[place[i]] = ips[i]
    BY <1>1, <1>16, ZenonT(30)
  <2>2. Sorts(s, ips)
    BY <1>14, <1>17, <1>18, <2>1, ZenonT(30) DEF Sorts, n
  <2>3. QED
    BY <1>6, <2>2 DEF s

----------------------------------------------------------------------------
(* Resolution *)

Outcome == [state : {"waiting", "ok", "error"}, ips : Seq(Addrs)]

\* While lookups are polled, those no longer polled have found nothing.
RInv ==
  /\ query \in [Resolvers -> [Types -> Outcome]]
  /\ futs \subseteq Resolvers
  /\ why \in {"none", "timeout", "empty"}
  /\ dialer # "failed" => why = "none"
  /\ dialer = "resolving" => \A r \in Resolvers \ futs : Joined(r) /\ Found(r) = <<>>
  /\ why = "empty" => /\ dialer \notin {"new", "resolving"}
                      /\ \A r \in Resolvers : Joined(r) /\ Found(r) = <<>>

\* A step of a client is one of its own or one of the resolution or the dials.
LEMMA ClientSteps ==
  ASSUME [ClientNext]_allVars
  PROVE  \/ \E a \in Addrs : ResolveLiteral(a)
         \/ StartLookup
         \/ \E r \in Resolvers, t \in Types : QueryEnds(r, t)
         \/ \E r \in Resolvers : Poll(r)
         \/ LookupTimeout
         \/ Dial
         \/ left # <<>> /\ (ConnectOk \/ ConnectErr)
         \/ UNCHANGED dialVars
BY ZenonT(30) DEF ClientNext, allVars, Exchange, Resolve, CallHandler, Answered, DialTimeout, Connected,
                  NotConnected, Handshake, Write, ReadLength, ReadBody, TimedOut, To, Finish

LEMMA FoundType ==
  ASSUME query \in [Resolvers -> [Types -> Outcome]], NEW r \in Resolvers
  PROVE  /\ \A t \in Types : query[r][t] \in Outcome /\ query[r][t].ips \in Seq(Addrs)
         /\ Found(r) \in Seq(Addrs)
         /\ Found(r) = <<>> <=> \A t \in Types : query[r][t].ips = <<>>
<1>1. \A t \in Types : query[r][t] \in Outcome
  OBVIOUS
<1>2. \A t \in Types : query[r][t].ips \in Seq(Addrs)
  BY <1>1 DEF Outcome
<1> DEFINE a == query[r]["A"].ips
           b == query[r]["AAAA"].ips
<1>3. a \in Seq(Addrs) /\ b \in Seq(Addrs)
  BY <1>2 DEF Types
<1>4. Found(r) = a \o b
  BY DEF Found
<1>5. Found(r) = <<>> <=> (a = <<>> /\ b = <<>>)
  <2> HIDE DEF a, b
  <2>1. a \o b \in Seq(Addrs) /\ Len(a \o b) = Len(a) + Len(b) /\ Len(a) \in Nat /\ Len(b) \in Nat
    BY <1>3, ConcatProperties
  <2>2. (a \o b = <<>> <=> Len(a \o b) = 0) /\ (a = <<>> <=> Len(a) = 0) /\ (b = <<>> <=> Len(b) = 0)
    BY <1>3, <2>1, EmptySeq
  <2>3. QED
    BY <1>4, <2>1, <2>2
<1>6. Found(r) \in Seq(Addrs)
  <2> HIDE DEF a, b
  <2>1. QED
    BY <1>3, <1>4, ConcatProperties
<1>7. QED
  BY <1>1, <1>2, <1>5, <1>6 DEF Types

\* Only queries that are waiting end.
LEMMA QueryStep ==
  ASSUME RInv, NEW q \in Resolvers, NEW t \in Types, QueryEnds(q, t)
  PROVE  /\ query' \in [Resolvers -> [Types -> Outcome]]
         /\ \A r \in Resolvers : Joined(r) => Joined(r)' /\ Found(r)' = Found(r)
         /\ dialer = "resolving" /\ UNCHANGED <<given, dialer, futs, answer, addrs, left, dials, why>>
<1>1. PICK o \in Outcome : /\ dialer = "resolving" /\ query[q][t] = Waiting
                           /\ query' = [query EXCEPT ![q][t] = o]
                           /\ UNCHANGED <<given, dialer, futs, answer, addrs, left, dials, why>>
  <2>1. CASE QueryErr(q, t)
    <3>1. [state |-> "error", ips |-> <<>>] \in Outcome
      BY EmptySeq DEF Outcome
    <3>2. QED
      BY <2>1, <3>1, ZenonT(30) DEF QueryErr
  <2>2. ASSUME NEW ips \in Answers[t], QueryOk(q, t, ips)
        PROVE  \E o \in Outcome : /\ dialer = "resolving" /\ query[q][t] = Waiting
                                  /\ query' = [query EXCEPT ![q][t] = o]
                                  /\ UNCHANGED <<given, dialer, futs, answer, addrs, left, dials, why>>
    <3>1. [state |-> "ok", ips |-> ips] \in Outcome
      BY BootstrapAssumption, ZenonT(30) DEF Outcome
    <3>2. QED
      BY <2>2, <3>1, ZenonT(30) DEF QueryOk
  <2>3. QED
    BY <2>1, <2>2 DEF QueryEnds
<1>2. query \in [Resolvers -> [Types -> Outcome]]
  BY DEF RInv
<1>3. query' \in [Resolvers -> [Types -> Outcome]]
  BY <1>1, <1>2
<1>4. ASSUME NEW r \in Resolvers, Joined(r) PROVE Joined(r)' /\ Found(r)' = Found(r)
  <2>1. r # q
    <3>1. query[q][t].state = "waiting"
      BY <1>1 DEF Waiting
    <3>2. QED
      BY <1>4, <3>1, ZenonT(30) DEF Joined
  <2>2. query'[r] = query[r]
    BY <1>1, <1>2, <2>1
  <2>3. QED
    BY <1>4, <2>2 DEF Joined, Found
<1>5. QED
  BY <1>1, <1>3, <1>4

LEMMA InitResolution == ClientInit => RInv
<1> SUFFICES ASSUME ClientInit PROVE RInv
  OBVIOUS
<1>1. Waiting \in Outcome
  BY EmptySeq DEF Waiting, Outcome
<1>2. QED
  BY <1>1 DEF ClientInit, DialInit, RInv

LEMMA ResolutionStep == RInv /\ [ClientNext]_allVars => RInv'
<1> SUFFICES ASSUME RInv, [ClientNext]_allVars PROVE RInv'
  OBVIOUS
<1>1. ASSUME NEW a \in Addrs, ResolveLiteral(a) PROVE RInv'
  BY <1>1 DEF ResolveLiteral, RInv, Joined, Found
<1>2. CASE StartLookup
  BY <1>2 DEF StartLookup, RInv, Joined, Found
<1>3. ASSUME NEW r \in Resolvers, NEW t \in Types, QueryEnds(r, t) PROVE RInv'
  <2>1. /\ query' \in [Resolvers -> [Types -> Outcome]]
        /\ \A x \in Resolvers : Joined(x) => Joined(x)' /\ Found(x)' = Found(x)
        /\ dialer = "resolving" /\ UNCHANGED <<dialer, futs, why>>
    BY <1>3, QueryStep
  <2>2. QED
    BY <2>1 DEF RInv
<1>4. ASSUME NEW r \in Resolvers, Poll(r) PROVE RInv'
  <2>1. /\ dialer = "resolving" /\ r \in futs /\ Joined(r) /\ futs' = futs \ {r} /\ query' = query
        /\ IF Found(r) # <<>> THEN dialer' = "ready" /\ why' = why
           ELSE /\ dialer' = IF futs' = {} THEN "failed" ELSE dialer
                /\ why' = IF futs' = {} THEN "empty" ELSE why
    BY <1>4 DEF Poll
  <2>2. \A x \in Resolvers : Joined(x)' = Joined(x) /\ Found(x)' = Found(x)
    BY <2>1 DEF Joined, Found
  <2>3. CASE Found(r) # <<>>
    BY <2>1, <2>2, <2>3 DEF RInv
  <2>4. CASE Found(r) = <<>>
    <3>1. \A x \in Resolvers \ futs' : Joined(x) /\ Found(x) = <<>>
      BY <2>1, <2>4 DEF RInv
    <3>2. (\A x \in Resolvers \ futs : Joined(x) /\ Found(x) = <<>>)'
      BY <2>2, <3>1
    <3>3. futs' = {} => (\A x \in Resolvers : Joined(x) /\ Found(x) = <<>>)'
      BY <2>2, <3>1
    <3>4. QED
      BY <2>1, <2>4, <3>2, <3>3 DEF RInv
  <2>5. QED
    BY <2>3, <2>4
<1>5. CASE LookupTimeout
  BY <1>5 DEF LookupTimeout, RInv, Joined, Found
<1>6. CASE Dial \/ ConnectOk \/ ConnectErr
  <2>1. /\ UNCHANGED <<query, futs, why>> /\ dialer' \notin {"new", "resolving"}
        /\ dialer \notin {"new", "resolving"}
        /\ why = "none"
    BY <1>6 DEF Dial, ConnectOk, ConnectErr, RInv
  <2>2. QED
    BY <2>1 DEF RInv, Joined, Found
<1>7. CASE UNCHANGED dialVars
  BY <1>7 DEF dialVars, RInv, Joined, Found
<1>8. QED
  BY <1>1, <1>2, <1>3, <1>4, <1>5, <1>6, <1>7, ClientSteps

\* ParallelResolver fails only if no resolver found an address, whatever the
\* resolvers answer and in whichever order.
THEOREM OneAnswerIsEnough == ClientSpec => []FailsOnlyWhenAllDo
<1>1. RInv => FailsOnlyWhenAllDo
  <2> SUFFICES ASSUME RInv, why = "empty", NEW r \in Resolvers, NEW t \in Types
               PROVE  query[r][t].state # "waiting" /\ query[r][t].ips = <<>>
    BY DEF FailsOnlyWhenAllDo
  <2>1. Joined(r) /\ Found(r) = <<>>
    BY DEF RInv
  <2>2. QED
    BY <2>1, FoundType, ZenonT(30) DEF RInv, Joined
<1>2. QED
  BY <1>1, InitResolution, ResolutionStep, PTL DEF ClientSpec

----------------------------------------------------------------------------
(* Dials *)

\* A dial works on what is left of the sorted answer.
DInv ==
  /\ prefer_ipv6 \in BOOLEAN
  /\ answer \in Seq(Addrs) /\ left \in Seq(Addrs)
  /\ dialer \in {"new", "resolving"} => dials = 0
  /\ dialer \in {"ready", "dialing", "connected"} => Sorts(addrs, answer)
  /\ dialer \in {"dialing", "connected"} =>
       /\ Len(left) <= Len(addrs)
       /\ \A k \in 1..Len(left) : left[k] = addrs[(Len(addrs) - Len(left)) + k]
  /\ dialer = "ready" /\ dials > 0 => left = <<>>

LEMMA LiteralSorts ==
  ASSUME NEW a \in Addrs
  PROVE  <<a>> \in Seq(Addrs) /\ Sorts(<<a>>, <<a>>)
<1> DEFINE place == [i \in {1} |-> 1]
<1>1. <<a>> \in Seq(Addrs) /\ DOMAIN <<a>> = {1} /\ ~(1 < 1)
  OBVIOUS
<1>2. place \in [DOMAIN <<a>> -> DOMAIN <<a>>] /\ place[1] = 1
  BY <1>1
<1> HIDE DEF place
<1>3. InOrder(<<a>>, place)
  <2>1. \A i, j \in {1} : i = 1 /\ j = 1
    OBVIOUS
  <2>2. QED
    BY <1>1, <2>1, ZenonT(30) DEF InOrder
<1>4. \A i \in DOMAIN <<a>> : <<a>>[place[i]] = <<a>>[i]
  BY <1>1, <1>2
<1>5. QED
  BY <1>1, <1>2, <1>3, <1>4, ZenonT(30) DEF Sorts

LEMMA DialStep == RInv /\ DInv /\ [ClientNext]_allVars => DInv'
<1> SUFFICES ASSUME RInv, DInv, [ClientNext]_allVars PROVE DInv'
  OBVIOUS
<1>1. prefer_ipv6' = prefer_ipv6 /\ prefer_ipv6' \in BOOLEAN
  <2>1. prefer_ipv6' = prefer_ipv6
    BY ClientSteps, ZenonT(30) DEF ResolveLiteral, StartLookup, QueryEnds, QueryErr, QueryOk, Poll,
                                 LookupTimeout, Dial, ConnectOk, ConnectErr, dialVars, given
  <2>2. QED
    BY <2>1, ZenonT(30) DEF DInv
<1>2. ASSUME UNCHANGED <<addrs, answer>> PROVE Sorts(addrs, answer)' <=> Sorts(addrs, answer)
  BY <1>1, <1>2, ZenonT(30) DEF Sorts, InOrder
<1>3. ASSUME NEW a \in Addrs, ResolveLiteral(a) PROVE DInv'
  <2>1. /\ dialer = "new" /\ dialer' = "ready" /\ answer' = <<a>> /\ addrs' = <<a>>
        /\ UNCHANGED <<left, dials>>
    BY <1>3, SMTT(30) DEF ResolveLiteral
  <2>2. <<a>> \in Seq(Addrs) /\ Sorts(<<a>>, <<a>>)
    BY LiteralSorts
  <2>3. Sorts(addrs, answer)'
    BY <1>1, <2>1, <2>2, ZenonT(30) DEF Sorts, InOrder
  <2>4. dials' = 0
    BY <2>1 DEF DInv
  <2>5. QED
    BY <1>1, <2>1, <2>2, <2>3, <2>4 DEF DInv
<1>4. CASE StartLookup \/ LookupTimeout \/ UNCHANGED dialVars
      \/ \E r \in Resolvers, t \in Types : QueryEnds(r, t)
  <2>1. /\ UNCHANGED <<answer, addrs, left, dials>>
        /\ \/ dialer' = dialer
           \/ dialer = "new" /\ dialer' = "resolving"
           \/ dialer' = "failed"
    BY <1>4, ZenonT(30) DEF StartLookup, LookupTimeout, dialVars, QueryEnds, QueryErr, QueryOk
  <2>2. QED
    BY <1>1, <1>2, <2>1 DEF DInv
<1>5. ASSUME NEW r \in Resolvers, Poll(r) PROVE DInv'
  <2>1. /\ dialer = "resolving" /\ UNCHANGED <<left, dials>>
        /\ \/ dialer' = "ready" /\ answer' = Found(r) /\ addrs' = SortByFamily(Found(r))
           \/ dialer' \in {"resolving", "failed"} /\ UNCHANGED <<answer, addrs>>
    BY <1>5, ZenonT(30) DEF Poll
  <2>2. dials' = 0
    BY <2>1 DEF DInv
  <2>3. Found(r) \in Seq(Addrs)
    BY FoundType, ZenonT(30) DEF RInv
  <2>4. Sorts(SortByFamily(Found(r)), Found(r))
    <3>1. prefer_ipv6 \in BOOLEAN
      BY ZenonT(30) DEF DInv
    <3>2. QED
      BY <2>3, <3>1, SortPlaces
  <2>5. dialer' = "ready" => Sorts(addrs, answer)'
    BY <1>1, <2>1, <2>4, ZenonT(30) DEF Sorts, InOrder
  <2>6. QED
    BY <1>1, <2>1, <2>2, <2>3, <2>5 DEF DInv
<1>6. CASE Dial
  <2>1. /\ dialer \in {"ready", "connected"} /\ dialer' = "dialing" /\ left' = addrs
        /\ UNCHANGED <<answer, addrs>>
    BY <1>6 DEF Dial
  <2>2. Sorts(addrs, answer)' /\ addrs \in Seq(Addrs)
    <3>1. Sorts(addrs, answer)
      BY <2>1, SMTT(30) DEF DInv
    <3>2. addrs \in Seq(Addrs)
      BY <3>1, ZenonT(30) DEF Sorts
    <3>3. QED
      BY <1>2, <2>1, <3>1, <3>2
  <2>3. Len(addrs) \in Nat /\ \A k \in 1..Len(addrs) : (Len(addrs) - Len(addrs)) + k = k
    BY <2>2
  <2>4. QED
    BY <1>1, <2>1, <2>2, <2>3, SMTT(30) DEF DInv
<1>7. CASE ConnectOk
  <2>1. dialer = "dialing" /\ dialer' = "connected" /\ UNCHANGED <<answer, addrs, left>>
    BY <1>7 DEF ConnectOk
  <2>2. QED
    BY <1>1, <1>2, <2>1 DEF DInv
<1>8. CASE left # <<>> /\ ConnectErr
  <2>1. /\ dialer = "dialing" /\ left' = Tail(left) /\ UNCHANGED <<answer, addrs>>
        /\ dialer' = IF Tail(left) = <<>> THEN "ready" ELSE "dialing"
    BY <1>8 DEF ConnectErr
  <2>2. /\ left' \in Seq(Addrs) /\ Len(left') = Len(left) - 1 /\ Len(left) \in Nat \ {0}
        /\ \A k \in 1..Len(left') : left'[k] = left[k + 1]
    BY <1>8, <2>1, HeadTailProperties, EmptySeq DEF DInv
  <2>3. Sorts(addrs, answer)' /\ Len(addrs) \in Nat
    <3>1. Sorts(addrs, answer)
      BY <2>1 DEF DInv
    <3>2. addrs \in Seq(Addrs)
      BY <3>1, ZenonT(30) DEF Sorts
    <3>3. QED
      BY <1>2, <2>1, <3>1, <3>2
  <2>4. Len(left') <= Len(addrs)
    BY <2>1, <2>2, <2>3 DEF DInv
  <2>5. ASSUME NEW k \in 1..Len(left') PROVE left'[k] = addrs[(Len(addrs) - Len(left')) + k]
    <3>1. k + 1 \in 1..Len(left) /\ (Len(addrs) - Len(left)) + (k + 1) = (Len(addrs) - Len(left')) + k
      BY <2>2, <2>3
    <3>2. left[k + 1] = addrs[(Len(addrs) - Len(left)) + (k + 1)]
      BY <2>1, <3>1 DEF DInv
    <3>3. QED
      BY <2>2, <3>1, <3>2, ZenonT(30)
  <2>6. QED
    BY <1>1, <2>1, <2>2, <2>3, <2>4, <2>5 DEF DInv
<1>9. QED
  BY <1>3, <1>4, <1>5, <1>6, <1>7, <1>8, ClientSteps

\* The addresses are dialed preferred family first, in the resolver's order,
\* whatever the answer, duplicates included.
THEOREM DialsKeepOrder == ClientSpec => []DialsInOrder
<1>1. ClientInit => DInv
  <2> SUFFICES ASSUME ClientInit PROVE DInv
    OBVIOUS
  <2>1. prefer_ipv6 \in BOOLEAN
    BY ZenonT(30) DEF ClientInit, DialInit
  <2>2. answer = <<>> /\ left = <<>> /\ dialer = "new" /\ dials = 0
    BY DEF ClientInit, DialInit
  <2>3. QED
    BY <2>1, <2>2, EmptySeq, ZenonT(30) DEF DInv
<1>2. DInv => DialsInOrder
  <2> SUFFICES ASSUME DInv, dialer \in {"dialing", "connected"} PROVE DialsInOrder
    BY ZenonT(30) DEF DInv, DialsInOrder
  <2> DEFINE tried == Len(answer) - Len(left)
  <2>1. PICK place \in [DOMAIN answer -> DOMAIN answer] :
          InOrder(answer, place) /\ \A i \in DOMAIN answer : addrs[place[i]] = answer[i]
    BY ZenonT(30) DEF DInv, Sorts
  <2>2. /\ Len(addrs) = Len(answer) /\ Len(answer) \in Nat /\ Len(left) \in Nat
        /\ Len(left) <= Len(addrs) /\ DOMAIN answer = 1..Len(answer)
    BY DEF DInv, Sorts
  <2>3. ASSUME NEW i \in DOMAIN answer, place[i] > tried PROVE left[place[i] - tried] = answer[i]
    <3>1. place[i] \in 1..Len(answer)
      BY <2>1, <2>2
    <3>2. place[i] - tried \in 1..Len(left) /\ (Len(addrs) - Len(left)) + (place[i] - tried) = place[i]
      BY <2>2, <2>3, <3>1
    <3>3. left[place[i] - tried] = addrs[(Len(addrs) - Len(left)) + (place[i] - tried)]
      BY <3>2, ZenonT(30) DEF DInv
    <3>4. QED
      BY <2>1, <3>2, <3>3
  <2>4. dialer # "ready"
    OBVIOUS
  <2> HIDE DEF tried
  <2>5. QED
    BY <2>1, <2>3, <2>4, ZenonT(30) DEF DialsInOrder, InOrder, tried
<1>3. QED
  BY <1>1, <1>2, InitResolution, ResolutionStep, DialStep, PTL DEF ClientSpec

=============================================================================
