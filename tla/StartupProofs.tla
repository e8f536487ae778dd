--------------------------- MODULE StartupProofs ---------------------------
(***************************************************************************)
(* Proofs about the listeners and about the addresses of the upstreams.  For*)
(* every command line and system: a running proxy holds every socket it was *)
(* asked for, no two of them for the same packets, and what an upstream shows*)
(* as its address parses back to it.  For any number of connections and     *)
(* queries and any mixture of failures: the answers on a connection keep the*)
(* order of its queries.                                                    *)
(***************************************************************************)
EXTENDS Startup, Listener, TLAPS, SequenceTheorems, WellFoundedInduction, FiniteSetTheorems

----------------------------------------------------------------------------
(* The sockets *)

Elems(s) == { s[i] : i \in DOMAIN s }

SocketSet(by) == Elems(Sockets(args, by))

\* What the listeners up to the i-th have asked for.
UpTo(i) == UNION { SocketSet(Listeners[k]) : k \in 1..i }

\* A sequence is its head and its tail.
LEMMA HeadTail ==
  ASSUME NEW S, NEW s \in Seq(S), s # <<>>
  PROVE  Tail(s) \in Seq(S) /\ Elems(s) = {Head(s)} \cup Elems(Tail(s))
<1>1. /\ Len(s) \in Nat /\ Len(s) > 0 /\ DOMAIN s = 1..Len(s)
  BY EmptySeq
<1>2. /\ Tail(s) \in Seq(S) /\ Len(Tail(s)) = Len(s) - 1 /\ Head(s) = s[1]
      /\ \A i \in 1..Len(Tail(s)) : Tail(s)[i] = s[i + 1]
  BY <1>1, HeadTailProperties
<1>3. DOMAIN Tail(s) = 1..(Len(s) - 1)
  BY <1>1, <1>2
<1>4. ASSUME NEW x \in Elems(s) PROVE x = Head(s) \/ x \in Elems(Tail(s))
  <2>1. PICK i \in 1..Len(s) : x = s[i]
    BY <1>1, <1>4 DEF Elems
  <2>2. CASE i = 1
    BY <2>1, <2>2, <1>2
  <2>3. CASE i # 1
    <3>1. i - 1 \in 1..(Len(s) - 1) /\ (i - 1) + 1 = i
      BY <1>1, <2>3
    <3>2. Tail(s)[i - 1] = x
      BY <1>2, <2>1, <3>1
    <3>3. QED
      BY <1>3, <3>1, <3>2, ZenonT(30) DEF Elems
  <2>4. QED
    BY <2>2, <2>3
<1>5. Head(s) \in Elems(s)
  BY <1>1, <1>2 DEF Elems
<1>6. ASSUME NEW x \in Elems(Tail(s)) PROVE x \in Elems(s)
  <2>1. PICK i \in 1..(Len(s) - 1) : x = Tail(s)[i]
    BY <1>3, <1>6 DEF Elems
  <2>2. x = s[i + 1] /\ i + 1 \in 1..Len(s)
    BY <1>1, <1>2, <2>1
  <2>3. QED
    BY <1>1, <2>2 DEF Elems
<1>7. QED
  BY <1>2, <1>4, <1>5, <1>6

\* An empty queue holds nothing.
LEMMA NoElems == Elems(<<>>) = {}
BY DEF Elems

\* The sockets of one listener at the given addresses.
BothAt(by, addrs) == { new_socket(by, p, a) : p \in {"udp", "tcp"}, a \in Elems(addrs) }
TcpAt(by, addrs) == { new_socket(by, "tcp", a) : a \in Elems(addrs) }
QuinnAt(by, addrs) == { quinn_socket(by, a) : a \in Elems(addrs) }

\* A function on 1..n is a sequence of its values.
LEMMA IsSeq ==
  ASSUME NEW n \in Nat, NEW s, DOMAIN s = 1..n, s = [i \in 1..n |-> s[i]]
  PROVE  s \in Seq(Elems(s)) /\ Len(s) = n
<1>1. s \in [1..n -> Elems(s)]
  BY DEF Elems
<1>2. s \in Seq(Elems(s))
  BY <1>1, SeqDef
<1>3. QED
  BY <1>1, <1>2, LenProperties

TypedArgs ==
  /\ args.upstreams \in Seq(Seq(Line)) /\ args.upstream_file \in Seq(Seq(Line))
  /\ args.private_upstream \in Seq(Seq(Addresses))
  /\ {args.plain, args.quic, args.tls, args.https, args.dnscrypt} \subseteq Flag

\* The addresses of a flag, and those of the plain listener, are a sequence.
LEMMA ExpandType ==
  ASSUME NEW f \in Flag
  PROVE  expand_listen(f) \in Seq(Addr)
<1>1. CASE f.port # 0
  <2> DEFINE e == [i \in 1..2 |-> [ip |-> Wildcards[i], port |-> f.port]]
  <2>1. DOMAIN Wildcards = 1..2 /\ \A i \in 1..2 : Wildcards[i] \in {"any4", "any6"}
    BY DEF Wildcards
  <2>2. f.port \in Nat
    BY DEF Flag
  <2>3. e \in [1..2 -> Addr]
    BY <2>1, <2>2 DEF Addr
  <2>4. expand_listen(f) = e
    BY <1>1, <2>1 DEF expand_listen
  <2>5. QED
    BY <2>3, <2>4, SeqDef
<1>2. CASE f.port = 0
  BY <1>2 DEF expand_listen, Flag
<1>3. QED
  BY <1>1, <1>2

LEMMA ListenType ==
  ASSUME TypedArgs
  PROVE  listen_addrs(args) \in Seq(Addr)
<1>1. expand_listen(args.plain) \in Seq(Addr)
  BY ExpandType DEF TypedArgs
<1>2. <<>> \in Seq(Addr)
  OBVIOUS
<1>3. << [ip |-> "lo4", port |-> 53] >> \in Seq(Addr)
  BY DEF Addr
<1>4. QED
  BY <1>1, <1>2, <1>3 DEF listen_addrs

\* The plain listener binds both protocols at every address.
LEMMA PlainSet ==
  ASSUME NEW addrs \in Seq(Addr)
  PROVE  /\ PlainSockets(addrs) \in Seq(Elems(PlainSockets(addrs)))
         /\ Elems(PlainSockets(addrs)) = BothAt("plain", addrs)
<1> DEFINE n == Len(addrs)
           s == PlainSockets(addrs)
           protoAt(i) == IF i % 2 = 1 THEN "udp" ELSE "tcp"
<1>1. n \in Nat /\ 2 * n \in Nat /\ DOMAIN addrs = 1..n
  OBVIOUS
<1>2. s = [i \in 1..(2 * n) |-> new_socket("plain", protoAt(i), addrs[(i + 1) \div 2])]
  BY DEF PlainSockets
<1>3. DOMAIN s = 1..(2 * n) /\ s = [i \in 1..(2 * n) |-> s[i]]
  BY <1>2
<1>4. s \in Seq(Elems(s))
  BY <1>1, <1>3, IsSeq
<1>5. ASSUME NEW i \in 1..(2 * n)
      PROVE  protoAt(i) \in {"udp", "tcp"} /\ addrs[(i + 1) \div 2] \in Elems(addrs)
  <2>1. (i + 1) \div 2 \in 1..n
    BY <1>1
  <2>2. QED
    BY <1>1, <2>1 DEF Elems
<1>6. ASSUME NEW a \in Elems(addrs)
      PROVE  new_socket("plain", "udp", a) \in Elems(s) /\ new_socket("plain", "tcp", a) \in Elems(s)
  <2>1. PICK k \in 1..n : a = addrs[k]
    BY <1>1, <1>6 DEF Elems
  <2>2. /\ 2 * k - 1 \in 1..(2 * n) /\ (2 * k - 1) % 2 = 1 /\ ((2 * k - 1) + 1) \div 2 = k
        /\ 2 * k \in 1..(2 * n) /\ (2 * k) % 2 = 0 /\ ((2 * k) + 1) \div 2 = k
    BY <1>1
  <2>3. s[2 * k - 1] = new_socket("plain", "udp", a)
    BY <1>2, <2>1, <2>2
  <2>4. s[2 * k] = new_socket("plain", "tcp", a)
    <3>1. protoAt(2 * k) = "tcp"
      BY <2>2
    <3>2. QED
      BY <1>2, <2>1, <2>2, <3>1
  <2>5. QED
    BY <1>3, <2>2, <2>3, <2>4, ZenonT(30) DEF Elems
<1>7. ASSUME NEW x \in Elems(s)
      PROVE  x \in BothAt("plain", addrs)
  <2>1. PICK i \in 1..(2 * n) : x = s[i]
    BY <1>3, <1>7 DEF Elems
  <2>2. x = new_socket("plain", protoAt(i), addrs[(i + 1) \div 2])
    BY <1>2, <2>1
  <2>3. QED
    BY <1>5, <2>2 DEF BothAt
<1>8. QED
  BY <1>4, <1>6, <1>7 DEF BothAt

\* So does the DNSCrypt listener, one protocol after the other.
LEMMA DnsCryptSet ==
  ASSUME NEW addrs \in Seq(Addr)
  PROVE  /\ DnsCryptSockets(addrs) \in Seq(Elems(DnsCryptSockets(addrs)))
         /\ Elems(DnsCryptSockets(addrs)) = BothAt("dnscrypt", addrs)
<1> DEFINE n == Len(addrs)
           u == [i \in 1..n |-> new_socket("dnscrypt", "udp", addrs[i])]
           t == [i \in 1..n |-> new_socket("dnscrypt", "tcp", addrs[i])]
           s == DnsCryptSockets(addrs)
           T == Elems(u) \cup Elems(t)
<1>1. n \in Nat /\ DOMAIN addrs = 1..n
  OBVIOUS
<1>2. s = u \o t
  BY <1>1 DEF DnsCryptSockets, SocketsAt
<1>3. u \in [1..n -> T] /\ t \in [1..n -> T]
  BY DEF Elems
<1>4. u \in Seq(T) /\ t \in Seq(T)
  BY <1>1, <1>3, SeqDef, SMTT(30)
<1>5. Len(u) = n /\ Len(t) = n
  BY <1>1, <1>3, <1>4, LenProperties
<1> HIDE DEF u, t, T
<1>6. /\ s \in Seq(T) /\ Len(s) = n + n
      /\ \A i \in 1..(n + n) : s[i] = IF i <= n THEN u[i] ELSE t[i - n]
  <2>1. /\ u \o t \in Seq(T) /\ Len(u \o t) = Len(u) + Len(t)
        /\ \A i \in 1..(Len(u) + Len(t)) : (u \o t)[i] = IF i <= Len(u) THEN u[i] ELSE t[i - Len(u)]
    BY <1>4, ConcatProperties
  <2>2. QED
    BY <1>2, <1>5, <2>1
<1>7. DOMAIN s = 1..(n + n) /\ s = [i \in 1..(n + n) |-> s[i]] /\ n + n \in Nat
  <2>1. DOMAIN s = 1..Len(s) /\ s \in [1..Len(s) -> T]
    BY <1>6, LenProperties
  <2>2. QED
    BY <1>1, <1>6, <2>1
<1>8. s \in Seq(Elems(s))
  BY <1>7, IsSeq, SMTT(30)
<1>9. ASSUME NEW a \in Elems(addrs)
      PROVE  /\ new_socket("dnscrypt", "udp", a) \in Elems(s)
             /\ new_socket("dnscrypt", "tcp", a) \in Elems(s)
  <2>1. PICK k \in 1..n : a = addrs[k]
    BY <1>1, <1>9 DEF Elems
  <2>2. k \in 1..(n + n) /\ k <= n /\ n + k \in 1..(n + n) /\ ~(n + k <= n) /\ (n + k) - n = k
    BY <1>1
  <2>3. s[k] = u[k] /\ s[n + k] = t[k]
    BY <1>6, <2>2
  <2>4. u[k] = new_socket("dnscrypt", "udp", a) /\ t[k] = new_socket("dnscrypt", "tcp", a)
    BY <2>1 DEF u, t
  <2>5. QED
    BY <1>7, <2>2, <2>3, <2>4 DEF Elems
<1>10. ASSUME NEW x \in Elems(s)
       PROVE  x \in BothAt("dnscrypt", addrs)
  <2>1. PICK i \in 1..(n + n) : x = s[i]
    BY <1>7, <1>10 DEF Elems
  <2>2. CASE i <= n
    <3>1. i \in 1..n /\ addrs[i] \in Elems(addrs)
      BY <1>1, <2>2 DEF Elems
    <3>2. x = new_socket("dnscrypt", "udp", addrs[i])
      BY <1>6, <2>1, <2>2, <3>1 DEF u
    <3>3. QED
      BY <3>1, <3>2 DEF BothAt
  <2>3. CASE ~(i <= n)
    <3>1. i - n \in 1..n
      BY <1>1, <2>3
    <3>2. addrs[i - n] \in Elems(addrs)
      BY <1>1, <3>1 DEF Elems
    <3>3. x = new_socket("dnscrypt", "tcp", addrs[i - n])
      BY <1>6, <2>1, <2>3, <3>1, ZenonT(30) DEF t
    <3>4. QED
      BY <3>2, <3>3 DEF BothAt
  <2>4. QED
    BY <2>2, <2>3
<1>11. QED
  BY <1>8, <1>9, <1>10 DEF BothAt

\* What each of the other listeners binds.
LEMMA OneSocketEach ==
  ASSUME NEW addrs \in Seq(Addr), NEW by
  PROVE  /\ EndpointsAt(by, addrs) \in Seq(Elems(EndpointsAt(by, addrs)))
         /\ Elems(EndpointsAt(by, addrs)) = QuinnAt(by, addrs)
         /\ SocketsAt(by, "tcp", addrs) \in Seq(Elems(SocketsAt(by, "tcp", addrs)))
         /\ Elems(SocketsAt(by, "tcp", addrs)) = TcpAt(by, addrs)
<1>1. Len(addrs) \in Nat /\ DOMAIN addrs = 1..Len(addrs)
  OBVIOUS
<1>2. EndpointsAt(by, addrs) \in Seq(Elems(EndpointsAt(by, addrs)))
  BY <1>1, IsSeq DEF EndpointsAt
<1>3. SocketsAt(by, "tcp", addrs) \in Seq(Elems(SocketsAt(by, "tcp", addrs)))
  BY <1>1, IsSeq DEF SocketsAt
<1>4. Elems(EndpointsAt(by, addrs)) = QuinnAt(by, addrs)
  BY <1>1 DEF Elems, EndpointsAt, QuinnAt
<1>5. Elems(SocketsAt(by, "tcp", addrs)) = TcpAt(by, addrs)
  BY <1>1 DEF Elems, SocketsAt, TcpAt
<1>6. QED
  BY <1>2, <1>3, <1>4, <1>5

\* The sockets of each listener, as a sequence and as a set.
LEMMA SocketSets ==
  ASSUME TypedArgs
  PROVE  /\ \A i \in 1..6 : Sockets(args, Listeners[i]) \in Seq(SocketSet(Listeners[i]))
         /\ SocketSet("plain") = BothAt("plain", listen_addrs(args))
         /\ SocketSet("quic") = QuinnAt("quic", expand_listen(args.quic))
         /\ SocketSet("tls") = TcpAt("tls", expand_listen(args.tls))
         /\ SocketSet("https") = TcpAt("https", expand_listen(args.https))
         /\ SocketSet("h3") = QuinnAt("h3", expand_listen(args.https))
         /\ SocketSet("dnscrypt") = BothAt("dnscrypt", expand_listen(args.dnscrypt))
<1>1. /\ listen_addrs(args) \in Seq(Addr)
      /\ expand_listen(args.quic) \in Seq(Addr) /\ expand_listen(args.tls) \in Seq(Addr)
      /\ expand_listen(args.https) \in Seq(Addr) /\ expand_listen(args.dnscrypt) \in Seq(Addr)
  BY ListenType, ExpandType, ZenonT(30) DEF TypedArgs
<1>2. Sockets(args, "plain") = PlainSockets(listen_addrs(args))
  BY DEF Sockets
<1>3. Sockets(args, "quic") = EndpointsAt("quic", expand_listen(args.quic))
  BY DEF Sockets
<1>4. Sockets(args, "tls") = SocketsAt("tls", "tcp", expand_listen(args.tls))
  BY DEF Sockets
<1>5. Sockets(args, "https") = SocketsAt("https", "tcp", expand_listen(args.https))
  BY DEF Sockets
<1>6. Sockets(args, "h3") = EndpointsAt("h3", expand_listen(args.https))
  BY DEF Sockets
<1>7. Sockets(args, "dnscrypt") = DnsCryptSockets(expand_listen(args.dnscrypt))
  BY DEF Sockets
<1>8. Sockets(args, "plain") \in Seq(SocketSet("plain"))
  BY <1>1, <1>2, PlainSet DEF SocketSet
<1>9. Sockets(args, "quic") \in Seq(SocketSet("quic"))
  BY <1>1, <1>3, OneSocketEach DEF SocketSet
<1>10. Sockets(args, "tls") \in Seq(SocketSet("tls"))
  BY <1>1, <1>4, OneSocketEach DEF SocketSet
<1>11. Sockets(args, "https") \in Seq(SocketSet("https"))
  BY <1>1, <1>5, OneSocketEach DEF SocketSet
<1>12. Sockets(args, "h3") \in Seq(SocketSet("h3"))
  BY <1>1, <1>6, OneSocketEach DEF SocketSet
<1>13. Sockets(args, "dnscrypt") \in Seq(SocketSet("dnscrypt"))
  BY <1>1, <1>7, DnsCryptSet DEF SocketSet
<1>14. \A i \in 1..6 : Listeners[i] \in {"plain", "quic", "tls", "https", "h3", "dnscrypt"}
  BY DEF Listeners
<1>15. \A i \in 1..6 : Sockets(args, Listeners[i]) \in Seq(SocketSet(Listeners[i]))
  BY <1>8, <1>9, <1>10, <1>11, <1>12, <1>13, <1>14, ZenonT(30)
<1>16. SocketSet("plain") = BothAt("plain", listen_addrs(args))
  BY <1>1, <1>2, PlainSet, SMTT(30) DEF SocketSet
<1>17. SocketSet("dnscrypt") = BothAt("dnscrypt", expand_listen(args.dnscrypt))
  BY <1>1, <1>7, DnsCryptSet DEF SocketSet
<1>18. SocketSet("quic") = QuinnAt("quic", expand_listen(args.quic))
  BY <1>1, <1>3, OneSocketEach DEF SocketSet
<1>19. SocketSet("tls") = TcpAt("tls", expand_listen(args.tls))
  BY <1>1, <1>4, OneSocketEach DEF SocketSet
<1>20. SocketSet("https") = TcpAt("https", expand_listen(args.https))
  BY <1>1, <1>5, OneSocketEach, SMTT(30) DEF SocketSet
<1>21. SocketSet("h3") = QuinnAt("h3", expand_listen(args.https))
  BY <1>1, <1>6, OneSocketEach, SMTT(30) DEF SocketSet
<1>22. QED
  BY <1>15, <1>16, <1>17, <1>18, <1>19, <1>20, <1>21, SMTT(30)

\* The six listeners together, and one more at a time.
LEMMA AllListeners ==
  /\ Requested(args) = UpTo(6)
  /\ UpTo(6) = SocketSet("plain") \cup SocketSet("quic") \cup SocketSet("tls")
                 \cup SocketSet("https") \cup SocketSet("h3") \cup SocketSet("dnscrypt")
  /\ UpTo(1) = SocketSet("plain")
  /\ \A i \in 1..5 : UpTo(i + 1) = UpTo(i) \cup SocketSet(Listeners[i + 1])
<1>1. DOMAIN Listeners = 1..6 /\ Len(Listeners) = 6
  BY DEF Listeners
<1>2. Requested(args) = UpTo(6)
  BY <1>1 DEF Requested, UpTo, SocketSet, Elems
<1>3. /\ Listeners[1] = "plain" /\ Listeners[2] = "quic" /\ Listeners[3] = "tls"
      /\ Listeners[4] = "https" /\ Listeners[5] = "h3" /\ Listeners[6] = "dnscrypt"
  BY DEF Listeners
<1>4. UpTo(1) = SocketSet("plain")
  BY <1>3 DEF UpTo
<1>5. ASSUME NEW i \in 1..5 PROVE UpTo(i + 1) = UpTo(i) \cup SocketSet(Listeners[i + 1])
  <2>1. 1..(i + 1) = 1..i \cup {i + 1}
    OBVIOUS
  <2>2. QED
    BY <2>1 DEF UpTo
<1>6. UpTo(6) = SocketSet("plain") \cup SocketSet("quic") \cup SocketSet("tls")
                  \cup SocketSet("https") \cup SocketSet("h3") \cup SocketSet("dnscrypt")
  <2>1. /\ UpTo(2) = UpTo(1) \cup SocketSet("quic") /\ UpTo(3) = UpTo(2) \cup SocketSet("tls")
        /\ UpTo(4) = UpTo(3) \cup SocketSet("https") /\ UpTo(5) = UpTo(4) \cup SocketSet("h3")
        /\ UpTo(6) = UpTo(5) \cup SocketSet("dnscrypt")
    BY <1>3, <1>5
  <2>2. QED
    BY <1>4, <2>1
<1>7. QED
  BY <1>2, <1>4, <1>5, <1>6

\* A UDP socket that others may share has a TCP socket at its side.
LEMMA Siblings ==
  ASSUME TypedArgs, NEW s \in Requested(args), s.proto = "udp", s.reuse
  PROVE  \E by \in {"plain", "dnscrypt"}, a \in Addr :
           s = new_socket(by, "udp", a) /\ new_socket(by, "tcp", a) \in Requested(args)
<1>1. /\ listen_addrs(args) \in Seq(Addr) /\ expand_listen(args.dnscrypt) \in Seq(Addr)
  BY ListenType, ExpandType, SMTT(30) DEF TypedArgs
<1>2. ASSUME NEW q \in Seq(Addr) PROVE Elems(q) \subseteq Addr
  BY DEF Elems
<1>3. s \notin SocketSet("quic") /\ s \notin SocketSet("h3")
  BY SocketSets, SMTT(30) DEF quinn_socket, QuinnAt
<1>4. s \notin SocketSet("tls") /\ s \notin SocketSet("https")
  BY SocketSets, SMTT(30) DEF new_socket, TcpAt
<1>5. CASE s \in SocketSet("plain")
  <2>0. s \in BothAt("plain", listen_addrs(args))
    BY <1>5, SocketSets, ZenonT(30)
  <2>1. PICK p \in {"udp", "tcp"}, a \in Elems(listen_addrs(args)) : s = new_socket("plain", p, a)
    BY <2>0 DEF BothAt
  <2>2. p = "udp"
    BY <2>1 DEF new_socket
  <2>3. new_socket("plain", "tcp", a) \in Requested(args)
    BY <2>1, SocketSets, AllListeners, SMTT(30) DEF BothAt
  <2>4. QED
    BY <1>1, <1>2, <2>1, <2>2, <2>3
<1>6. CASE s \in SocketSet("dnscrypt")
  <2>0. s \in BothAt("dnscrypt", expand_listen(args.dnscrypt))
    BY <1>6, SocketSets, ZenonT(30)
  <2>1. PICK p \in {"udp", "tcp"}, a \in Elems(expand_listen(args.dnscrypt)) :
          s = new_socket("dnscrypt", p, a)
    BY <2>0 DEF BothAt
  <2>2. p = "udp"
    BY <2>1 DEF new_socket
  <2>3. new_socket("dnscrypt", "tcp", a) \in Requested(args)
    BY <2>1, SocketSets, AllListeners, SMTT(30) DEF BothAt
  <2>4. QED
    BY <1>1, <1>2, <2>1, <2>2, <2>3
<1>7. QED
  BY <1>3, <1>4, <1>5, <1>6, AllListeners

\* Some listener is always asked for.
LEMMA SomeSocket ==
  ASSUME TypedArgs
  PROVE  Requested(args) # {}
<1>1. ASSUME NEW q \in Seq(Addr), q # <<>> PROVE \E a : a \in Elems(q)
  <2>1. 1 \in DOMAIN q
    BY <1>1, EmptySeq
  <2>2. q[1] \in Elems(q)
    BY <2>1 DEF Elems
  <2>3. QED
    BY <2>2
<1>2. /\ listen_addrs(args) \in Seq(Addr)
      /\ expand_listen(args.quic) \in Seq(Addr) /\ expand_listen(args.tls) \in Seq(Addr)
      /\ expand_listen(args.https) \in Seq(Addr) /\ expand_listen(args.dnscrypt) \in Seq(Addr)
  BY ListenType, ExpandType DEF TypedArgs
<1>3. CASE listen_addrs(args) # <<>>
  <2>1. PICK a : a \in Elems(listen_addrs(args))
    BY <1>1, <1>2, <1>3
  <2>2. new_socket("plain", "tcp", a) \in SocketSet("plain")
    BY <2>1, SocketSets DEF BothAt
  <2>3. QED
    BY <2>2, AllListeners
<1>4. CASE listen_addrs(args) = <<>>
  <2>1. secure_listener_enabled(args)
    <3>1. << [ip |-> "lo4", port |-> 53] >> # <<>>
      OBVIOUS
    <3>2. QED
      BY <1>4, <3>1 DEF listen_addrs
  <2>2. CASE expand_listen(args.quic) # <<>>
    <3>1. PICK a : a \in Elems(expand_listen(args.quic))
      BY <1>1, <1>2, <2>2
    <3>2. quinn_socket("quic", a) \in SocketSet("quic")
      BY <3>1, SocketSets DEF QuinnAt
    <3>3. QED
      BY <3>2, AllListeners
  <2>3. CASE expand_listen(args.tls) # <<>>
    <3>1. PICK a : a \in Elems(expand_listen(args.tls))
      BY <1>1, <1>2, <2>3
    <3>2. new_socket("tls", "tcp", a) \in SocketSet("tls")
      BY <3>1, SocketSets DEF TcpAt
    <3>3. QED
      BY <3>2, AllListeners
  <2>4. CASE expand_listen(args.https) # <<>>
    <3>1. PICK a : a \in Elems(expand_listen(args.https))
      BY <1>1, <1>2, <2>4
    <3>2. new_socket("https", "tcp", a) \in SocketSet("https")
      BY <3>1, SocketSets DEF TcpAt
    <3>3. QED
      BY <3>2, AllListeners
  <2>5. CASE expand_listen(args.dnscrypt) # <<>>
    <3>1. PICK a : a \in Elems(expand_listen(args.dnscrypt))
      BY <1>1, <1>2, <2>5
    <3>2. new_socket("dnscrypt", "tcp", a) \in SocketSet("dnscrypt")
      BY <3>1, SocketSets DEF BothAt
    <3>3. QED
      BY <3>2, AllListeners
  <2>6. QED
    BY <2>1, <2>2, <2>3, <2>4, <2>5 DEF secure_listener_enabled
<1>5. QED
  BY <1>3, <1>4

----------------------------------------------------------------------------
(* Binding *)

Early == {"args", "collect", "parse", "cache"}

\* Two sockets that receive the same packets are ones the system lets share.
Compatible(s, t) == ~Overlap(s, t) \/ Shareable(s, t)

\* What main has bound and what it has still to bind is what the listeners up
\* to the current one have asked for.
BInv ==
  /\ TypedArgs
  /\ stage \in Early => queue = <<>> /\ held = {}
  /\ stage \in {"args", "collect"} => phase = "start"
  /\ \A i \in 1..6 : stage = Listeners[i] =>
       queue \in Seq(UpTo(i)) /\ held \cup Elems(queue) = UpTo(i)
  /\ stage = "running" => held = Requested(args)
  /\ stage \in {"running", "exited"} => queue = <<>>
  /\ \A s, t \in held : s # t => Compatible(s, t)

\* Whether two sockets collide does not depend on their order.
LEMMA Symmetric ==
  ASSUME NEW s, NEW t, Compatible(s, t)
  PROVE  Compatible(t, s)
BY DEF Compatible, Overlap, Shareable

\* An ended process has no sockets.
LEMMA ExitInvariant ==
  ASSUME BInv, Exit, UNCHANGED given
  PROVE  BInv'
<1>1. stage' = "exited" /\ queue' = <<>> /\ held' = {} /\ args' = args
  BY DEF Exit, given
<1>2. \A i \in 1..6 : stage' # Listeners[i]
  BY <1>1 DEF Listeners
<1>3. TypedArgs'
  BY <1>1 DEF BInv, TypedArgs
<1>4. QED
  BY <1>1, <1>2, <1>3 DEF BInv, Early

\* Nothing about the sockets asked for changes while main runs.
LEMMA GivenStays ==
  ASSUME UNCHANGED given
  PROVE  /\ args' = args
         /\ TypedArgs => TypedArgs'
         /\ \A i : UpTo(i)' = UpTo(i)
         /\ \A s, t : Compatible(s, t)' <=> Compatible(s, t)
<1>1. args' = args /\ platform' = platform
  BY DEF given
<1>2. TypedArgs => TypedArgs'
  BY <1>1 DEF TypedArgs
<1>3. ASSUME NEW i PROVE UpTo(i)' = UpTo(i)
  BY <1>1 DEF UpTo, SocketSet
<1>4. ASSUME NEW s, NEW t PROVE Compatible(s, t)' <=> Compatible(s, t)
  BY <1>1, SMTT(30) DEF Compatible, Overlap, Shareable, Takes
<1>5. QED
  BY <1>1, <1>2, <1>3, <1>4

\* Main goes on, without a socket being bound.
LEMMA KeepsInvariant ==
  ASSUME BInv, UNCHANGED given, UNCHANGED main, phase' = phase \/ stage = "parse"
  PROVE  BInv'
<1>1. stage' = stage /\ queue' = queue /\ held' = held
  BY DEF main
<1>2. \A s, t \in held : s # t => Compatible(s, t)'
  BY GivenStays DEF BInv
<1>3. QED
  BY <1>1, <1>2, GivenStays, AllListeners, SMTT(30) DEF BInv

\* The steps before the first listener.
LEMMA EarlyInvariant ==
  ASSUME BInv, UNCHANGED given, stage \in Early, NEW next \in Early, GoTo(next),
         next = "collect" => phase' = "start", next # "args"
  PROVE  BInv'
<1>1. stage' = next /\ queue' = <<>> /\ held' = {}
  BY DEF GoTo, BInv
<1>2. \A i \in 1..6 : stage' # Listeners[i]
  BY <1>1 DEF Listeners, Early
<1>3. QED
  BY <1>1, <1>2, GivenStays DEF BInv, Early

\* The next listener queues its sockets.
LEMMA StartInvariant ==
  ASSUME BInv, UNCHANGED given, NEW i \in 1..6, Start(Listeners[i]), queue = <<>>,
         i = 1 => held = {}, i # 1 => stage = Listeners[i - 1]
  PROVE  BInv'
<1> DEFINE by == Listeners[i]
<1>1. stage' = by /\ queue' = Sockets(args, by) /\ held' = held
  BY ZenonT(30) DEF Start
<1>2. Sockets(args, by) \in Seq(SocketSet(by)) /\ Elems(Sockets(args, by)) = SocketSet(by)
  BY SocketSets, ZenonT(30) DEF BInv, SocketSet
<1>3. held \cup SocketSet(by) = UpTo(i)
  <2>1. CASE i = 1
    BY <2>1, AllListeners DEF Listeners
  <2>2. CASE i # 1
    <3>1. i - 1 \in 1..5 /\ i - 1 \in 1..6 /\ (i - 1) + 1 = i
      BY <2>2
    <3>2. held = UpTo(i - 1)
      BY <2>2, <3>1, NoElems, ZenonT(30) DEF BInv
    <3>3. QED
      BY <3>1, <3>2, AllListeners
  <2>3. QED
    BY <2>1, <2>2
<1>4. queue' \in Seq(UpTo(i)) /\ held' \cup Elems(queue') = UpTo(i)
  BY <1>1, <1>2, <1>3, SMTT(30)
<1>5. ASSUME NEW k \in 1..6, by = Listeners[k] PROVE k = i
  BY <1>5 DEF Listeners
<1>6. by \notin Early /\ by # "running" /\ by # "exited" /\ by # "args" /\ by # "collect"
  BY DEF Listeners, Early
<1>7. \A k \in 1..6 : stage' = Listeners[k] =>
        queue' \in Seq(UpTo(k)') /\ held' \cup Elems(queue') = UpTo(k)'
  BY <1>1, <1>4, <1>5, GivenStays, SMTT(30)
<1>8. \A s, t \in held' : s # t => Compatible(s, t)'
  BY <1>1, GivenStays, ZenonT(30) DEF BInv
<1>9. TypedArgs'
  BY GivenStays DEF BInv
<1> HIDE DEF by
<1>10. QED
  BY <1>1, <1>6, <1>7, <1>8, <1>9, SMTT(30) DEF BInv

\* A socket is bound only if it gets in no other's way.
LEMMA BindInvariant ==
  ASSUME BInv, Bind
  PROVE  BInv'
<1>0. queue # <<>> /\ UNCHANGED given
  BY DEF Bind
<1>1. CASE Blocked(Head(queue))
  BY <1>0, <1>1, ExitInvariant DEF Bind
<1>2. CASE ~Blocked(Head(queue))
  <2>1. /\ held' = held \cup {Head(queue)} /\ queue' = Tail(queue) /\ stage' = stage
        /\ phase' = phase
    BY <1>2, ZenonT(30) DEF Bind, config
  <2>2. stage \notin Early /\ stage # "running" /\ stage # "exited"
    BY <1>0 DEF BInv
  <2>3. ASSUME NEW i \in 1..6, stage' = Listeners[i]
        PROVE  queue' \in Seq(UpTo(i)') /\ held' \cup Elems(queue') = UpTo(i)'
    <3>1. queue \in Seq(UpTo(i)) /\ held \cup Elems(queue) = UpTo(i)
      BY <2>1, <2>3, ZenonT(30) DEF BInv
    <3>2. Tail(queue) \in Seq(UpTo(i)) /\ Elems(queue) = {Head(queue)} \cup Elems(Tail(queue))
      BY <1>0, <3>1, HeadTail
    <3>3. QED
      BY <1>0, <2>1, <3>1, <3>2, GivenStays
  <2>4. ASSUME NEW s \in held', NEW t \in held', s # t PROVE Compatible(s, t)'
    <3>1. \A r \in held : Compatible(Head(queue), r)
      BY <1>2 DEF Blocked, Compatible
    <3>2. \A r \in held : Compatible(r, Head(queue))
      BY <3>1, Symmetric
    <3>3. Compatible(s, t)
      BY <2>1, <2>4, <3>1, <3>2 DEF BInv
    <3>4. QED
      BY <1>0, <3>3, GivenStays
  <2>5. TypedArgs'
    BY <1>0, GivenStays DEF BInv
  <2>6. QED
    BY <2>1, <2>2, <2>3, <2>4, <2>5, SMTT(30) DEF BInv, Early
<1>3. QED
  BY <1>1, <1>2

\* Every step of main keeps the account of the sockets.
LEMMA MainInvariant ==
  ASSUME BInv, Main
  PROVE  BInv'
<1>1. CASE GenerateConfig
  BY <1>1, ExitInvariant, SMTT(30) DEF GenerateConfig
<1>2. CASE Bootstraps
  BY <1>2, ExitInvariant, EarlyInvariant, ZenonT(30) DEF Bootstraps, BInv, Early, config
<1>3. CASE CollectFails
  BY <1>3, ExitInvariant DEF CollectFails
<1>4. CASE CollectLines
  BY <1>4, EarlyInvariant DEF CollectLines, Early
<1>5. CASE Rejected
  BY <1>5, ExitInvariant DEF Rejected
<1>6. CASE Credentials
  BY <1>6, ExitInvariant, EarlyInvariant DEF Credentials, Early
<1>7. CASE CacheOptions
  <2>1. stage = "cache" /\ UNCHANGED given /\ queue = <<>> /\ held = {}
    BY <1>7, ZenonT(30) DEF CacheOptions, BInv, Early
  <2>2. CASE Start("plain")
    <3>1. Start(Listeners[1]) /\ 1 \in 1..6
      BY <2>2 DEF Listeners
    <3>2. QED
      BY <2>1, <3>1, StartInvariant
  <2>3. QED
    BY <1>7, <2>1, <2>2, ExitInvariant, SMTT(30) DEF CacheOptions
<1>8. CASE Bind
  BY <1>8, BindInvariant
<1>9. CASE NextListener
  <2>1. queue = <<>> /\ UNCHANGED given /\ Len(Listeners) = 6
    BY <1>9 DEF NextListener, Listeners
  <2>2. PICK i \in 1..5 : stage = Listeners[i] /\ (Start(Listeners[i + 1]) \/ Exit)
    BY <1>9, <2>1 DEF NextListener
  <2>3. CASE Exit
    BY <2>1, <2>3, ExitInvariant
  <2>4. CASE Start(Listeners[i + 1])
    <3>1. i + 1 \in 1..6 /\ i + 1 # 1 /\ (i + 1) - 1 = i
      OBVIOUS
    <3>2. QED
      BY <2>1, <2>2, <2>4, <3>1, StartInvariant
  <2>5. QED
    BY <2>2, <2>3, <2>4
<1>10. CASE Run
  <2>1. /\ stage = Listeners[6] /\ queue = <<>> /\ stage' = "running" /\ queue' = queue
        /\ held' = held /\ UNCHANGED given
    BY <1>10 DEF Run, GoTo, Listeners
  <2>2. held = UpTo(6)
    <3>1. 6 \in 1..6
      OBVIOUS
    <3>2. held \cup Elems(queue) = UpTo(6)
      BY <2>1, <3>1 DEF BInv
    <3>3. QED
      BY <2>1, <3>2, NoElems, ZenonT(30)
  <2>3. held' = Requested(args')
    BY <2>1, <2>2, AllListeners DEF given
  <2>4. \A i \in 1..6 : stage' # Listeners[i]
    BY <2>1 DEF Listeners
  <2>5. \A s, t \in held' : s # t => Compatible(s, t)'
    BY <2>1, GivenStays DEF BInv
  <2>6. QED
    BY <2>1, <2>3, <2>4, <2>5, GivenStays DEF BInv, Early
<1>11. QED
  BY <1>1, <1>2, <1>3, <1>4, <1>5, <1>6, <1>7, <1>8, <1>9, <1>10 DEF Main

\* The arguments are well typed, and nothing is bound at first.
LEMMA InitBinding == StartupInit => BInv
<1> SUFFICES ASSUME StartupInit PROVE BInv
  OBVIOUS
<1>1. TypedArgs
  BY StartupAssumption DEF StartupInit, TypedArgs
<1>2. stage = "args" /\ queue = <<>> /\ held = {} /\ phase = "start"
  BY DEF StartupInit
<1>3. \A i \in 1..6 : stage # Listeners[i]
  BY <1>2 DEF Listeners
<1>4. QED
  BY <1>1, <1>2, <1>3 DEF BInv

\* The account of the sockets is kept by every step.
LEMMA BindingStep == BInv /\ [StartupNext]_allVars => BInv'
<1> SUFFICES ASSUME BInv, [StartupNext]_allVars PROVE BInv'
  OBVIOUS
<1>1. CASE Main
  BY <1>1, MainInvariant
<1>2. CASE ParseStep
  BY <1>2, KeepsInvariant DEF ParseStep
<1>3. CASE LookupStep
  <2>1. UNCHANGED given /\ UNCHANGED main /\ Lookup
    BY <1>3 DEF LookupStep
  <2>2. phase' = phase
    BY <2>1 DEF Lookup, LookupBegin, LookupHit, LookupStrip, LookupFail
  <2>3. QED
    BY <2>1, <2>2, KeepsInvariant
<1>4. CASE UNCHANGED allVars
  BY <1>4, KeepsInvariant DEF allVars, config
<1>5. QED
  BY <1>1, <1>2, <1>3, <1>4 DEF StartupNext

\* serve_all either binds every socket that was asked for or ends the process.
THEOREM BindsAll == StartupSpec => []AllOrNothing
<1>1. BInv => AllOrNothing
  BY SomeSocket DEF BInv, AllOrNothing
<1>2. QED
  BY <1>1, InitBinding, BindingStep, PTL DEF StartupSpec

\* No two sockets of a running proxy receive the same packets, although UDP
\* sockets may share an address: the TCP sockets at their sides may not.
THEOREM BindsApart == StartupSpec => []OneListenerPerSocket
<1>1. ASSUME BInv, stage = "running", NEW s \in held, NEW t \in held, s # t, Overlap(s, t)
      PROVE  FALSE
  <2>1. held = Requested(args) /\ TypedArgs
    BY <1>1, ZenonT(30) DEF BInv
  <2>2. s.proto = "udp" /\ t.proto = "udp" /\ s.reuse /\ t.reuse
    BY <1>1 DEF BInv, Compatible, Shareable, Overlap
  <2>3. PICK by1 \in {"plain", "dnscrypt"}, a1 \in Addr :
          s = new_socket(by1, "udp", a1) /\ new_socket(by1, "tcp", a1) \in Requested(args)
    BY <2>1, <2>2, Siblings
  <2>4. PICK by2 \in {"plain", "dnscrypt"}, a2 \in Addr :
          t = new_socket(by2, "udp", a2) /\ new_socket(by2, "tcp", a2) \in Requested(args)
    BY <2>1, <2>2, Siblings
  <2> DEFINE s2 == new_socket(by1, "tcp", a1)
             t2 == new_socket(by2, "tcp", a2)
  <2>5. s2 # t2
    BY <1>1, <2>3, <2>4, ZenonT(30) DEF new_socket
  <2>6. Overlap(s2, t2)
    BY <1>1, <2>3, <2>4, ZenonT(30) DEF Overlap, Takes, new_socket
  <2>7. ~Shareable(s2, t2)
    BY ZenonT(30) DEF Shareable, new_socket
  <2>8. QED
    BY <1>1, <2>1, <2>3, <2>4, <2>5, <2>6, <2>7, ZenonT(30) DEF BInv, Compatible
<1>2. BInv => OneListenerPerSocket
  BY <1>1 DEF OneListenerPerSocket
<1>3. QED
  BY <1>2, InitBinding, BindingStep, PTL DEF StartupSpec

----------------------------------------------------------------------------
(* The two wildcard sockets of a port flag *)

\* A --*-port flag stands for one IPv4 and one IPv6 wildcard.
LEMMA PortAddrs ==
  ASSUME NEW f \in Flag, f.port # 0
  PROVE  /\ expand_listen(f) \in Seq(Addr) /\ Len(expand_listen(f)) = 2
         /\ expand_listen(f)[1] = [ip |-> "any4", port |-> f.port]
         /\ expand_listen(f)[2] = [ip |-> "any6", port |-> f.port]
<1>1. DOMAIN Wildcards = 1..2 /\ Wildcards[1] = "any4" /\ Wildcards[2] = "any6"
  BY DEF Wildcards
<1>2. expand_listen(f) = [i \in 1..2 |-> [ip |-> Wildcards[i], port |-> f.port]]
  BY <1>1 DEF expand_listen
<1>3. expand_listen(f) \in Seq(Addr)
  BY ExpandType
<1>4. DOMAIN expand_listen(f) = 1..2
  BY <1>2
<1>5. Len(expand_listen(f)) = 2
  BY <1>3, <1>4, LenProperties
<1>6. QED
  BY <1>1, <1>2, <1>3, <1>5, SMTT(30)

\* The addresses of the listener by, which are those of its flag.
AddrsOf(by) == IF by = "plain" THEN listen_addrs(args) ELSE expand_listen(FlagOf(by))

LEMMA PortFlag ==
  ASSUME TypedArgs, NEW i \in 1..6, FlagOf(Listeners[i]).port # 0
  PROVE  LET a == AddrsOf(Listeners[i]) IN
         /\ a \in Seq(Addr) /\ Len(a) = 2
         /\ a[1].ip = "any4" /\ a[2].ip = "any6" /\ a[1] # a[2]
<1> DEFINE by == Listeners[i]
           f == FlagOf(by)
<1>1. by \in {"plain", "quic", "tls", "https", "h3", "dnscrypt"}
  BY DEF Listeners
<1>2. f \in Flag
  <2>1. f \in {args.plain, args.quic, args.tls, args.https, args.dnscrypt}
    BY <1>1 DEF FlagOf
  <2>2. QED
    BY <2>1, ZenonT(30) DEF TypedArgs
<1>3. /\ expand_listen(f) \in Seq(Addr) /\ Len(expand_listen(f)) = 2
      /\ expand_listen(f)[1] = [ip |-> "any4", port |-> f.port]
      /\ expand_listen(f)[2] = [ip |-> "any6", port |-> f.port]
  BY <1>2, PortAddrs, SMTT(30)
<1>4. AddrsOf(by) = expand_listen(f)
  <2>1. CASE by = "plain"
    <3>1. f = args.plain
      BY <2>1 DEF FlagOf
    <3>2. expand_listen(f) # <<>>
      BY <1>3, EmptySeq
    <3>3. QED
      BY <2>1, <3>1, <3>2, SMTT(30) DEF AddrsOf, listen_addrs
  <2>2. CASE by # "plain"
    BY <2>2 DEF AddrsOf
  <2>3. QED
    BY <2>1, <2>2
<1> HIDE DEF f, by
<1>5. QED
  BY <1>3, <1>4, SMTT(30) DEF by

\* The addresses decide what a listener binds.
LEMMA SocketsByAddrs ==
  /\ Sockets(args, "plain") = PlainSockets(AddrsOf("plain"))
  /\ Sockets(args, "quic") = EndpointsAt("quic", AddrsOf("quic"))
  /\ Sockets(args, "tls") = SocketsAt("tls", "tcp", AddrsOf("tls"))
  /\ Sockets(args, "https") = SocketsAt("https", "tcp", AddrsOf("https"))
  /\ Sockets(args, "h3") = EndpointsAt("h3", AddrsOf("h3"))
  /\ Sockets(args, "dnscrypt") = DnsCryptSockets(AddrsOf("dnscrypt"))
BY DEF Sockets, AddrsOf, FlagOf

\* At two different addresses no listener asks for a socket twice.
LEMMA PlainApart ==
  ASSUME NEW a \in Seq(Addr), Len(a) = 2, a[1] # a[2]
  PROVE  IsInjective(PlainSockets(a))
<1> DEFINE s == PlainSockets(a)
<1>1. /\ s[1] = new_socket("plain", "udp", a[1]) /\ s[2] = new_socket("plain", "tcp", a[1])
      /\ s[3] = new_socket("plain", "udp", a[2]) /\ s[4] = new_socket("plain", "tcp", a[2])
  BY DEF PlainSockets
<1>2. DOMAIN s = 1..4
  BY DEF PlainSockets
<1> HIDE DEF s
<1>3. /\ s[1] # s[2] /\ s[1] # s[3] /\ s[1] # s[4]
      /\ s[2] # s[3] /\ s[2] # s[4] /\ s[3] # s[4]
  BY <1>1 DEF new_socket
<1>4. \A i \in 1..4 : i \in {1, 2, 3, 4}
  OBVIOUS
<1>5. IsInjective(s)
  BY <1>2, <1>3, <1>4 DEF IsInjective
<1>6. QED
  BY <1>5 DEF s

LEMMA DnsCryptApart ==
  ASSUME NEW a \in Seq(Addr), Len(a) = 2, a[1] # a[2]
  PROVE  IsInjective(DnsCryptSockets(a))
<1> DEFINE u == [i \in 1..2 |-> new_socket("dnscrypt", "udp", a[i])]
           t == [i \in 1..2 |-> new_socket("dnscrypt", "tcp", a[i])]
           T == Elems(u) \cup Elems(t)
           s == DnsCryptSockets(a)
<1>1. DOMAIN a = 1..2
  OBVIOUS
<1>2. s = u \o t
  BY <1>1 DEF DnsCryptSockets, SocketsAt
<1>3. u \in [1..2 -> T] /\ t \in [1..2 -> T]
  BY DEF Elems
<1>4. u \in Seq(T) /\ t \in Seq(T)
  BY <1>3, SeqDef
<1>5. Len(u) = 2 /\ Len(t) = 2
  BY <1>3, <1>4, LenProperties
<1>6. /\ u[1] = new_socket("dnscrypt", "udp", a[1]) /\ u[2] = new_socket("dnscrypt", "udp", a[2])
      /\ t[1] = new_socket("dnscrypt", "tcp", a[1]) /\ t[2] = new_socket("dnscrypt", "tcp", a[2])
  OBVIOUS
<1> HIDE DEF u, t, T, s
<1>7. /\ DOMAIN s = 1..4
      /\ s[1] = u[1] /\ s[2] = u[2] /\ s[3] = t[1] /\ s[4] = t[2]
  <2>1. /\ u \o t \in Seq(T) /\ Len(u \o t) = Len(u) + Len(t)
        /\ \A i \in 1..(Len(u) + Len(t)) : (u \o t)[i] = IF i <= Len(u) THEN u[i] ELSE t[i - Len(u)]
    BY <1>4, ConcatProperties, SMTT(30)
  <2>2. QED
    BY <1>2, <1>5, <2>1
<1>8. /\ s[1] # s[2] /\ s[1] # s[3] /\ s[1] # s[4]
      /\ s[2] # s[3] /\ s[2] # s[4] /\ s[3] # s[4]
  BY <1>6, <1>7, SMTT(30) DEF new_socket
<1>9. \A i \in 1..4 : i \in {1, 2, 3, 4}
  OBVIOUS
<1>10. IsInjective(s)
  BY <1>7, <1>8, <1>9 DEF IsInjective
<1>11. QED
  BY <1>10 DEF s

LEMMA OthersApart ==
  ASSUME NEW a \in Seq(Addr), Len(a) = 2, a[1] # a[2], NEW by
  PROVE  IsInjective(EndpointsAt(by, a)) /\ IsInjective(SocketsAt(by, "tcp", a))
<1>1. DOMAIN a = 1..2 /\ \A i \in 1..2 : i \in {1, 2}
  OBVIOUS
<1>2. \A i, j \in 1..2 : a[i] = a[j] => i = j
  BY <1>1
<1>3. IsInjective(EndpointsAt(by, a))
  BY <1>1, <1>2 DEF IsInjective, EndpointsAt, quinn_socket
<1>4. IsInjective(SocketsAt(by, "tcp", a))
  BY <1>1, <1>2, SMTT(30) DEF IsInjective, SocketsAt, new_socket
<1>5. QED
  BY <1>3, <1>4

LEMMA SocketsApart ==
  ASSUME TypedArgs, NEW i \in 1..6, FlagOf(Listeners[i]).port # 0
  PROVE  IsInjective(Sockets(args, Listeners[i]))
<1> DEFINE by == Listeners[i]
           a == AddrsOf(by)
<1>1. by \in {"plain", "quic", "tls", "https", "h3", "dnscrypt"}
  BY DEF Listeners
<1>2. a \in Seq(Addr) /\ Len(a) = 2 /\ a[1] # a[2]
  BY PortFlag, ZenonT(30)
<1> HIDE DEF by
<1>3. CASE by = "plain"
  BY <1>2, <1>3, PlainApart, SocketsByAddrs, ZenonT(30) DEF by
<1>4. CASE by = "dnscrypt"
  BY <1>2, <1>4, DnsCryptApart, SocketsByAddrs, ZenonT(30) DEF by
<1>5. CASE by \in {"quic", "tls", "https", "h3"}
  BY <1>2, <1>5, OthersApart, SocketsByAddrs, ZenonT(30) DEF by
<1>6. QED
  BY <1>1, <1>3, <1>4, <1>5

\* A listener's sockets carry its name.
LEMMA SocketsSigned ==
  ASSUME TypedArgs, NEW i \in 1..6, NEW s \in SocketSet(Listeners[i])
  PROVE  s.by = Listeners[i]
<1> DEFINE by == Listeners[i]
<1>1. by \in {"plain", "quic", "tls", "https", "h3", "dnscrypt"}
  BY DEF Listeners
<1> HIDE DEF by
<1>2. CASE by \in {"plain", "dnscrypt"}
  <2>1. \E a : s \in BothAt(by, a)
    BY <1>2, SocketSets, ZenonT(30) DEF by
  <2>2. QED
    BY <2>1, SMTT(30) DEF BothAt, new_socket, by
<1>3. CASE by \in {"tls", "https"}
  <2>1. \E a : s \in TcpAt(by, a)
    BY <1>3, SocketSets, ZenonT(30) DEF by
  <2>2. QED
    BY <2>1, SMTT(30) DEF TcpAt, new_socket, by
<1>4. CASE by \in {"quic", "h3"}
  <2>1. \E a : s \in QuinnAt(by, a)
    BY <1>4, SocketSets, ZenonT(30) DEF by
  <2>2. QED
    BY <2>1, SMTT(30) DEF QuinnAt, quinn_socket, by
<1>5. QED
  BY <1>1, <1>2, <1>3, <1>4, ZenonT(30)

\* Two sockets of one port flag get in each other's way only if they are
\* quinn's and the system has dual-stack sockets.
LEMMA OwnWay ==
  ASSUME TypedArgs, NEW i \in 1..6, FlagOf(Listeners[i]).port # 0,
         NEW s \in SocketSet(Listeners[i]), NEW t \in SocketSet(Listeners[i]),
         s # t, Overlap(s, t)
  PROVE  ~s.reuse /\ platform.dual
<1> DEFINE by == Listeners[i]
           a == AddrsOf(by)
<1>1. by \in {"plain", "quic", "tls", "https", "h3", "dnscrypt"}
  BY DEF Listeners
<1>2. /\ a \in Seq(Addr) /\ Len(a) = 2
      /\ a[1].ip = "any4" /\ a[2].ip = "any6" /\ a[1] # a[2]
  BY PortFlag, ZenonT(30)
<1>3. Elems(a) = {a[1], a[2]}
  <2>1. DOMAIN a = {1, 2}
    BY <1>2, SMTT(30)
  <2>2. QED
    BY <2>1, ZenonT(30) DEF Elems
<1> HIDE DEF by, a
<1>4. ASSUME NEW x \in Elems(a), NEW y \in Elems(a), x # y
      PROVE  x.ip # y.ip /\ x.ip \in {"any4", "any6"} /\ y.ip \in {"any4", "any6"}
  BY <1>2, <1>3, <1>4
<1>5. CASE by \in {"plain", "tls", "https", "dnscrypt"}
  <2>1. s \in BothAt(by, a) /\ t \in BothAt(by, a)
    <3>1. CASE by \in {"plain", "dnscrypt"}
      BY <3>1, SocketSets DEF by, a, AddrsOf, FlagOf
    <3>2. CASE by \in {"tls", "https"}
      <4>1. s \in TcpAt(by, a) /\ t \in TcpAt(by, a)
        BY <3>2, SocketSets DEF by, a, AddrsOf, FlagOf
      <4>2. QED
        BY <4>1 DEF TcpAt, BothAt
    <3>3. QED
      BY <1>5, <3>1, <3>2, ZenonT(30)
  <2>2. PICK p \in {"udp", "tcp"}, x \in Elems(a) : s = new_socket(by, p, x)
    BY <2>1 DEF BothAt
  <2>3. PICK q \in {"udp", "tcp"}, y \in Elems(a) : t = new_socket(by, q, y)
    BY <2>1 DEF BothAt
  <2>4. p = q
    BY <2>2, <2>3, ZenonT(30) DEF Overlap, new_socket
  <2>5. x # y
    BY <2>2, <2>3, <2>4, ZenonT(30)
  <2>6. x.ip # y.ip /\ x.ip \in {"any4", "any6"} /\ y.ip \in {"any4", "any6"}
    BY <1>4, <2>5, ZenonT(30)
  <2>7. ~Takes(s, y.ip) /\ ~Takes(t, x.ip)
    BY <2>2, <2>3, <2>6, ZenonT(30) DEF Takes, new_socket, IsV6
  <2>8. QED
    BY <2>2, <2>3, <2>7, SMTT(30) DEF Overlap, new_socket
<1>6. CASE by \in {"quic", "h3"}
  <2>1. s \in QuinnAt(by, a) /\ t \in QuinnAt(by, a)
    BY <1>6, SocketSets, ZenonT(30) DEF by, a, AddrsOf, FlagOf
  <2>2. PICK x \in Elems(a) : s = quinn_socket(by, x)
    BY <2>1 DEF QuinnAt
  <2>3. PICK y \in Elems(a) : t = quinn_socket(by, y)
    BY <2>1 DEF QuinnAt
  <2>4. x.ip # y.ip /\ x.ip \in {"any4", "any6"} /\ y.ip \in {"any4", "any6"}
    BY <1>4, <2>2, <2>3
  <2>5. Takes(s, y.ip) \/ Takes(t, x.ip)
    BY <2>2, <2>3, ZenonT(30) DEF Overlap, quinn_socket
  <2>6. platform.dual
    BY <2>2, <2>3, <2>4, <2>5, ZenonT(30) DEF Takes, quinn_socket, IsV6
  <2>7. ~s.reuse
    BY <2>2, ZenonT(30) DEF quinn_socket
  <2>8. QED
    BY <2>6, <2>7, ZenonT(30)
<1>7. QED
  BY <1>1, <1>5, <1>6

Stages == Early \cup {"running", "exited"} \cup { Listeners[i] : i \in 1..6 }

\* The sockets a port flag has still to bind are different from each other and
\* from the ones that are bound.
FInv ==
  /\ FamiliesCoexist
  /\ stage \in Stages
  /\ \A i \in 1..6 : stage = Listeners[i] =>
       /\ Elems(queue) \subseteq SocketSet(Listeners[i])
       /\ FlagOf(Listeners[i]).port # 0 =>
            IsInjective(queue) /\ Elems(queue) \cap held = {}

\* Unless a socket is refused, what has been said about refusals still holds.
LEMMA NoRefusal ==
  ASSUME FInv, UNCHANGED given, UNCHANGED refused
  PROVE  FamiliesCoexist'
<1>1. FamiliesCoexist
  BY ZenonT(30) DEF FInv
<1>2. args' = args /\ platform' = platform /\ taken' = taken /\ refused' = refused
  BY DEF given
<1>3. QED
  BY <1>1, <1>2, ZenonT(30) DEF FamiliesCoexist, FlagOf, Overlap, Takes

\* Main does not come to another listener.
LEMMA Elsewhere ==
  ASSUME FInv, UNCHANGED given, UNCHANGED refused,
         stage' \in Early \cup {"running", "exited"}
  PROVE  FInv'
<1>1. \A i \in 1..6 : stage' # Listeners[i]
  BY SMTT(30) DEF Listeners, Early
<1>2. stage' \in Stages
  BY DEF Stages
<1>3. QED
  BY <1>1, <1>2, NoRefusal, SMTT(30) DEF FInv

\* Without repeats, the rest of a queue does not hold its head.
LEMMA TailApart ==
  ASSUME NEW S, NEW s \in Seq(S), s # <<>>, IsInjective(s)
  PROVE  IsInjective(Tail(s)) /\ Head(s) \notin Elems(Tail(s))
<1>1. /\ Len(s) \in Nat /\ Len(s) > 0 /\ DOMAIN s = 1..Len(s)
  BY EmptySeq, SMTT(30)
<1>2. /\ Tail(s) \in Seq(S) /\ Len(Tail(s)) = Len(s) - 1 /\ Head(s) = s[1]
      /\ \A i \in 1..Len(Tail(s)) : Tail(s)[i] = s[i + 1]
  BY <1>1, HeadTailProperties
<1>3. DOMAIN Tail(s) = 1..(Len(s) - 1) /\ \A i \in 1..(Len(s) - 1) : Tail(s)[i] = s[i + 1]
  BY <1>1, <1>2
<1>4. \A i \in 1..(Len(s) - 1) : i + 1 \in 1..Len(s)
  BY <1>1
<1>5. IsInjective(Tail(s))
  BY <1>1, <1>3, <1>4 DEF IsInjective
<1>6. \A i \in 1..(Len(s) - 1) : s[i + 1] # s[1]
  BY <1>1, <1>4 DEF IsInjective
<1>7. QED
  BY <1>2, <1>3, <1>5, <1>6, ZenonT(30) DEF Elems

\* Only a listener has sockets to bind.
LEMMA StageKnown ==
  ASSUME BInv, FInv, queue # <<>>
  PROVE  \E i \in 1..6 : stage = Listeners[i]
BY ZenonT(30) DEF BInv, FInv, Stages

\* The next listener's sockets are different from each other if it has a port
\* flag, and from those of the others.
LEMMA StartsApart ==
  ASSUME BInv, FInv, UNCHANGED given, UNCHANGED refused, NEW i \in 1..6, Start(Listeners[i]),
         i = 1 => held = {}, i # 1 => stage = Listeners[i - 1] /\ queue = <<>>
  PROVE  FInv'
<1> DEFINE by == Listeners[i]
<1>1. stage' = by /\ queue' = Sockets(args, by) /\ held' = held /\ args' = args
  BY SMTT(30) DEF Start, given
<1>2. Elems(queue') = SocketSet(by) /\ TypedArgs
  BY <1>1 DEF SocketSet, BInv
<1>3. ASSUME NEW k \in 1..6, by = Listeners[k] PROVE k = i
  BY <1>3 DEF Listeners
<1>4. FlagOf(by).port # 0 => IsInjective(queue')
  BY <1>1, <1>2, SocketsApart
<1>5. Elems(queue') \cap held' = {}
  <2>1. CASE i = 1
    BY <1>1, <2>1
  <2>2. CASE i # 1
    <3>1. i - 1 \in 1..6
      BY <2>2, SMTT(30)
    <3>2. held = UpTo(i - 1)
      BY <2>2, <3>1, NoElems, ZenonT(30) DEF BInv
    <3>3. ASSUME NEW s \in held PROVE s.by # by
      <4>1. PICK k \in 1..(i - 1) : s \in SocketSet(Listeners[k])
        BY <3>2, <3>3, ZenonT(30) DEF UpTo
      <4>2. k \in 1..6 /\ k # i
        BY <2>2, SMTT(30)
      <4>3. s.by = Listeners[k]
        BY <1>2, <4>1, <4>2, SocketsSigned, ZenonT(30)
      <4>4. QED
        BY <1>3, <4>2, <4>3, ZenonT(30)
    <3>4. \A s \in SocketSet(by) : s.by = by
      BY <1>2, SocketsSigned, ZenonT(30)
    <3>5. QED
      BY <1>1, <1>2, <3>3, <3>4, ZenonT(30)
  <2>3. QED
    BY <2>1, <2>2, SMTT(30)
<1>6. /\ SocketSet(by)' = SocketSet(by)
      /\ FlagOf(by)' = FlagOf(by)
  BY <1>1 DEF SocketSet, FlagOf, Listeners
<1>7. FamiliesCoexist'
  BY NoRefusal
<1> HIDE DEF by
<1>8. ASSUME NEW k \in 1..6, stage' = Listeners[k]
      PROVE  /\ Elems(queue') \subseteq SocketSet(Listeners[k])'
             /\ FlagOf(Listeners[k])'.port # 0 =>
                  IsInjective(queue') /\ Elems(queue') \cap held' = {}
  <2>1. Listeners[k] = by
    BY <1>1, <1>8, ZenonT(30)
  <2>2. QED
    BY <1>2, <1>4, <1>5, <1>6, <2>1
<1>9. stage' \in Stages
  BY <1>1, ZenonT(30) DEF by, Stages
<1>10. QED
  BY <1>7, <1>8, <1>9, ZenonT(30) DEF FInv

\* A socket is refused for another's sake, or bound and not queued any more.
LEMMA BindsOrRefuses ==
  ASSUME BInv, FInv, Bind
  PROVE  FInv'
<1> DEFINE s == Head(queue)
<1>0. queue # <<>> /\ UNCHANGED given /\ TypedArgs
  BY ZenonT(30) DEF Bind, BInv
<1>1. CASE Blocked(s)
  <2>1. stage' = "exited" /\ refused' = s
    BY <1>1, SMTT(30) DEF Bind, Exit
  <2>2. \A k \in 1..6 : stage' # Listeners[k]
    BY <2>1 DEF Listeners
  <2>3. stage' \in Stages
    BY <2>1 DEF Stages
  <2> SUFFICES FamiliesCoexist'
    BY <2>2, <2>3, ZenonT(30) DEF FInv
  <2>4. PICK t \in held \cup taken : Overlap(s, t)
    BY <1>1, SMTT(30) DEF Blocked
  <2>5. args' = args /\ platform' = platform /\ taken' = taken
    BY <1>0 DEF given
  <2>6. SUFFICES ASSUME FlagOf(s.by).port # 0, s.reuse
        PROVE  \/ \E r \in taken : Overlap(s, r)
               \/ \E r \in Requested(args) : r.by # s.by /\ Overlap(s, r)
    BY <2>1, <2>5, ZenonT(30) DEF FamiliesCoexist, FlagOf, Overlap, Takes
  <2>7. CASE t \in taken
    BY <2>4, <2>7, ZenonT(30)
  <2>8. CASE t \in held
    <3>1. PICK i \in 1..6 : stage = Listeners[i]
      BY <1>0, StageKnown, ZenonT(30)
    <3>2. /\ queue \in Seq(UpTo(i)) /\ held \cup Elems(queue) = UpTo(i)
          /\ Elems(queue) \subseteq SocketSet(Listeners[i])
      BY <3>1, ZenonT(30) DEF BInv, FInv
    <3>3. s \in Elems(queue)
      BY <1>0, <3>2, HeadTail
    <3>4. s \in SocketSet(Listeners[i]) /\ s.by = Listeners[i]
      BY <1>0, <3>2, <3>3, SocketsSigned, ZenonT(30)
    <3>5. s # t
      BY <2>6, <2>8, <3>1, <3>3, <3>4, ZenonT(30) DEF FInv
    <3>6. PICK k \in 1..i : t \in SocketSet(Listeners[k])
      BY <2>8, <3>2, SMTT(30) DEF UpTo
    <3>7. k \in 1..6 /\ t.by = Listeners[k]
      BY <1>0, <3>6, SocketsSigned, SMTT(30)
    <3>8. CASE k = i
      BY <1>0, <2>4, <2>6, <3>4, <3>5, <3>6, <3>8, OwnWay, ZenonT(30)
    <3>9. CASE k # i
      <4>1. t.by # s.by
        BY <3>4, <3>7, <3>9, SMTT(30) DEF Listeners
      <4>2. t \in Requested(args)
        BY <3>6, <3>7, AllListeners, SMTT(30) DEF UpTo
      <4>3. QED
        BY <2>4, <4>1, <4>2, SMTT(30)
    <3>10. QED
      BY <3>8, <3>9, ZenonT(30)
  <2>9. QED
    BY <2>7, <2>8, ZenonT(30)
<1>2. CASE ~Blocked(s)
  <2>1. /\ held' = held \cup {s} /\ queue' = Tail(queue) /\ stage' = stage
        /\ UNCHANGED refused
    BY <1>2, ZenonT(30) DEF Bind
  <2>2. FamiliesCoexist'
    BY <1>0, <2>1, NoRefusal
  <2>3. ASSUME NEW i \in 1..6, stage' = Listeners[i]
        PROVE  /\ Elems(queue') \subseteq SocketSet(Listeners[i])'
               /\ FlagOf(Listeners[i])'.port # 0 =>
                    IsInjective(queue') /\ Elems(queue') \cap held' = {}
    <3>1. queue \in Seq(UpTo(i)) /\ Elems(queue) \subseteq SocketSet(Listeners[i])
      BY <2>1, <2>3, SMTT(30) DEF BInv, FInv
    <3>2. Tail(queue) \in Seq(UpTo(i)) /\ Elems(queue) = {s} \cup Elems(Tail(queue))
      BY <1>0, <3>1, HeadTail, SMTT(30)
    <3>3. SocketSet(Listeners[i])' = SocketSet(Listeners[i]) /\ FlagOf(Listeners[i])' = FlagOf(Listeners[i])
      BY <1>0 DEF given, SocketSet, FlagOf, Listeners
    <3>4. ASSUME FlagOf(Listeners[i]).port # 0
          PROVE  IsInjective(queue') /\ Elems(queue') \cap held' = {}
      <4>1. IsInjective(queue) /\ Elems(queue) \cap held = {}
        BY <2>1, <2>3, <3>4, ZenonT(30) DEF FInv
      <4>2. IsInjective(Tail(queue)) /\ s \notin Elems(Tail(queue))
        BY <1>0, <3>1, <4>1, TailApart, ZenonT(30)
      <4>3. QED
        BY <2>1, <3>2, <4>1, <4>2, SMTT(30)
    <3>5. QED
      BY <2>1, <3>1, <3>2, <3>3, <3>4, ZenonT(30)
  <2>4. stage' \in Stages
    BY <2>1, ZenonT(30) DEF FInv
  <2>5. QED
    BY <2>2, <2>3, <2>4, ZenonT(30) DEF FInv
<1>3. QED
  BY <1>1, <1>2

\* So does every other step.
LEMMA FamiliesStep == BInv /\ FInv /\ [StartupNext]_allVars => FInv'
<1> SUFFICES ASSUME BInv, FInv, [StartupNext]_allVars PROVE FInv'
  BY ZenonT(30)
<1>1. CASE Bind
  BY <1>1, BindsOrRefuses
<1>2. CASE GenerateConfig \/ Bootstraps \/ CollectFails \/ CollectLines \/ Rejected
             \/ Credentials \/ Run
  <2>1. UNCHANGED given /\ UNCHANGED refused
    BY <1>2, ZenonT(30) DEF GenerateConfig, Bootstraps, CollectFails, CollectLines, Rejected, Credentials, Run
  <2>2. stage' \in Early \cup {"running", "exited"}
    BY <1>2, ZenonT(30) DEF GenerateConfig, Bootstraps, CollectFails, CollectLines, Rejected, Credentials, Run,
                Exit, GoTo, Early
  <2>3. QED
    BY <2>1, <2>2, Elsewhere
<1>3. CASE CacheOptions
  <2>1. UNCHANGED given /\ UNCHANGED refused /\ held = {}
    BY <1>3, ZenonT(30) DEF CacheOptions, BInv, Early
  <2>2. CASE Exit
    BY <2>1, <2>2, Elsewhere DEF Exit
  <2>3. CASE Start("plain")
    <3>1. Start(Listeners[1]) /\ 1 \in 1..6
      BY <2>3 DEF Listeners
    <3>2. QED
      BY <2>1, <3>1, StartsApart
  <2>4. QED
    BY <1>3, <2>2, <2>3 DEF CacheOptions
<1>4. CASE NextListener
  <2>1. UNCHANGED given /\ UNCHANGED refused /\ queue = <<>> /\ Len(Listeners) = 6
    BY <1>4, ZenonT(30) DEF NextListener, Listeners
  <2>2. PICK i \in 1..5 : stage = Listeners[i] /\ (Start(Listeners[i + 1]) \/ Exit)
    BY <1>4, <2>1 DEF NextListener
  <2>3. CASE Exit
    BY <2>1, <2>3, Elsewhere DEF Exit
  <2>4. CASE Start(Listeners[i + 1])
    <3>1. i + 1 \in 1..6 /\ i + 1 # 1 /\ (i + 1) - 1 = i
      BY SMTT(30)
    <3>2. QED
      BY <2>1, <2>2, <2>4, <3>1, StartsApart
  <2>5. QED
    BY <2>2, <2>3, <2>4
<1>5. CASE ParseStep \/ LookupStep \/ UNCHANGED allVars
  <2>1. UNCHANGED given /\ UNCHANGED main
    BY <1>5, ZenonT(30) DEF ParseStep, LookupStep, allVars
  <2>2. UNCHANGED refused /\ stage' = stage /\ queue' = queue /\ held' = held /\ args' = args
    BY <2>1 DEF main, given
  <2>3. FamiliesCoexist'
    BY <2>1, <2>2, NoRefusal
  <2>4. \A i \in 1..6 : /\ SocketSet(Listeners[i])' = SocketSet(Listeners[i])
                        /\ FlagOf(Listeners[i])' = FlagOf(Listeners[i])
    BY <2>2 DEF SocketSet, FlagOf, Listeners
  <2>5. QED
    BY <2>2, <2>3, <2>4, ZenonT(30) DEF FInv
<1>6. QED
  BY <1>1, <1>2, <1>3, <1>4, <1>5 DEF StartupNext, Main

\* No socket of new_socket is refused for the sake of the other family of its
\* own --*-port flag, whichever listeners and ports are combined, whatever
\* other processes hold and whether or not sockets are dual-stack.
THEOREM FamiliesDoNotCollide == StartupSpec => []FamiliesCoexist
<1>1. StartupInit => FInv
  <2> SUFFICES ASSUME StartupInit PROVE FInv
    OBVIOUS
  <2>1. stage = "args" /\ refused = NoSocket
    BY DEF StartupInit
  <2>2. \A i \in 1..6 : stage # Listeners[i]
    BY <2>1 DEF Listeners
  <2>3. QED
    BY <2>1, <2>2, ZenonT(30) DEF FInv, FamiliesCoexist, Stages, Early
<1>2. FInv => FamiliesCoexist
  BY DEF FInv
<1>3. QED
  BY <1>1, <1>2, InitBinding, BindingStep, FamiliesStep, PTL DEF StartupSpec

----------------------------------------------------------------------------
(* What a connection leaves behind *)

\* What the connections carry are queries.
Carried ==
  /\ pending \in [Conns -> Seq(Queries)]
  /\ sent \in [Conns -> Seq(Queries)]
  /\ out \in [Conns -> Seq(Queries)]
  /\ eof \in [Conns -> BOOLEAN]
  /\ status \in [Conns -> {"reading", "handling", "writing", "closed", "failed"}]

\* The query a connection's task is at is the first one not answered.
HandlesFirst ==
  \A c \in Conns : status[c] \in {"handling", "writing"} => pending[c] # <<>>

\* What is not answered still waits, in order.
InOrder == \A c \in Conns : out[c] \o pending[c] = sent[c]

\* After the end of the client's half nothing more is written, and the task
\* ends there only with nothing left to read.
ClosesLast == \A c \in Conns : status[c] = "closed" => eof[c] /\ pending[c] = <<>>

OInv == Carried /\ HandlesFirst /\ InOrder /\ ClosesLast

\* A query written last is answered last.
LEMMA AppendKeepsOrder ==
  ASSUME NEW S, NEW o \in Seq(S), NEW p \in Seq(S), NEW q \in S
  PROVE  o \o Append(p, q) = Append(o \o p, q)
OBVIOUS

\* Answering the first of the waiting queries moves no other.
LEMMA HeadKeepsOrder ==
  ASSUME NEW S, NEW o \in Seq(S), NEW p \in Seq(S), p # <<>>
  PROVE  /\ Head(p) \in S /\ Tail(p) \in Seq(S)
         /\ Append(o, Head(p)) \o Tail(p) = o \o p
OBVIOUS

\* A client's query joins the waiting ones of its connection.
LEMMA SendPreserves ==
  ASSUME OInv, NEW c \in Conns, NEW q \in Queries, SendTcp(c, q)
  PROVE  OInv'
<1> USE DEF OInv, Carried, SendTcp
<1>1. Carried'
  BY SMTT(30)
<1>2. HandlesFirst'
  <2>1. Append(pending[c], q) # <<>>
    BY SMTT(30)
  <2> QED
    BY <2>1, ZenonT(30) DEF HandlesFirst
<1>3. InOrder'
  <2>1. out[c] \o Append(pending[c], q) = Append(out[c] \o pending[c], q)
    BY AppendKeepsOrder, SMTT(30)
  <2> QED
    BY <2>1, ZenonT(30) DEF InOrder
<1>4. ClosesLast'
  BY SMTT(30) DEF ClosesLast
<1> QED
  BY <1>1, <1>2, <1>3, <1>4, ZenonT(30)

\* The task's answer is to the first of them.
LEMMA WritePreserves ==
  ASSUME OInv, NEW c \in Conns, TcpWritten(c)
  PROVE  OInv'
<1> USE DEF OInv, Carried, TcpWritten
<1>1. /\ Head(pending[c]) \in Queries /\ Tail(pending[c]) \in Seq(Queries)
      /\ Append(out[c], Head(pending[c])) \o Tail(pending[c]) = out[c] \o pending[c]
  <2>1. pending[c] # <<>>
    BY ZenonT(30) DEF HandlesFirst
  <2>2. pending[c] \in Seq(Queries) /\ out[c] \in Seq(Queries)
    BY ZenonT(30)
  <2> QED
    BY <2>1, <2>2, HeadKeepsOrder, ZenonT(30)
<1>2. Carried'
  BY <1>1, SMTT(30)
<1>3. HandlesFirst'
  <2>1. "reading" \notin {"handling", "writing"}
    OBVIOUS
  <2> QED
    BY <2>1, ZenonT(30) DEF HandlesFirst
<1>4. InOrder'
  BY <1>1, ZenonT(30) DEF InOrder
<1>5. ClosesLast'
  BY SMTT(30) DEF ClosesLast
<1> QED
  BY <1>2, <1>3, <1>4, <1>5, ZenonT(30)

\* Taking a query up and ending touch neither what is answered nor what waits.
LEMMA StatusPreserves ==
  ASSUME OInv, NEW c \in Conns, NEW s \in {"handling", "writing", "closed", "failed"}, Become(c, s),
         s \in {"handling", "writing"} => pending[c] # <<>>,
         s = "closed" => eof[c] /\ pending[c] = <<>>
  PROVE  OInv'
<1>1. /\ status' = [status EXCEPT ![c] = s]
      /\ UNCHANGED <<pending, sent, eof, out>>
  BY DEF Become
<1>2. Carried' /\ InOrder'
  BY <1>1, SMTT(30) DEF OInv, Carried, InOrder
<1>3. HandlesFirst'
  BY <1>1, SMTT(30) DEF OInv, Carried, HandlesFirst
<1>4. ClosesLast'
  BY <1>1, SMTT(30) DEF OInv, Carried, ClosesLast
<1> QED
  BY <1>2, <1>3, <1>4 DEF OInv

\* The other steps leave TCP connections alone.
LEMMA OthersPreserve ==
  ASSUME OInv, UNCHANGED tcp, UNCHANGED eof
  PROVE  OInv'
BY DEF OInv, Carried, HandlesFirst, InOrder, ClosesLast, tcp

\* No step of a client or of the listener disturbs what waits.
LEMMA StepPreserves == OInv /\ [Next]_vars => OInv'
<1> SUFFICES ASSUME OInv, [Next]_vars PROVE OInv'
  BY SMTT(30)
<1>1. CASE UNCHANGED vars
  BY <1>1, OthersPreserve DEF vars
<1>2. ASSUME NEW q \in Queries, SendUdp(q) \/ LoseUdp(q) \/ UdpAccepted(q) \/ UdpHandled(q)
      PROVE  OInv'
  <2>1. UNCHANGED tcp /\ UNCHANGED eof
    BY <1>2, ZenonT(30) DEF SendUdp, LoseUdp, UdpAccepted, UdpHandled, UdpRecv, DnsCryptRecv, UdpErr,
                UdpReply, DnsCryptReply
  <2> QED
    BY <2>1, OthersPreserve
<1>3. ASSUME NEW c \in Conns, NEW q \in Queries, SendTcp(c, q) PROVE OInv'
  BY <1>3, SendPreserves
<1>4. ASSUME NEW c \in Conns, NEW q \in Queries, OpenStream(c, q) PROVE OInv'
  BY <1>4, OthersPreserve DEF OpenStream
<1>5. ASSUME NEW c \in Conns, Close(c) PROVE OInv'
  <2>1. eof' = [eof EXCEPT ![c] = TRUE] /\ UNCHANGED <<pending, sent, status, out>>
    BY <1>5 DEF Close, tcp
  <2> QED
    BY <2>1, SMTT(30) DEF OInv, Carried, HandlesFirst, InOrder, ClosesLast
<1>6. ASSUME NEW c \in Conns, TcpAccepted(c) \/ TcpBroken(c) PROVE OInv'
  <2>1. \/ Become(c, "failed")
        \/ pending[c] # <<>> /\ (Become(c, "handling") \/ Become(c, "writing"))
        \/ eof[c] /\ pending[c] = <<>> /\ Become(c, "closed")
    BY <1>6, ZenonT(30) DEF TcpAccepted, TcpBroken, TcpRead, DnsCryptRead, TcpEof, HasQuery
  <2> QED
    BY <2>1, StatusPreserves, ZenonT(30)
<1>7. ASSUME NEW c \in Conns, TcpHandled(c) PROVE OInv'
  <2>1. pending[c] # <<>>
    BY <1>7, ZenonT(30) DEF TcpHandled, TcpErr, TcpReply, DnsCryptTcpReply, Handled, OInv, HandlesFirst
  <2>2. Become(c, "failed") \/ Become(c, "writing")
    BY <1>7, ZenonT(30) DEF TcpHandled, TcpErr, TcpReply, DnsCryptTcpReply
  <2> QED
    BY <2>1, <2>2, StatusPreserves, ZenonT(30)
<1>8. ASSUME NEW c \in Conns, TcpWrites(c) PROVE OInv'
  <2>1. TcpWritten(c) \/ Become(c, "failed")
    BY <1>8, ZenonT(30) DEF TcpWrites, TcpWriteErr
  <2> QED
    BY <2>1, WritePreserves, StatusPreserves, ZenonT(30)
<1>9. ASSUME NEW q \in Queries, StreamAccepted(q) \/ StreamDone(q) PROVE OInv'
  <2>1. UNCHANGED tcp /\ UNCHANGED eof
    BY <1>9, ZenonT(30) DEF StreamAccepted, StreamDone, DoqAccept, DohAccept, Doh3Accept, DoqReply,
                DohReply, DohErr, Doh3Reply, StreamErr, StreamTo
  <2> QED
    BY <2>1, OthersPreserve
<1> QED
  BY <1>1, <1>2, <1>3, <1>4, <1>5, <1>6, <1>7, <1>8, <1>9, ZenonT(30) DEF Next

LEMMA InitOrder == Init => OInv
<1> SUFFICES ASSUME Init PROVE OInv
  OBVIOUS
<1>1. <<>> \in Seq(Queries) /\ <<>> \o <<>> = <<>>
  OBVIOUS
<1> QED
  BY <1>1 DEF Init, OInv, Carried, HandlesFirst, InOrder, ClosesLast

\* For any connections, queries and handlers, and whenever the client closes
\* its half: a connection that handle_tcp_connection or handle_connection
\* leaves without an error has answered every query written to it.
THEOREM ClosingLosesNothing == Spec => []HalfClosedIsServed
<1>1. OInv => HalfClosedIsServed
  <2> SUFFICES ASSUME OInv, NEW c \in Conns, status[c] = "closed" PROVE out[c] = sent[c]
    BY ZenonT(30) DEF HalfClosedIsServed
  <2>1. pending[c] = <<>> /\ out[c] \o pending[c] = sent[c] /\ out[c] \in Seq(Queries)
    BY SMTT(30) DEF OInv, ClosesLast, InOrder, Carried
  <2> QED
    BY <2>1, ConcatEmptySeq, SMTT(30)
<1> QED
  BY InitOrder, StepPreserves, <1>1, PTL DEF Spec

----------------------------------------------------------------------------
(* Addresses *)

\* Every set of natural numbers has a least one.
LEMMA LeastNatural ==
  ASSUME NEW S \in SUBSET Nat, S # {}
  PROVE  \E n \in S : \A m \in S : n <= m
<1>1. PICK n \in S : \A m \in S : ~(<<m, n>> \in OpToRel(<, Nat))
  BY NatLessThanWellFounded, WFMin, ZenonT(30)
<1>2. \A m \in S : ~(m < n)
  BY <1>1, ZenonT(30) DEF OpToRel
<1>3. QED
  BY <1>2

\* What an address is made of.
Token == STRING \cup U16 \cup {":", "[", "]", "v4"}

LEMMA Tokens == U16 \cup {":", "[", "]", "v4"} \subseteq Token
BY ZenonT(30) DEF Token

LEMMA ParsedFields ==
  ASSUME NEW kind, NEW host, NEW port
  PROVE  /\ Parsed(kind, host, port).kind = kind
         /\ Parsed(kind, host, port).host = host
         /\ Parsed(kind, host, port).port = port
BY DEF Parsed, Error

LEMMA ParsedPort ==
  ASSUME NEW kind, NEW host, NEW port, NEW p
  PROVE  [Parsed(kind, host, port) EXCEPT !.port = p] = Parsed(kind, host, p)
BY ZenonT(30) DEF Parsed, Error

LEMMA WithPortParsed ==
  ASSUME NEW kind, kind # "error", NEW host, NEW port
  PROVE  WithPort(Parsed(kind, host, port)) =
           Parsed(kind, host, IF port = NoPort THEN DefaultPort(kind) ELSE port)
<1> DEFINE u == Parsed(kind, host, port)
<1>1. u.kind = kind /\ u.port = port
  BY ParsedFields
<1>2. [u EXCEPT !.port = DefaultPort(kind)] = Parsed(kind, host, DefaultPort(kind))
  BY ParsedPort
<1> HIDE DEF u
<1>3. CASE port = NoPort
  <2>1. WithPort(u) = [u EXCEPT !.port = DefaultPort(kind)]
    BY <1>1, <1>3 DEF WithPort
  <2>2. QED
    BY <1>2, <1>3, <2>1, ZenonT(30) DEF u
<1>4. CASE port # NoPort
  <2>1. WithPort(u) = u
    BY <1>1, <1>4 DEF WithPort
  <2>2. QED
    BY <1>4, <2>1, ZenonT(30) DEF u
<1>5. QED
  BY <1>3, <1>4

\* What split_host_port returns: an error, or a host and perhaps a port.
LEMMA SplitType ==
  ASSUME NEW kind, NEW ts \in Seq(Token)
  PROVE  \/ split_host_port(kind, ts) = Error
         \/ \E host \in Seq(Token), port \in U16 \cup {NoPort} :
              split_host_port(kind, ts) = Parsed(kind, host, port)
<1> DEFINE colons == Where(ts, ":")
           closes == Where(ts, "]")
<1>1. Len(ts) \in Nat /\ DOMAIN ts = 1..Len(ts)
  OBVIOUS
<1>2. CASE ts # <<>> /\ ts[1] = "["
  <2>1. CASE closes = {}
    BY <1>2, <2>1, ZenonT(30) DEF split_host_port
  <2>2. CASE closes # {}
    <3> DEFINE c    == Leftmost(closes)
               host == SubSeq(ts, 2, c - 1)
               rest == After(ts, c)
    <3>1. split_host_port(kind, ts) =
            IF rest = <<>> THEN Parsed(kind, host, NoPort)
            ELSE IF Len(rest) = 2 /\ rest[1] = ":" /\ rest[2] \in U16
            THEN Parsed(kind, host, rest[2])
            ELSE Error
      BY <1>2, <2>2, ZenonT(30) DEF split_host_port
    <3>2. c \in 1..Len(ts)
      <4>1. closes \in SUBSET Nat /\ closes \subseteq 1..Len(ts)
        BY <1>1 DEF Where
      <4>2. \E i \in closes : \A j \in closes : i <= j
        BY <2>2, <4>1, LeastNatural
      <4>3. c \in closes
        BY <4>2 DEF Leftmost
      <4>4. QED
        BY <4>1, <4>3
    <3>3. host \in Seq(Token)
      <4> HIDE DEF c
      <4>1. c - 1 \in Int /\ 2 \in Int /\ c - 1 <= Len(ts)
        BY <1>1, <3>2
      <4>2. \A i \in 2..(c - 1) : ts[i] \in Token
        BY <1>1, <3>2
      <4>3. QED
        BY <4>1, <4>2, SubSeqProperties, ZenonT(30)
    <3> HIDE DEF host, rest
    <3>4. QED
      BY <3>1, <3>3
  <2>3. QED
    BY <2>1, <2>2
<1>3. CASE ~(ts # <<>> /\ ts[1] = "[") /\ Cardinality(colons) = 1
  <2> DEFINE c    == Leftmost(colons)
             host == Before(ts, c)
             port == After(ts, c)
  <2>1. split_host_port(kind, ts) =
          IF Len(port) = 1 /\ port[1] \in U16 THEN Parsed(kind, host, port[1]) ELSE Error
    BY <1>3, ZenonT(30) DEF split_host_port
  <2>2. c \in 1..Len(ts)
    <3>1. colons \in SUBSET Nat /\ colons \subseteq 1..Len(ts) /\ IsFiniteSet(colons)
      <4>1. colons \in SUBSET Nat /\ colons \subseteq 1..Len(ts)
        BY <1>1 DEF Where
      <4>2. IsFiniteSet(1..Len(ts))
        BY <1>1, FS_Interval
      <4>3. QED
        BY <4>1, <4>2, FS_Subset
    <3>2. colons # {}
      <4>1. Cardinality({}) = 0 /\ 0 # 1
        BY FS_EmptySet, SMTT(30)
      <4>2. QED
        BY <1>3, <4>1, ZenonT(30)
    <3>3. \E i \in colons : \A j \in colons : i <= j
      BY <3>1, <3>2, LeastNatural
    <3>4. c \in colons
      BY <3>3 DEF Leftmost
    <3>5. QED
      BY <3>1, <3>4
  <2>3. host \in Seq(Token)
    <3> HIDE DEF c
    <3>1. c - 1 \in Int /\ 1 \in Int /\ c - 1 <= Len(ts)
      BY <1>1, <2>2
    <3>2. \A i \in 1..(c - 1) : ts[i] \in Token
      BY <1>1, <2>2
    <3>3. QED
      BY <3>1, <3>2, SubSeqProperties, SMTT(30) DEF Before
  <2> HIDE DEF host, port
  <2>4. QED
    BY <2>1, <2>3, SMTT(30)
<1>4. CASE ~(ts # <<>> /\ ts[1] = "[") /\ Cardinality(colons) # 1
  <2>1. split_host_port(kind, ts) = Parsed(kind, ts, NoPort)
    BY <1>4, ZenonT(30) DEF split_host_port
  <2>2. QED
    BY <2>1
<1>5. QED
  BY <1>2, <1>3, <1>4, ZenonT(30)

LEMMA LastTwo ==
  ASSUME NEW s \in Seq(Token), NEW m \in Nat, m \in DOMAIN s, m + 1 \in DOMAIN s
  PROVE  SubSeq(s, m, m + 1) = <<s[m], s[m + 1]>>
<1> DEFINE t == SubSeq(s, m, m + 1)
           u == <<s[m], s[m + 1]>>
<1>1. \A i \in m..(m + 1) : s[i] \in Token
  OBVIOUS
<1>2. t \in Seq(Token) /\ Len(t) = 2 /\ t[1] = s[m] /\ t[2] = s[m + 1]
  OBVIOUS
<1>3. u \in Seq(Token) /\ Len(u) = 2 /\ u[1] = s[m] /\ u[2] = s[m + 1]
  OBVIOUS
<1> HIDE DEF t, u
<1>4. t = u
  BY <1>2, <1>3, SeqEqual
<1>5. QED
  BY <1>4 DEF t, u

LEMMA LastOne ==
  ASSUME NEW s \in Seq(Token), NEW m \in Nat, m \in DOMAIN s
  PROVE  SubSeq(s, m, m) = <<s[m]>>
<1> DEFINE t == SubSeq(s, m, m)
           u == <<s[m]>>
<1>1. t \in Seq(Token) /\ Len(t) = 1 /\ t[1] = s[m]
  OBVIOUS
<1>2. u \in Seq(Token) /\ Len(u) = 1 /\ u[1] = s[m]
  OBVIOUS
<1> HIDE DEF t, u
<1>3. t = u
  BY <1>1, <1>2, SeqEqual
<1>4. QED
  BY <1>3 DEF t, u

\* An address made by format_host_port comes apart where it was put together.
LEMMA SplitFormatted ==
  ASSUME NEW kind, NEW host \in Seq(Token), NEW port \in U16, Proper(host)
  PROVE  split_host_port(kind, format_host_port(host, port)) = Parsed(kind, host, port)
<1> DEFINE n  == Len(host)
           ts == format_host_port(host, port)
<1>1. n \in Nat /\ DOMAIN host = 1..n
  OBVIOUS
<1>2. port \in Token /\ port \notin {":", "[", "]"}
  <2>1. port \in Token
    BY Tokens
  <2>2. QED
    BY <2>1 DEF U16
<1>3. CASE IsIpv6(host)
  <2>1. ts = <<"[">> \o host \o <<"]", ":", port>>
    BY <1>3, ZenonT(30) DEF format_host_port
  <2>2. /\ ts \in Seq(Token) /\ Len(ts) = n + 4
        /\ ts[1] = "[" /\ ts[n + 2] = "]" /\ ts[n + 3] = ":" /\ ts[n + 4] = port
        /\ \A i \in 1..n : ts[i + 1] = host[i]
    <3> HIDE DEF ts
    <3> DEFINE s == <<"[">> \o host
    <3>1. <<"[">> \in Seq(Token) /\ <<"]", ":", port>> \in Seq(Token)
      BY <1>2, Tokens, SMTT(30)
    <3>2. s \in Seq(Token) /\ Len(s) = n + 1
      BY <3>1
    <3>3. s[1] = "[" /\ \A i \in 1..n : s[i + 1] = host[i]
      BY <1>1, <3>1
    <3> HIDE DEF s
    <3>4. ts = s \o <<"]", ":", port>>
      BY <2>1 DEF s
    <3>5. QED
      BY <1>1, <3>1, <3>2, <3>3, <3>4
  <2>3. \A i \in 1..n : host[i] \notin {"[", "]"}
    BY <1>1, <1>3 DEF IsIpv6, U16
  <2> HIDE DEF ts, n
  <2>4. Where(ts, "]") = {n + 2}
    <3>1. DOMAIN ts = 1..(n + 4)
      BY <2>2, SMTT(30)
    <3>2. ASSUME NEW i \in 1..(n + 4), ts[i] = "]" PROVE i = n + 2
      <4>1. i # 1
        BY <2>2, <3>2, ZenonT(30)
      <4>2. i \notin {n + 3, n + 4}
        BY <1>2, <2>2, <3>2, ZenonT(30)
      <4>3. ~(i - 1 \in 1..n)
        <5> SUFFICES ASSUME i - 1 \in 1..n PROVE FALSE
          BY ZenonT(30)
        <5>1. ts[(i - 1) + 1] = host[i - 1] /\ (i - 1) + 1 = i
          BY <2>2
        <5>2. QED
          BY <2>3, <3>2, <5>1, ZenonT(30)
      <4>4. QED
        BY <1>1, <4>1, <4>2, <4>3
    <3>3. n + 2 \in 1..(n + 4)
      BY <1>1
    <3>4. QED
      BY <2>2, <3>1, <3>2, <3>3, SMTT(30) DEF Where
  <2>5. Leftmost({n + 2}) = n + 2
    BY <1>1 DEF Leftmost
  <2>6. SubSeq(ts, 2, (n + 2) - 1) = host
    <3>1. \A i \in 2..((n + 2) - 1) : ts[i] \in Token
      BY <1>1, <2>2
    <3>2. /\ SubSeq(ts, 2, (n + 2) - 1) \in Seq(Token)
          /\ Len(SubSeq(ts, 2, (n + 2) - 1)) = IF 2 <= (n + 2) - 1 THEN ((n + 2) - 1) - 2 + 1 ELSE 0
          /\ \A i \in 1..(((n + 2) - 1) - 2 + 1) : SubSeq(ts, 2, (n + 2) - 1)[i] = ts[(2 + i) - 1]
      <4>1. 2 \in Int /\ (n + 2) - 1 \in Int
        BY <1>1, SMTT(30)
      <4>2. QED
        BY <3>1, <4>1, SubSeqProperties, SMTT(30)
    <3> DEFINE s == SubSeq(ts, 2, (n + 2) - 1)
    <3> HIDE DEF s
    <3>3. s \in Seq(Token) /\ Len(s) = n /\ \A i \in 1..n : s[i] = ts[i + 1]
      BY <1>1, <3>2 DEF s
    <3>4. s = host
      BY <1>1, <2>2, <3>3, SeqEqual, SMTT(30) DEF n
    <3>5. QED
      BY <3>4 DEF s
  <2>7. After(ts, n + 2) = <<":", port>>
    <3>1. After(ts, n + 2) = SubSeq(ts, n + 3, n + 4)
      BY <1>1, <2>2, SMTT(30) DEF After
    <3>2. n + 3 \in Nat /\ (n + 3) + 1 = n + 4 /\ n + 3 \in DOMAIN ts /\ n + 4 \in DOMAIN ts
      BY <1>1, <2>2, SMTT(30)
    <3>3. SubSeq(ts, n + 3, n + 4) = <<ts[n + 3], ts[n + 4]>>
      BY <1>1, <2>2, <3>2, LastTwo, ZenonT(30)
    <3>4. QED
      BY <2>2, <3>1, <3>3, ZenonT(30)
  <2>8. Len(<<":", port>>) = 2 /\ <<":", port>>[1] = ":" /\ <<":", port>>[2] = port /\ <<":", port>> # <<>>
    BY SMTT(30)
  <2>9. ts # <<>>
    BY <1>1, <2>2
  <2>10. split_host_port(kind, ts) = Parsed(kind, host, port)
    <3>1. Where(ts, "]") # {} /\ Leftmost(Where(ts, "]")) = n + 2
      BY <2>4, <2>5, ZenonT(30)
    <3>2. QED
      BY <2>2, <3>1, <2>6, <2>7, <2>8, <2>9, ZenonT(30) DEF split_host_port
  <2>11. QED
    BY <2>10 DEF ts
<1>4. CASE ~IsIpv6(host)
  <2>1. ts = host \o <<":", port>>
    BY <1>4, ZenonT(30) DEF format_host_port
  <2>2. host # <<>> /\ \A i \in 1..n : host[i] \notin {":", "[", "]"}
    BY <1>1, <1>4, ZenonT(30) DEF Proper
  <2>3. /\ ts \in Seq(Token) /\ Len(ts) = n + 2
        /\ ts[n + 1] = ":" /\ ts[n + 2] = port
        /\ \A i \in 1..n : ts[i] = host[i]
    <3> HIDE DEF ts
    <3>1. <<":", port>> \in Seq(Token)
      BY <1>2, Tokens, SMTT(30)
    <3>2. QED
      BY <1>1, <2>1, <3>1, SMTT(30)
  <2>4. n >= 1
    BY <2>2, EmptySeq
  <2> HIDE DEF ts, n
  <2>5. ts # <<>> /\ ts[1] # "["
    BY <1>1, <2>2, <2>3, <2>4, SMTT(30)
  <2>6. Where(ts, ":") = {n + 1}
    <3>1. DOMAIN ts = 1..(n + 2)
      BY <2>3, SMTT(30)
    <3>2. ASSUME NEW i \in 1..(n + 2), ts[i] = ":" PROVE i = n + 1
      <4>1. i # n + 2
        BY <1>2, <2>3, <3>2, SMTT(30)
      <4>2. ~(i \in 1..n)
        BY <2>2, <2>3, <3>2, ZenonT(30)
      <4>3. QED
        BY <1>1, <4>1, <4>2
    <3>3. n + 1 \in 1..(n + 2)
      BY <1>1, SMTT(30)
    <3>4. QED
      BY <2>3, <3>1, <3>2, <3>3, SMTT(30) DEF Where
  <2>7. Cardinality(Where(ts, ":")) = 1
    BY <2>6, FS_Singleton, ZenonT(30)
  <2>8. Leftmost({n + 1}) = n + 1
    BY <1>1 DEF Leftmost
  <2>9. Before(ts, n + 1) = host
    <3>1. (n + 1) - 1 = n /\ 1 \in Int /\ n \in Int
      BY <1>1
    <3>2. \A i \in 1..n : ts[i] \in Token
      BY <1>1, <2>3
    <3>3. /\ SubSeq(ts, 1, n) \in Seq(Token)
          /\ Len(SubSeq(ts, 1, n)) = IF 1 <= n THEN n - 1 + 1 ELSE 0
          /\ \A i \in 1..(n - 1 + 1) : SubSeq(ts, 1, n)[i] = ts[(1 + i) - 1]
      BY <3>1, <3>2, SubSeqProperties, SMTT(30)
    <3> DEFINE s == SubSeq(ts, 1, n)
    <3> HIDE DEF s
    <3>4. s \in Seq(Token) /\ Len(s) = n /\ \A i \in 1..n : s[i] = ts[i]
      BY <1>1, <3>3, SMTT(30) DEF s
    <3>5. s = host
      BY <1>1, <2>3, <3>4, SeqEqual, ZenonT(30) DEF n
    <3>6. QED
      BY <3>1, <3>5 DEF s, Before
  <2>10. After(ts, n + 1) = <<port>>
    <3>1. After(ts, n + 1) = SubSeq(ts, n + 2, n + 2)
      BY <1>1, <2>3, SMTT(30) DEF After
    <3>2. n + 2 \in Nat /\ n + 2 \in DOMAIN ts
      BY <1>1, <2>3
    <3>3. SubSeq(ts, n + 2, n + 2) = <<ts[n + 2]>>
      BY <1>1, <2>3, <3>2, LastOne
    <3>4. QED
      BY <2>3, <3>1, <3>3, ZenonT(30)
  <2>11. Len(<<port>>) = 1 /\ <<port>>[1] = port
    OBVIOUS
  <2>12. split_host_port(kind, ts) = Parsed(kind, host, port)
    <3>1. Leftmost(Where(ts, ":")) = n + 1
      BY <2>6, <2>8, ZenonT(30)
    <3>2. QED
      BY <2>5, <2>7, <3>1, <2>9, <2>10, <2>11, ZenonT(30) DEF split_host_port
  <2>13. QED
    BY <2>12 DEF ts
<1>5. QED
  BY <1>3, <1>4, SMTT(30)

\* A socket address is a literal and a port, and only of that literal.
LEMMA SocketAddrsFormat ==
  ASSUME NEW host \in Seq(Token)
  PROVE  SocketAddrs(host) = { format_host_port(host, p) : p \in U16 }
<1>1. ASSUME NEW p \in U16
      PROVE  (<<"[">> \o host \o <<"]">>) \o <<":", p>> = <<"[">> \o host \o <<"]", ":", p>>
  <2> DEFINE s == <<"[">> \o host
  <2>1. /\ s \in Seq(Token) /\ <<"]">> \in Seq(Token) /\ <<":", p>> \in Seq(Token)
        /\ <<"]", ":", p>> \in Seq(Token)
    BY Tokens
  <2> HIDE DEF s
  <2>2. <<"]">> \o <<":", p>> = <<"]", ":", p>>
    <3> DEFINE l == <<"]">> \o <<":", p>>
               r == <<"]", ":", p>>
    <3>1. l \in Seq(Token) /\ Len(l) = 3 /\ l[1] = "]" /\ l[2] = ":" /\ l[3] = p
      BY <2>1
    <3>2. r \in Seq(Token) /\ Len(r) = 3 /\ r[1] = "]" /\ r[2] = ":" /\ r[3] = p
      BY <2>1
    <3> HIDE DEF l, r
    <3>3. l = r
      BY <3>1, <3>2, SeqEqual
    <3>4. QED
      BY <3>3 DEF l, r
  <2>3. (s \o <<"]">>) \o <<":", p>> = s \o (<<"]">> \o <<":", p>>)
    BY <2>1, ConcatAssociative, SMTT(30)
  <2>4. (s \o <<"]">>) \o <<":", p>> = s \o <<"]", ":", p>>
    BY <2>2, <2>3, ZenonT(30)
  <2>5. QED
    BY <2>4, ZenonT(30) DEF s
<1>2. ASSUME NEW p \in U16
      PROVE  (IF IsIpv6(host) THEN <<"[">> \o host \o <<"]">> ELSE host) \o <<":", p>> = format_host_port(host, p)
  BY <1>1, ZenonT(30) DEF format_host_port
<1>3. QED
  BY <1>2, ZenonT(30) DEF SocketAddrs

\* What a formatted literal looks like.
LEMMA Formatted ==
  ASSUME NEW host \in Seq(Token), NEW port \in U16
  PROVE  LET ts == format_host_port(host, port) IN
         /\ ts \in Seq(Token) /\ ts[Len(ts)] = port /\ Len(ts) \in Nat
         /\ IsIpv6(host) => /\ Len(ts) = Len(host) + 4 /\ ts[1] = "["
                            /\ \A i \in 1..Len(host) : ts[i + 1] = host[i]
         /\ ~IsIpv6(host) => Len(ts) = Len(host) + 2 /\ \A i \in 1..Len(host) : ts[i] = host[i]
<1> DEFINE n  == Len(host)
           ts == format_host_port(host, port)
<1>1. n \in Nat /\ DOMAIN host = 1..n /\ port \in Token
  BY Tokens, SMTT(30)
<1>2. CASE IsIpv6(host)
  <2>1. ts = <<"[">> \o host \o <<"]", ":", port>>
    BY <1>2, ZenonT(30) DEF format_host_port
  <2> HIDE DEF ts
  <2> DEFINE s == <<"[">> \o host
  <2>2. <<"[">> \in Seq(Token) /\ <<"]", ":", port>> \in Seq(Token)
    BY <1>1, Tokens
  <2>3. s \in Seq(Token) /\ Len(s) = n + 1
    BY <2>2
  <2>4. s[1] = "[" /\ \A i \in 1..n : s[i + 1] = host[i]
    BY <1>1, <2>2
  <2> HIDE DEF s
  <2>5. ts = s \o <<"]", ":", port>>
    BY <2>1 DEF s
  <2>6. /\ ts \in Seq(Token) /\ Len(ts) = n + 4 /\ ts[n + 4] = port /\ ts[1] = "["
        /\ \A i \in 1..n : ts[i + 1] = host[i]
    BY <1>1, <2>2, <2>3, <2>4, <2>5
  <2> HIDE DEF n
  <2>7. QED
    BY <1>1, <1>2, <2>6, SMTT(30) DEF ts, n
<1>3. CASE ~IsIpv6(host)
  <2>1. ts = host \o <<":", port>>
    BY <1>3, ZenonT(30) DEF format_host_port
  <2> HIDE DEF ts
  <2>2. <<":", port>> \in Seq(Token)
    BY <1>1, Tokens
  <2>3. ts \in Seq(Token) /\ Len(ts) = n + 2 /\ ts[n + 2] = port /\ \A i \in 1..n : ts[i] = host[i]
    BY <1>1, <2>1, <2>2
  <2> HIDE DEF n
  <2>4. QED
    BY <1>1, <1>3, <2>3, SMTT(30) DEF ts, n
<1>4. QED
  BY <1>2, <1>3, ZenonT(30)

LEMMA LiteralsApart ==
  ASSUME NEW h \in Seq(Token), NEW g \in Seq(Token), IsIp(h), IsIp(g),
         NEW p \in U16, NEW q \in U16, format_host_port(h, p) = format_host_port(g, q)
  PROVE  h = g
<1> DEFINE ts == format_host_port(h, p)
<1>1. /\ IsIpv6(h) => /\ Len(ts) = Len(h) + 4 /\ ts[1] = "["
                      /\ \A i \in 1..Len(h) : ts[i + 1] = h[i]
      /\ ~IsIpv6(h) => Len(ts) = Len(h) + 2 /\ \A i \in 1..Len(h) : ts[i] = h[i]
  BY Formatted, ZenonT(30)
<1>2. /\ IsIpv6(g) => /\ Len(ts) = Len(g) + 4 /\ ts[1] = "["
                      /\ \A i \in 1..Len(g) : ts[i + 1] = g[i]
      /\ ~IsIpv6(g) => Len(ts) = Len(g) + 2 /\ \A i \in 1..Len(g) : ts[i] = g[i]
  <2>1. ts = format_host_port(g, q)
    OBVIOUS
  <2> HIDE DEF ts
  <2>2. QED
    BY <2>1, Formatted, ZenonT(30)
<1> HIDE DEF ts
<1>3. ~IsIpv6(h) => h = <<"v4">> /\ ts[1] = "v4"
  BY <1>1 DEF IsIp
<1>4. ~IsIpv6(g) => g = <<"v4">> /\ ts[1] = "v4"
  BY <1>2 DEF IsIp
<1>5. IsIpv6(h) /\ IsIpv6(g) => h = g
  <2> SUFFICES ASSUME IsIpv6(h), IsIpv6(g) PROVE h = g
    BY SMTT(30)
  <2>1. Len(h) = Len(g)
    BY <1>1, <1>2
  <2>2. \A i \in 1..Len(h) : h[i] = g[i]
    BY <1>1, <1>2, <2>1, ZenonT(30)
  <2>3. QED
    BY <2>1, <2>2, SeqEqual
<1>6. "v4" # "["
  BY ZenonT(30)
<1>7. QED
  BY <1>1, <1>2, <1>3, <1>4, <1>5, <1>6, ZenonT(30)

\* The literal a formatted address is of is the one SocketHosts finds.
LEMMA SocketHostsOf ==
  ASSUME NEW ts \in Seq(Token), NEW h \in SocketHosts(ts)
  PROVE  h \in Seq(Token) /\ IsIp(h) /\ \E p \in U16 : ts = format_host_port(h, p)
<1>1. PICK i \in DOMAIN ts, j \in DOMAIN ts : h = SubSeq(ts, i, j)
  BY SMTT(30) DEF SocketHosts
<1>2. IsIp(h) /\ ts \in SocketAddrs(h)
  BY DEF SocketHosts
<1>3. h \in Seq(Token)
  <2>1. i \in Int /\ j \in Int /\ \A k \in i..j : ts[k] \in Token
    BY <1>1, SMTT(30)
  <2>2. QED
    BY <1>1, <2>1, SubSeqProperties, SMTT(30)
<1>4. QED
  BY <1>2, <1>3, SocketAddrsFormat

LEMMA SocketHostsHave ==
  ASSUME NEW h \in Seq(Token), IsIp(h), NEW p \in U16
  PROVE  h \in SocketHosts(format_host_port(h, p))
<1> DEFINE ts == format_host_port(h, p)
           k  == IF IsIpv6(h) THEN 2 ELSE 1
           n  == Len(h)
<1>1. n \in Nat \ {0}
  <2>1. Len(<<"v4">>) = 1
    OBVIOUS
  <2>2. h = <<"v4">> \/ n \in {3, 5, 7}
    BY ZenonT(30) DEF IsIp, IsIpv6
  <2>3. n \in {1, 3, 5, 7}
    BY <2>1, <2>2, ZenonT(30)
  <2> HIDE DEF n
  <2>4. QED
    BY <2>3
<1>2. /\ ts \in Seq(Token) /\ Len(ts) \in Nat
      /\ IsIpv6(h) => Len(ts) = n + 4 /\ \A i \in 1..n : ts[i + 1] = h[i]
      /\ ~IsIpv6(h) => Len(ts) = n + 2 /\ \A i \in 1..n : ts[i] = h[i]
  BY Formatted, ZenonT(30)
<1> HIDE DEF ts, n
<1>3. /\ k \in 1..2 /\ k \in DOMAIN ts /\ (k + n) - 1 \in DOMAIN ts
      /\ \A i \in 1..n : ts[(k + i) - 1] = h[i]
  BY <1>1, <1>2, SMTT(30)
<1> HIDE DEF k
<1>4. SubSeq(ts, k, (k + n) - 1) = h
  <2> DEFINE s == SubSeq(ts, k, (k + n) - 1)
  <2>1. k \in Int /\ (k + n) - 1 \in Int /\ k <= (k + n) - 1 /\ ((k + n) - 1) - k + 1 = n
    BY <1>1, <1>3
  <2>2. \A i \in k..((k + n) - 1) : ts[i] \in Token
    BY <1>1, <1>2, <1>3, SMTT(30)
  <2>3. s \in Seq(Token) /\ Len(s) = n /\ \A i \in 1..n : s[i] = ts[(k + i) - 1]
    <3>1. /\ s \in Seq(Token)
          /\ Len(s) = IF k <= (k + n) - 1 THEN ((k + n) - 1) - k + 1 ELSE 0
          /\ \A i \in 1..(((k + n) - 1) - k + 1) : s[i] = ts[(k + i) - 1]
      BY <2>1, <2>2, SubSeqProperties, SMTT(30)
    <3> HIDE DEF s
    <3>2. QED
      BY <2>1, <3>1, ZenonT(30)
  <2> HIDE DEF s
  <2>4. s = h
    BY <1>3, <2>3, SeqEqual, ZenonT(30) DEF n
  <2>5. QED
    BY <2>4 DEF s
<1>5. ts \in SocketAddrs(h)
  BY SocketAddrsFormat, ZenonT(30) DEF ts
<1>6. h \in SocketHosts(ts)
  BY <1>3, <1>4, <1>5, SMTT(30) DEF SocketHosts
<1>7. QED
  BY <1>6 DEF ts

LEMMA ParsesOther ==
  ASSUME NEW a, a.scheme \notin {"", "udp", "tcp", "tls", "quic"}
  PROVE  parse_any_upstream(a).kind \notin {"udp", "tcp", "tls", "quic"}
<1>1. Error.kind = "error"
  BY ZenonT(30) DEF Error
<1>2. CASE a.scheme = "sdns"
  <2>1. parse_any_upstream(a) \in {Parsed("sdns", a.rest, NoPort), Error}
    <3>1. a.scheme \notin {"", "udp", "tcp", "tls", "quic"}
      BY ZenonT(30)
    <3>2. QED
      BY <1>2, <3>1, ZenonT(30) DEF parse_any_upstream
  <2>2. Parsed("sdns", a.rest, NoPort).kind = "sdns"
    BY ZenonT(30) DEF Parsed, Error
  <2>3. QED
    BY <1>1, <2>1, <2>2, ZenonT(30)
<1>3. CASE a.scheme # "sdns"
  <2>1. parse_any_upstream(a) = parse_upstream(a)
    BY <1>3, ZenonT(30) DEF parse_any_upstream
  <2> DEFINE info == extract_userinfo(a.rest)
             uri  == Uri(info.rest)
             full == [uri EXCEPT !.auth = info.auth, !.h3_only = (a.scheme = "h3")]
  <2>2. parse_upstream(a) \in {Error, WithPort(full)}
    BY ZenonT(30) DEF parse_upstream
  <2>3. \A ts : Uri(ts) = Error \/ \E h, p : Uri(ts) = Parsed("doh", h, p)
    <3> TAKE ts
    <3>1. \A s : split_host_port("doh", s) = Error \/ \E h, p : split_host_port("doh", s) = Parsed("doh", h, p)
      BY ZenonT(30) DEF split_host_port
    <3>2. QED
      BY <3>1, ZenonT(30) DEF Uri
  <2>4. WithPort(full).kind \in {"doh", "error"}
    <3> HIDE DEF info
    <3>1. CASE uri = Error
      <4>1. full = [Error EXCEPT !.auth = info.auth, !.h3_only = (a.scheme = "h3")]
        BY <3>1, ZenonT(30)
      <4> HIDE DEF full
      <4>2. QED
        BY <4>1, ZenonT(30) DEF Error, WithPort
    <3>2. ASSUME NEW h, NEW p, uri = Parsed("doh", h, p) PROVE WithPort(full).kind = "doh"
      <4>1. full = [Parsed("doh", h, p) EXCEPT !.auth = info.auth, !.h3_only = (a.scheme = "h3")]
        BY <3>2, ZenonT(30)
      <4> HIDE DEF full
      <4>2. QED
        BY <4>1, ZenonT(30) DEF Parsed, Error, WithPort
    <3>3. QED
      BY <2>3, <3>1, <3>2, ZenonT(30)
  <2> HIDE DEF full
  <2>5. QED
    BY <1>1, <2>1, <2>2, <2>4, ZenonT(30)
<1>4. QED
  BY <1>2, <1>3, ZenonT(30)

\* Shown and parsed again, an upstream stays what it is.
LEMMA ParsesBack ==
  ASSUME NEW a, a.rest \in Seq(STRING),
         parse_any_upstream(a).kind \in {"udp", "tcp", "tls", "quic"},
         Proper(parse_any_upstream(a).host)
  PROVE  parse_any_upstream(Address(parse_any_upstream(a))) = parse_any_upstream(a)
<1> DEFINE u == parse_any_upstream(a)
<1>1. a.rest \in Seq(Token)
  BY SMTT(30) DEF Token
<1>2. CASE a.scheme \in {"tcp", "tls", "quic"}
  <2>1. u = WithPort(split_host_port(a.scheme, a.rest))
    BY <1>2, ZenonT(30) DEF parse_any_upstream
  <2>2. split_host_port(a.scheme, a.rest) # Error
    <3> SUFFICES ASSUME split_host_port(a.scheme, a.rest) = Error PROVE FALSE
      BY SMTT(30)
    <3>1. u = WithPort(Error)
      BY <2>1, ZenonT(30)
    <3>2. WithPort(Error).kind = "error"
      BY DEF WithPort, Error
    <3>3. QED
      BY <3>1, <3>2, SMTT(30)
  <2>3. PICK host \in Seq(Token), port \in U16 \cup {NoPort} :
          split_host_port(a.scheme, a.rest) = Parsed(a.scheme, host, port)
    BY <1>1, <2>2, SplitType
  <2> DEFINE full == IF port = NoPort THEN DefaultPort(a.scheme) ELSE port
  <2>4. u = Parsed(a.scheme, host, full)
    <3>1. a.scheme # "error"
      BY <1>2, ZenonT(30)
    <3>2. WithPort(Parsed(a.scheme, host, port)) = Parsed(a.scheme, host, full)
      BY <3>1, WithPortParsed, ZenonT(30)
    <3>3. QED
      BY <2>1, <2>3, <3>2, ZenonT(30)
  <2>5. full \in U16 /\ full # NoPort
    <3>1. DefaultPort(a.scheme) \in U16
      BY <1>2 DEF U16, DefaultPort
    <3>2. full \in U16
      BY <3>1
    <3>3. QED
      BY <3>2, SMTT(30) DEF U16, NoPort
  <2> HIDE DEF full
  <2>6. u.kind = a.scheme /\ u.host = host /\ u.port = full
    <3> DEFINE w == Parsed(a.scheme, host, full)
    <3>1. w.kind = a.scheme /\ w.host = host /\ w.port = full
      BY DEF Parsed, Error
    <3>2. u = w
      BY <2>4, ZenonT(30)
    <3>3. QED
      BY <3>1, <3>2, ZenonT(30)
  <2> DEFINE b == Address(u)
  <2>7. b.scheme = a.scheme /\ b.rest = format_host_port(host, full)
    BY <2>6, ZenonT(30) DEF Address
  <2>8. Proper(host)
    BY <2>6, ZenonT(30)
  <2>9. split_host_port(a.scheme, format_host_port(host, full)) = Parsed(a.scheme, host, full)
    BY <2>5, <2>8, SplitFormatted, ZenonT(30)
  <2>10. parse_any_upstream(b) = WithPort(split_host_port(b.scheme, b.rest))
    <3> HIDE DEF b
    <3>1. QED
      BY <1>2, <2>7, ZenonT(30) DEF parse_any_upstream
  <2>11. WithPort(Parsed(a.scheme, host, full)) = Parsed(a.scheme, host, full)
    <3>1. a.scheme # "error"
      BY <1>2
    <3>2. QED
      BY <2>5, <3>1, WithPortParsed, ZenonT(30)
  <2>12. QED
    BY <2>4, <2>7, <2>9, <2>10, <2>11, ZenonT(30)
<1>3. CASE a.scheme \in {"", "udp"}
  <2>1. u = parse_udp(a.rest)
    BY <1>3, ZenonT(30) DEF parse_any_upstream
  <2>2. \A v : v.kind = "udp" => parse_any_upstream(Address(v)) = parse_udp(format_host_port(v.host, v.port))
    <3> TAKE v
    <3> HAVE v.kind = "udp"
    <3>1. Address(v).scheme = "udp" /\ Address(v).rest = format_host_port(v.host, v.port)
      BY ZenonT(30) DEF Address
    <3>2. QED
      BY <3>1, ZenonT(30) DEF parse_any_upstream
  <2>3. \A h \in SocketHosts(a.rest) : h \in Seq(Token) /\ IsIp(h) /\ \E p \in U16 : a.rest = format_host_port(h, p)
    BY <1>1, SocketHostsOf
  <2>4. CASE SocketHosts(a.rest) # {}
    <3> DEFINE h == CHOOSE x \in SocketHosts(a.rest) : TRUE
    <3>1. h \in SocketHosts(a.rest)
      BY <2>4, SMTT(30)
    <3>2. u = Parsed("udp", h, a.rest[Len(a.rest)])
      BY <2>1, <2>4, ZenonT(30) DEF parse_udp
    <3> HIDE DEF h
    <3>3. PICK p \in U16 : a.rest = format_host_port(h, p)
      BY <2>3, <3>1, ZenonT(30)
    <3>4. a.rest[Len(a.rest)] = p
      <4>1. h \in Seq(Token)
        BY <2>3, <3>1, ZenonT(30)
      <4> DEFINE ts == format_host_port(h, p)
      <4>2. ts[Len(ts)] = p
        BY <4>1, Formatted, ZenonT(30)
      <4> HIDE DEF ts
      <4>3. a.rest = ts
        BY <3>3, SMTT(30) DEF ts
      <4>4. QED
        BY <4>2, <4>3, ZenonT(30)
    <3>5. u.kind = "udp" /\ u.host = h /\ u.port = p
      <4> DEFINE w == Parsed("udp", h, p)
      <4>1. w.kind = "udp" /\ w.host = h /\ w.port = p
        BY ParsedFields, SMTT(30)
      <4>2. u = w
        BY <3>2, <3>4, ZenonT(30)
      <4>3. QED
        BY <4>1, <4>2, ZenonT(30)
    <3>6. parse_any_upstream(Address(u)) = parse_udp(a.rest)
      BY <2>2, <3>3, <3>5, ZenonT(30)
    <3>7. QED
      BY <2>1, <3>6, ZenonT(30)
  <2>5. CASE SocketHosts(a.rest) = {}
    <3>1. IsIp(a.rest) /\ u = Parsed("udp", a.rest, "53")
      <4>1. u \in {Error} \/ (IsIp(a.rest) /\ u = Parsed("udp", a.rest, "53"))
        BY <2>1, <2>5, ZenonT(30) DEF parse_udp
      <4>2. Error.kind = "error"
        BY ZenonT(30) DEF Error
      <4>3. QED
        BY <4>1, <4>2, ZenonT(30)
    <3>2. u.kind = "udp" /\ u.host = a.rest /\ u.port = "53"
      <4> DEFINE w == Parsed("udp", a.rest, "53")
      <4>1. w.kind = "udp" /\ w.host = a.rest /\ w.port = "53"
        BY ParsedFields, SMTT(30)
      <4>2. u = w
        BY <3>1, ZenonT(30)
      <4>3. QED
        BY <4>1, <4>2, ZenonT(30)
    <3> DEFINE ts == format_host_port(a.rest, "53")
    <3>3. "53" \in U16
      BY DEF U16
    <3>4. ts \in Seq(Token) /\ ts[Len(ts)] = "53"
      BY <1>1, <3>3, Formatted, ZenonT(30)
    <3>5. a.rest \in SocketHosts(ts)
      BY <1>1, <3>1, <3>3, SocketHostsHave, ZenonT(30)
    <3>6. \A h \in SocketHosts(ts) : h = a.rest
      BY <1>1, <3>1, <3>3, <3>4, SocketHostsOf, LiteralsApart, SMTT(30)
    <3> HIDE DEF ts
    <3>7. parse_udp(ts) = Parsed("udp", a.rest, "53")
      <4>1. (CHOOSE h \in SocketHosts(ts) : TRUE) = a.rest
        BY <3>5, <3>6, ZenonT(30)
      <4>2. QED
        BY <3>4, <3>5, <4>1, ZenonT(30) DEF parse_udp
    <3>8. QED
      BY <2>2, <3>1, <3>2, <3>7, ZenonT(30) DEF ts
  <2>6. QED
    BY <2>4, <2>5
<1>4. CASE a.scheme \notin {"", "udp", "tcp", "tls", "quic"}
  BY <1>4, ParsesOther, ZenonT(30)
<1>5. QED
  BY <1>2, <1>3, <1>4, ZenonT(30)

\* The lines a command line gives.
TypedLines ==
  /\ args.upstreams \in Seq(Seq(Line)) /\ args.upstream_file \in Seq(Seq(Line))
  /\ args.private_upstream \in Seq(Seq(Addresses)) /\ Len(args.private_upstream) <= 1

LEMMA FlatType ==
  ASSUME NEW text \in Seq(Seq(Line))
  PROVE  Flat(text) \in Seq(Line)
<1>1. CASE text = <<>>
  BY <1>1 DEF Flat
<1>2. CASE text # <<>>
  <2>1. 1 \in DOMAIN text
    BY <1>2, EmptySeq
  <2>2. QED
    BY <1>2, <2>1 DEF Flat
<1>3. QED
  BY <1>1, <1>2

\* The lines main collects are lines, whatever the arguments.
LEMMA CollectedType ==
  ASSUME TypedLines
  PROVE  AllLines \in Seq(Line)
<1> DEFINE n == Len(args.private_upstream)
           private == [i \in 1..n |-> private_upstream_line(args.private_upstream[i])]
<1>1. n \in Nat /\ DOMAIN args.private_upstream = 1..n
  BY SMTT(30) DEF TypedLines
<1>2. ASSUME NEW i \in 1..n PROVE private_upstream_line(args.private_upstream[i]) \in Line
  <2>1. args.private_upstream[i] \in Seq(Addresses)
    BY <1>1, SMTT(30) DEF TypedLines
  <2>2. Zones \in Seq(Domain) /\ Zones # <<>>
    BY StartupAssumption, ZenonT(30)
  <2> DEFINE ups == args.private_upstream[i]
             l   == private_upstream_line(ups)
  <2> HIDE DEF ups
  <2>3. /\ l \in [skip : BOOLEAN, bracket : BOOLEAN, closed : BOOLEAN,
                  hosts : Seq(Domain), ups : Seq(Addresses)]
        /\ l.bracket = TRUE /\ l.hosts = Zones
    BY <2>1, <2>2, SMTT(30) DEF private_upstream_line, ups
  <2> HIDE DEF l
  <2>4. l \in Line
    BY <2>2, <2>3, ZenonT(30) DEF Line
  <2>5. QED
    BY <2>4 DEF l, ups
<1>3. private \in Seq(Line)
  BY <1>1, <1>2, SeqDef, SMTT(30)
<1>5. Flat(args.upstreams) \in Seq(Line) /\ Flat(args.upstream_file) \in Seq(Line)
  BY FlatType, SMTT(30) DEF TypedLines
<1>6. AllLines = private \o Flat(args.upstreams) \o Flat(args.upstream_file)
  BY <1>1 DEF AllLines
<1> HIDE DEF private
<1>7. QED
  BY <1>3, <1>5, <1>6, SMTT(30)

\* A step of the start is a step of main that does not touch the rules, or the
\* one that collects them, or one of the parser or of a lookup.
LEMMA StartupSteps ==
  ASSUME [StartupNext]_allVars
  PROVE  CollectLines \/ Parse \/ Lookup \/ UNCHANGED config
<1>1. CASE UNCHANGED allVars
  BY <1>1, ZenonT(30) DEF allVars
<1>2. CASE Main
  BY <1>2, ZenonT(30) DEF Main, GenerateConfig, Bootstraps, CollectFails, Rejected, Credentials,
                          CacheOptions, Bind, NextListener, Run
<1>3. CASE ParseStep \/ LookupStep
  BY <1>3, ZenonT(30) DEF ParseStep, LookupStep
<1>4. QED
  BY <1>1, <1>2, <1>3, ZenonT(30) DEF StartupNext

\* The lines are lines of the command line and the files, and upstreams are
\* built only for the addresses these name.
AInv ==
  /\ TypedLines
  /\ lines \in Seq(Line) /\ idx \in Nat \ {0} /\ upos \in Nat \ {0}
  /\ upstream_index \subseteq Addresses

LEMMA InitAddresses == StartupInit => AInv
<1> SUFFICES ASSUME StartupInit PROVE AInv
  OBVIOUS
<1>1. TypedLines
  BY StartupAssumption, SMTT(30) DEF StartupInit, TypedLines
<1>2. lines = <<>> /\ idx = 1 /\ upos = 1 /\ upstream_index = {}
  BY SMTT(30) DEF StartupInit, Fresh
<1>3. QED
  BY <1>1, <1>2 DEF AInv

LEMMA AddressesStep == AInv /\ [StartupNext]_allVars => AInv'
<1> SUFFICES ASSUME AInv, [StartupNext]_allVars PROVE AInv'
  BY SMTT(30)
<1>1. args' = args
  BY ZenonT(30)
  DEF StartupNext, Main, ParseStep, LookupStep, allVars, given, GenerateConfig, Bootstraps,
      CollectFails, CollectLines, Rejected, Credentials, CacheOptions, Bind, NextListener, Run
<1>2. TypedLines'
  BY <1>1 DEF AInv, TypedLines
<1>3. CASE CollectLines
  <2>1. lines' = AllLines /\ UNCHANGED <<idx, upos, upstream_index>>
    BY <1>3, SMTT(30) DEF CollectLines
  <2>2. QED
    BY <1>2, <2>1, CollectedType DEF AInv
<1>4. CASE ParseUpstream
  <2>1. /\ upstream_index' = upstream_index \cup {Current.ups[upos]}
        /\ idx <= Len(lines) /\ upos <= Len(Current.ups)
        /\ lines' = lines /\ idx' = idx /\ upos' = upos + 1
    BY <1>4, SMTT(30) DEF ParseUpstream
  <2>2. Current \in Line
    BY <2>1, SMTT(30) DEF AInv, Current
  <2>3. Current.ups \in Seq(Addresses)
    BY <2>2 DEF Line
  <2>4. upos \in 1..Len(Current.ups)
    BY <2>1, <2>3, SMTT(30) DEF AInv
  <2>5. QED
    BY <1>2, <2>1, <2>3, <2>4, SMTT(30) DEF AInv
<1>5. CASE Parse /\ ~ParseUpstream
  <2>1. lines' = lines /\ upstream_index' = upstream_index
    BY <1>5, ZenonT(30) DEF Parse, SkipLine, BadLine, EndOfLine, LineDone, BadUpstream, ParseEnd
  <2>2. idx' \in Nat \ {0} /\ upos' \in Nat \ {0}
    <3>1. \/ idx' = idx + 1 /\ upos' = 1
          \/ idx' = idx /\ upos' = upos + 1
          \/ idx' = idx /\ upos' = upos
      BY <1>5, ZenonT(30) DEF Parse, SkipLine, BadLine, EndOfLine, LineDone, NextLine, BadUpstream, ParseEnd
    <3>2. idx \in Nat \ {0} /\ upos \in Nat \ {0}
      BY DEF AInv
    <3>3. QED
      BY <3>1, <3>2
  <2>3. QED
    BY <1>2, <2>1, <2>2, SMTT(30) DEF AInv
<1>6. CASE Lookup \/ UNCHANGED config
  <2>1. UNCHANGED <<lines, idx, upos, upstream_index>>
    BY <1>6, SMTT(30) DEF config, Lookup, LookupBegin, LookupHit, LookupStrip, LookupFail
  <2>2. QED
    BY <1>2, <2>1 DEF AInv
<1>7. QED
  BY <1>3, <1>4, <1>5, <1>6, StartupSteps

(***************************************************************************)
(* The address an upstream shows parses back to the same upstream, whatever *)
(* tokens the addresses of the command line and the files are made of.      *)
(***************************************************************************)
THEOREM AddressesSurvive == StartupSpec => []AddressesParseBack
<1>1. AInv => AddressesParseBack
  <2> SUFFICES ASSUME AInv, NEW a \in upstream_index,
                      parse_any_upstream(a).kind \in {"udp", "tcp", "tls", "quic"},
                      Proper(parse_any_upstream(a).host)
               PROVE  parse_any_upstream(Address(parse_any_upstream(a))) = parse_any_upstream(a)
    BY ZenonT(30) DEF AddressesParseBack
  <2>1. a.rest \in Seq(STRING)
    <3>1. a \in [scheme : STRING, rest : Seq(STRING)]
      BY ConfigAssumption, SMTT(30) DEF AInv
    <3>2. QED
      BY <3>1
  <2>2. QED
    BY <2>1, ParsesBack, SMTT(30)
<1>2. QED
  BY <1>1, InitAddresses, AddressesStep, PTL DEF StartupSpec

=============================================================================
