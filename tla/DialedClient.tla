---------------------------- MODULE DialedClient ----------------------------
(***************************************************************************)
(* The clients that open a connection for each exchange and close it after: *)
(* DNS over TLS (src/src/client/dot.rs), plain TCP (plain_tcp.rs) and plain *)
(* UDP (plain_udp.rs).  The first two resolve and dial through Bootstrap;   *)
(* the steps of one exchange run under one timeout.  The fourth client,     *)
(* "kept", is any that keeps the dial handler and calls it again, as        *)
(* DohUpstream's connector does.                                            *)
(***************************************************************************)
EXTENDS Bootstrap

CONSTANT Silent  \* the addresses that leave a connection attempt unanswered

ASSUME DialedClientAssumption == Silent \subseteq Addrs

VARIABLES
  client,  \* "tls", "tcp", "udp" or "kept"
  fits,    \* whether the query can be packed, and framed where it is framed
  stage,   \* where `exchange` is
  returned   \* what it returned

io == <<client, fits, stage, returned>>
allVars == <<dialVars, io>>

OneShot == {"tls", "tcp", "udp"}

To(s) ==
  /\ stage' = s
  /\ UNCHANGED <<dialVars, client, fits, returned>>

Finish(r) ==
  /\ stage' = "done"
  /\ returned' = r
  /\ UNCHANGED <<dialVars, client, fits>>

\* The query is packed and, for a stream, its length checked.
Exchange ==
  /\ stage = "start"
  /\ IF ~fits THEN Finish("error") ELSE To(IF client = "udp" THEN "write" ELSE "dial")

\* The steps of resolve_dial_context and of the handler it returns, which a
\* client of one exchange calls once.
Resolve ==
  /\ stage = "dial"
  /\ \/ \E a \in Addrs : ResolveLiteral(a)
     \/ StartLookup
     \/ \E r \in Resolvers, t \in Types : QueryEnds(r, t)
     \/ \E r \in Resolvers : Poll(r)
     \/ LookupTimeout
  /\ UNCHANGED io

CallHandler ==
  /\ stage = "dial"
  /\ client \in OneShot => dials = 0
  /\ Dial
  /\ UNCHANGED io

Answered ==
  /\ stage = "dial"
  /\ left # <<>> /\ Head(left) \notin Silent
  /\ ConnectOk \/ ConnectErr
  /\ UNCHANGED io

\* A silent address is given up after the timeout.  The timeout of a one-shot
\* exchange is as long and began earlier, so that it ends first.
DialTimeout ==
  /\ stage = "dial"
  /\ timeout /\ client = "kept"
  /\ left # <<>> /\ Head(left) \in Silent
  /\ ConnectErr
  /\ UNCHANGED io

Connected ==
  /\ stage = "dial" /\ client \in OneShot
  /\ dialer = "connected"
  /\ To(IF client = "tls" THEN "handshake" ELSE "write")

NotConnected ==
  /\ stage = "dial" /\ client \in OneShot
  /\ dialer = "failed" \/ (dialer = "ready" /\ dials > 0)
  /\ Finish("error")

\* The name is no server name, or the handshake fails, or not.
Handshake ==
  /\ stage = "handshake"
  /\ To("write") \/ Finish("error")

\* Over UDP, bind and connect are part of this step.
Write ==
  /\ stage = "write"
  /\ To(IF client = "udp" THEN "body" ELSE "length") \/ Finish("error")

ReadLength ==
  /\ stage = "length"
  /\ To("body") \/ Finish("error")

\* The body, or the one datagram that is waited for, parses and passes
\* validate_response, or not; comparing with no question panics.
ReadBody ==
  /\ stage = "body"
  /\ Finish("ok") \/ Finish("error") \/ Finish("panic")

InTime == timeout /\ client \in OneShot /\ stage \notin {"start", "done"}

\* Mutant of TimedOut: the answer's body is read outside the timeout.
TimedOutBeforeBody == InTime /\ stage # "body" /\ Finish("timeout")

\* `tokio::time::timeout` drops the exchange wherever it is.
TimedOut == InTime /\ Finish("timeout")

----------------------------------------------------------------------------
ClientInit ==
  /\ DialInit
  /\ client \in OneShot \cup {"kept"}
  /\ fits \in BOOLEAN
  /\ stage = "start"
  /\ returned = "none"

Local == Exchange \/ CallHandler \/ Connected \/ NotConnected

ClientNext ==
  \/ Exchange \/ Resolve \/ CallHandler \/ Answered \/ DialTimeout \/ Connected \/ NotConnected
  \/ Handshake \/ Write \/ ReadLength \/ ReadBody \/ TimedOut

ClientSpec == ClientInit /\ [][ClientNext]_allVars

\* The task is polled and timers fire.  Of the network only the good resolvers
\* owe an answer; a lookup that has ended is polled.
FairClientSpec ==
  /\ ClientSpec
  /\ WF_allVars(Local)
  /\ WF_allVars(TimedOut)
  /\ \A r \in Resolvers : WF_allVars(stage = "dial" /\ Poll(r) /\ UNCHANGED io)
  /\ \A r \in Resolvers, t \in Types :
       WF_allVars(stage = "dial" /\ r \in good /\ QueryEnds(r, t) /\ UNCHANGED io)

----------------------------------------------------------------------------
\* With a timeout set, an exchange over TLS, TCP or UDP ends whatever the
\* resolvers and the server leave unanswered: the lookup, every dial, the
\* handshake, the length, the body.
ExchangeEnds == (timeout /\ client \in OneShot) ~> stage = "done"

\* Queries all resolvers concurrently (ParallelResolver): one good resolver is
\* enough, although the others may never answer and no timeout is set.
OneResolverSuffices ==
  (stage = "dial" /\ dialer = "resolving" /\ good # {} /\ ~timeout) ~> dialer = "ready"
=============================================================================
