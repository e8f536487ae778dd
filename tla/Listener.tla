------------------------------ MODULE Listener ------------------------------
(***************************************************************************)
(* The listeners of src/src/listener: plain DNS (io.rs), DNS over TLS       *)
(* (dot.rs), DNSCrypt (dnscrypt.rs), DNS over QUIC (doq.rs) and over HTTPS  *)
(* (doh.rs, doh3.rs).  Every datagram and every stream gets a task of its   *)
(* own; every TCP connection gets one task, which serves its queries one    *)
(* after the other.  The handler (cache, upstreams) answers with a message  *)
(* of some size, fails or, for the queries in Stuck, never returns.  A      *)
(* response is written once the client makes room for it: writes have no    *)
(* timeout, and the clients in Deaf may stop reading.                       *)
(* Listeners share nothing but the handler, so a behaviour is about one.    *)
(***************************************************************************)
EXTENDS Naturals, Sequences

CONSTANTS
  Conns,      \* connections
  Queries,    \* queries; each is sent at most once
  Bad,        \* the ones that do not parse, decrypt or have the right id
  Txt,        \* the ones that ask a DNSCrypt listener for its certificate
  Denied,     \* the ones without the credentials an HTTPS listener asks for
  Stuck,      \* the ones whose handler never returns
  Deaf,       \* the connections whose client may stop reading
  Sizes,      \* the sizes a response may have
  Overhead,   \* what DNSCrypt adds to a response
  UdpMax,     \* UDP_MAX_MSG_SIZE
  PrefixMax   \* the largest length the two-byte prefix can hold

ASSUME ListenerAssumption ==
  /\ Bad \subseteq Queries
  /\ Txt \subseteq Queries
  /\ Denied \subseteq Queries
  /\ Stuck \subseteq Queries
  /\ Deaf \subseteq Conns
  /\ Sizes \subseteq Nat
  /\ Overhead \in Nat
  /\ UdpMax \in Nat
  /\ PrefixMax \in Nat

\* "tcp" stands for TCP and TLS connections.
Datagrams == {"udp", "dnscrypt_udp"}
Streams == {"tcp", "dnscrypt_tcp"}
Multiplexed == {"doq", "doh", "doh3"}

VARIABLES
  proto,    \* the listener
  udp,      \* what has become of each datagram
  pending,  \* the connection's bytes still to be read, query by query
  sent,     \* all the queries the client has written
  eof,      \* whether the client has closed the connection, or its half of it
  status,   \* "reading", "handling" or "writing"; "closed" after the last query,
            \* "failed" after an error
  out,      \* the queries answered, in the order of the answers
  on,       \* the multiplexed connection that carries each query
  stream    \* what has become of the query's stream

tcp == <<pending, sent, status, out>>
mux == <<on, stream>>
vars == <<proto, udp, tcp, eof, mux>>

----------------------------------------------------------------------------
(* UDP: udp_loop and handle_udp_packet, of io.rs and of dnscrypt.rs         *)

SendUdp(q) ==
  /\ proto \in Datagrams
  /\ udp[q] = "unsent"
  /\ udp' = [udp EXCEPT ![q] = "sent"]
  /\ UNCHANGED <<proto, tcp, eof, mux>>

\* The network loses the datagram.
LoseUdp(q) ==
  /\ udp[q] = "sent"
  /\ udp' = [udp EXCEPT ![q] = "lost"]
  /\ UNCHANGED <<proto, tcp, eof, mux>>

\* Mutant of UdpRecv: the loop handles a packet before it receives another.
UdpRecvInline(q) ==
  /\ proto = "udp"
  /\ udp[q] = "sent"
  /\ \A o \in Queries : udp[o] # "handling"
  /\ udp' = [udp EXCEPT ![q] = IF q \in Bad THEN "dropped" ELSE "handling"]
  /\ UNCHANGED <<proto, tcp, eof, mux>>

UdpRecv(q) ==
  /\ proto = "udp"
  /\ udp[q] = "sent"
  /\ udp' = [udp EXCEPT ![q] = IF q \in Bad THEN "dropped" ELSE "handling"]
  /\ UNCHANGED <<proto, tcp, eof, mux>>

\* respond: a query for the certificate is answered without the handler.
DnsCryptRecv(q) ==
  /\ proto = "dnscrypt_udp"
  /\ udp[q] = "sent"
  /\ udp' = [udp EXCEPT ![q] = IF q \in Bad THEN "dropped"
                               ELSE IF q \in Txt THEN "answered" ELSE "handling"]
  /\ UNCHANGED <<proto, tcp, eof, mux>>

\* The handler answers; a response that is too large goes out truncated.
UdpReply(q, size) ==
  /\ proto = "udp"
  /\ udp[q] = "handling"
  /\ q \notin Stuck
  /\ udp' = [udp EXCEPT ![q] = IF size > UdpMax THEN "truncated" ELSE "answered"]
  /\ UNCHANGED <<proto, tcp, eof, mux>>

\* The same, for the encrypted response.
DnsCryptReply(q, size) ==
  /\ proto = "dnscrypt_udp"
  /\ udp[q] = "handling"
  /\ q \notin Stuck
  /\ udp' = [udp EXCEPT ![q] =
               IF size + Overhead > UdpMax THEN "truncated" ELSE "answered"]
  /\ UNCHANGED <<proto, tcp, eof, mux>>

\* The handler, the encoding or the socket fails.
UdpErr(q) ==
  /\ udp[q] = "handling"
  /\ q \notin Stuck
  /\ udp' = [udp EXCEPT ![q] = "dropped"]
  /\ UNCHANGED <<proto, tcp, eof, mux>>

----------------------------------------------------------------------------
(* TCP and TLS: handle_tcp_connection of io.rs and dnscrypt.rs and          *)
(* handle_connection of dot.rs, read_prefixed and write_prefixed            *)

SentOverTcp(q) == \E c \in Conns : \E i \in DOMAIN sent[c] : sent[c][i] = q

\* A client writes a query, before the earlier ones are answered or after.
SendTcp(c, q) ==
  /\ proto \in Streams
  /\ ~eof[c]
  /\ ~SentOverTcp(q)
  /\ status[c] \notin {"closed", "failed"}
  /\ pending' = [pending EXCEPT ![c] = Append(@, q)]
  /\ sent' = [sent EXCEPT ![c] = Append(@, q)]
  /\ UNCHANGED <<proto, udp, eof, status, out, mux>>

\* The client closes its connection, of whichever kind.
Close(c) ==
  /\ proto \notin Datagrams
  /\ ~eof[c]
  /\ eof' = [eof EXCEPT ![c] = TRUE]
  /\ UNCHANGED <<proto, udp, tcp, mux>>

\* The task of the connection goes on, or ends.
Become(c, what) ==
  /\ status' = [status EXCEPT ![c] = what]
  /\ UNCHANGED <<proto, udp, pending, sent, eof, out, mux>>

HasQuery(c) == status[c] = "reading" /\ pending[c] # <<>>

\* read_prefixed and from_bytes: a message that does not parse ends the task.
TcpRead(c) ==
  /\ proto = "tcp"
  /\ HasQuery(c)
  /\ Become(c, IF Head(pending[c]) \in Bad THEN "failed" ELSE "handling")

\* respond, as over UDP.
DnsCryptRead(c) ==
  /\ proto = "dnscrypt_tcp"
  /\ HasQuery(c)
  /\ Become(c, IF Head(pending[c]) \in Bad THEN "failed"
               ELSE IF Head(pending[c]) \in Txt THEN "writing" ELSE "handling")

\* Mutant of TcpEof: the task ends as soon as its client has closed its half.
TcpEofEarly(c) ==
  /\ status[c] = "reading"
  /\ eof[c]
  /\ Become(c, "closed")

\* read_prefixed fails at the end of the stream, which comes after the queries
\* written before it.
TcpEof(c) ==
  /\ status[c] = "reading"
  /\ pending[c] = <<>>
  /\ eof[c]
  /\ Become(c, "closed")

\* read_prefixed fails because the connection has broken.
TcpBroken(c) ==
  /\ proto \in Streams
  /\ status[c] = "reading"
  /\ Become(c, "failed")

Handled(c) == status[c] = "handling" /\ Head(pending[c]) \notin Stuck

\* The handler answers; write_prefixed refuses what its prefix cannot hold.
TcpReply(c, size) ==
  /\ proto = "tcp"
  /\ Handled(c)
  /\ Become(c, IF size > PrefixMax THEN "failed" ELSE "writing")

DnsCryptTcpReply(c, size) ==
  /\ proto = "dnscrypt_tcp"
  /\ Handled(c)
  /\ Become(c, IF size + Overhead > PrefixMax THEN "failed" ELSE "writing")

\* Mutant of TcpErr: the query is handled again.
TcpErrRepeats(c) == Handled(c) /\ Become(c, "reading")

\* The handler or the encoding fails: `?` ends the connection.
TcpErr(c) == Handled(c) /\ Become(c, "failed")

\* write_all ends, and the loop goes on to the next query.
TcpWritten(c) ==
  /\ status[c] = "writing"
  /\ status' = [status EXCEPT ![c] = "reading"]
  /\ out' = [out EXCEPT ![c] = Append(@, Head(pending[c]))]
  /\ pending' = [pending EXCEPT ![c] = Tail(@)]
  /\ UNCHANGED <<proto, udp, sent, eof, mux>>

TcpWriteErr(c) == status[c] = "writing" /\ Become(c, "failed")

----------------------------------------------------------------------------
(* Multiplexed connections: a QUIC stream, or an HTTP/2 or HTTP/3 request,  *)
(* for each query                                                           *)

OpenStream(c, q) ==
  /\ proto \in Multiplexed
  /\ ~eof[c]
  /\ stream[q] = "unsent"
  /\ stream' = [stream EXCEPT ![q] = "open"]
  /\ on' = [on EXCEPT ![q] = c]
  /\ UNCHANGED <<proto, udp, tcp, eof>>

\* The stream ends as said, or is lost with its connection.
StreamTo(q, end) ==
  /\ stream' = [stream EXCEPT ![q] = IF eof[on[q]] THEN "reset" ELSE end]
  /\ UNCHANGED <<proto, udp, tcp, eof, on>>

StreamHandled(q) == stream[q] = "handling" /\ q \notin Stuck

\* connection_loop accepts the stream and handle_stream reads the query.
DoqAccept(q) ==
  /\ proto = "doq"
  /\ stream[q] = "open"
  /\ StreamTo(q, IF q \in Bad THEN "reset" ELSE "handling")

DoqReply(q, size) ==
  /\ proto = "doq"
  /\ StreamHandled(q)
  /\ StreamTo(q, IF size > PrefixMax THEN "reset" ELSE "answered")

\* handle_request_inner: an error of any kind becomes a status.
DohAccept(q) ==
  /\ proto = "doh"
  /\ stream[q] = "open"
  /\ StreamTo(q, IF q \in Denied \cup Bad THEN "refused" ELSE "handling")

DohReply(q) ==
  /\ proto = "doh"
  /\ StreamHandled(q)
  /\ StreamTo(q, "answered")

\* Mutant of DohErr: the error ends the request without a response.
DohErrSilent(q) ==
  /\ proto = "doh"
  /\ StreamHandled(q)
  /\ StreamTo(q, "reset")

DohErr(q) ==
  /\ proto = "doh"
  /\ StreamHandled(q)
  /\ StreamTo(q, "refused")

\* Over HTTP/3 what does not decode is refused with a status, a body that is
\* too long without one.
Doh3Accept(q) ==
  /\ proto = "doh3"
  /\ stream[q] = "open"
  /\ \/ q \in Denied \cup Bad /\ StreamTo(q, "refused")
     \/ q \in Bad \ Denied /\ StreamTo(q, "reset")
     \/ q \notin Denied \cup Bad /\ StreamTo(q, "handling")

Doh3Reply(q) ==
  /\ proto = "doh3"
  /\ StreamHandled(q)
  /\ StreamTo(q, "answered")

\* The handler fails: over QUIC and HTTP/3 the task ends without a response.
StreamErr(q) ==
  /\ proto \in {"doq", "doh3"}
  /\ StreamHandled(q)
  /\ StreamTo(q, "reset")

----------------------------------------------------------------------------
Init ==
  /\ proto \in Datagrams \cup Streams \cup Multiplexed
  /\ udp = [q \in Queries |-> "unsent"]
  /\ pending = [c \in Conns |-> <<>>]
  /\ sent = [c \in Conns |-> <<>>]
  /\ eof = [c \in Conns |-> FALSE]
  /\ status = [c \in Conns |-> "reading"]
  /\ out = [c \in Conns |-> <<>>]
  /\ on = [q \in Queries |-> CHOOSE c \in Conns : TRUE]
  /\ stream = [q \in Queries |-> "unsent"]

UdpAccepted(q) == UdpRecv(q) \/ DnsCryptRecv(q)

UdpHandled(q) ==
  UdpErr(q) \/ \E s \in Sizes : UdpReply(q, s) \/ DnsCryptReply(q, s)

TcpAccepted(c) == TcpRead(c) \/ DnsCryptRead(c) \/ TcpEof(c)

TcpHandled(c) ==
  TcpErr(c) \/ \E s \in Sizes : TcpReply(c, s) \/ DnsCryptTcpReply(c, s)

TcpWrites(c) == TcpWritten(c) \/ TcpWriteErr(c)

StreamAccepted(q) == DoqAccept(q) \/ DohAccept(q) \/ Doh3Accept(q)

StreamDone(q) ==
  \/ \E s \in Sizes : DoqReply(q, s)
  \/ DohReply(q) \/ DohErr(q) \/ Doh3Reply(q) \/ StreamErr(q)

Next ==
  \/ \E q \in Queries : SendUdp(q) \/ LoseUdp(q) \/ UdpAccepted(q) \/ UdpHandled(q)
  \/ \E c \in Conns, q \in Queries : SendTcp(c, q) \/ OpenStream(c, q)
  \/ \E c \in Conns : Close(c) \/ TcpAccepted(c) \/ TcpBroken(c) \/ TcpHandled(c) \/ TcpWrites(c)
  \/ \E q \in Queries : StreamAccepted(q) \/ StreamDone(q)

Spec == Init /\ [][Next]_vars

\* The runtime keeps polling the loops and the tasks, and a handler that is
\* not stuck returns.  Clients and the network owe nothing, except that the
\* clients not in Deaf read what is sent to them.
FairSpec ==
  /\ Spec
  /\ \A q \in Queries : WF_vars(UdpAccepted(q)) /\ WF_vars(UdpHandled(q))
  /\ \A c \in Conns : WF_vars(TcpAccepted(c)) /\ WF_vars(TcpHandled(c))
  /\ \A c \in Conns \ Deaf : WF_vars(TcpWrites(c))
  /\ \A q \in Queries : /\ WF_vars(StreamAccepted(q))
                        /\ WF_vars(on[q] \notin Deaf /\ StreamDone(q))

----------------------------------------------------------------------------
\* A client may close its half of the connection right after its last query
\* (a shell's netcat does): handle_tcp_connection and handle_connection still
\* answer everything it wrote, and a task that ends without an error has
\* left no query out, whatever was read, handled or being written then.
HalfClosedIsServed == \A c \in Conns : status[c] = "closed" => out[c] = sent[c]

\* udp_loop spawns a task for each packet: a query whose handler never returns
\* keeps no other datagram from being answered or dropped.
UdpIsolated ==
  \A q \in Queries \ Stuck :
    udp[q] = "sent" ~> udp[q] \in {"lost", "dropped", "truncated", "answered"}

\* Nothing a client writes waits for ever on a connection whose client reads
\* its answers: all of it is answered, or all before a query whose handler is
\* stuck, or an error has ended the connection and the queries behind it (which
\* is more than the dropped query of io.rs:23-25).  Connections with stuck
\* handlers and with clients that do not read hold up no other.
ConnectionServed ==
  \A c \in Conns \ Deaf :
    pending[c] # <<>> ~> \/ pending[c] = <<>> /\ out[c] = sent[c]
                         \/ status[c] = "failed"
                         \/ pending[c] # <<>> /\ Head(pending[c]) \in Stuck

\* connection_loop and hyper run each request as a task: every stream whose
\* handler returns comes to its end beside stuck and failing ones, and an HTTPS
\* client that stays connected and reads is always sent a status
\* (handle_request).
StreamServed ==
  \A q \in Queries \ Stuck :
    stream[q] = "open" ~> \/ on[q] \in Deaf
                          \/ stream[q] \in {"answered", "refused"}
                          \/ stream[q] = "reset" /\ (proto # "doh" \/ eof[on[q]])
=============================================================================
