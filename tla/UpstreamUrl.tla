---------------------------- MODULE UpstreamUrl ----------------------------
(***************************************************************************)
(* src/src/client/upstream_url.rs: from an upstream's address as written to *)
(* the upstream that is built for it, and format_host_port of wire.rs, by   *)
(* which an upstream shows its address.                                     *)
(*                                                                         *)
(* An address is a scheme ("" without "://") and the tokens that follow it: *)
(* the delimiters the parser looks for, numbers, "v4" for an IPv4 literal,  *)
(* and words.                                                               *)
(***************************************************************************)
EXTENDS Naturals, Sequences, FiniteSets

U16 == {"53", "443", "853"}  \* numbers that fit a port
NoPort == "none"
NoAuth == <<>>
Error == [kind |-> "error", host |-> <<>>, port |-> NoPort, auth |-> NoAuth, h3_only |-> FALSE]

Parsed(kind, host, port) == [Error EXCEPT !.kind = kind, !.host = host, !.port = port]

Where(ts, t) == { i \in DOMAIN ts : ts[i] = t }
Leftmost(S) == CHOOSE i \in S : \A j \in S : i <= j
Rightmost(S) == CHOOSE i \in S : \A j \in S : i >= j
Before(ts, i) == SubSeq(ts, 1, i - 1)
After(ts, i) == SubSeq(ts, i + 1, Len(ts))

\* The standard library's parsers of literals.  The IPv6 literals are the ones
\* with a leading "::".
IsIpv6(ts) ==
  /\ Len(ts) \in {3, 5, 7}
  /\ \A i \in DOMAIN ts : IF i = 1 \/ i % 2 = 0 THEN ts[i] = ":" ELSE ts[i] \in U16

IsIp(ts) == ts = <<"v4">> \/ IsIpv6(ts)

SocketAddrs(host) ==
  { (IF IsIpv6(host) THEN <<"[">> \o host \o <<"]">> ELSE host) \o <<":", p>> : p \in U16 }

----------------------------------------------------------------------------
\* Mutant of format_host_port: never any brackets.
FormatWithoutBrackets(host, port) == host \o <<":", port>>

\* An IPv6 literal is bracketed.
format_host_port(host, port) ==
  IF IsIpv6(host) THEN <<"[">> \o host \o <<"]", ":", port>> ELSE host \o <<":", port>>

\* host[:port] or [host][:port]; more than one colon outside brackets is taken
\* for an IPv6 literal without a port, whatever it is.
split_host_port(kind, ts) ==
  LET colons == Where(ts, ":")
      closes == Where(ts, "]")
  IN
  IF ts # <<>> /\ ts[1] = "["
  THEN IF closes = {} THEN Error
       ELSE LET host == SubSeq(ts, 2, Leftmost(closes) - 1)
                rest == After(ts, Leftmost(closes))
            IN  IF rest = <<>> THEN Parsed(kind, host, NoPort)
                ELSE IF Len(rest) = 2 /\ rest[1] = ":" /\ rest[2] \in U16
                THEN Parsed(kind, host, rest[2])
                ELSE Error
  ELSE IF Cardinality(colons) = 1
  THEN LET port == After(ts, Leftmost(colons)) IN
       IF Len(port) = 1 /\ port[1] \in U16
       THEN Parsed(kind, Before(ts, Leftmost(colons)), port[1])
       ELSE Error
  ELSE Parsed(kind, ts, NoPort)

DefaultPort(kind) == IF kind \in {"udp", "tcp"} THEN "53" ELSE IF kind = "doh" THEN "443" ELSE "853"

\* The upstream's constructor: `port.unwrap_or(..)`.
WithPort(u) ==
  IF u.kind # "error" /\ u.port = NoPort THEN [u EXCEPT !.port = DefaultPort(u.kind)] ELSE u

----------------------------------------------------------------------------
(* DoH: extract_userinfo and parse_upstream *)

\* What comes before the last "@" must be user:pass.
extract_userinfo(ts) ==
  LET ats == Where(ts, "@") IN
  IF ats = {} THEN [ok |-> TRUE, auth |-> NoAuth, rest |-> ts]
  ELSE [ok   |-> Where(Before(ts, Rightmost(ats)), ":") # {},
        auth |-> Before(ts, Rightmost(ats)),
        rest |-> After(ts, Rightmost(ats))]

\* hyper's Uri, for names and IPv4 literals: the authority ends at the first
\* slash, and is a host or host:port.
Authority(ts) == IF Where(ts, "/") = {} THEN ts ELSE Before(ts, Leftmost(Where(ts, "/")))

Uri(ts) ==
  LET auth == Authority(ts) IN
  IF auth # <<>> /\ Where(auth, "[") = {} /\ Cardinality(Where(auth, ":")) <= 1
  THEN split_host_port("doh", auth)
  ELSE Error

parse_upstream(addr) ==
  LET info == extract_userinfo(addr.rest)
      uri  == Uri(info.rest)
  IN
  IF addr.scheme \notin {"https", "h3"} \/ ~info.ok \/ uri = Error THEN Error
  ELSE WithPort([uri EXCEPT !.auth = info.auth, !.h3_only = (addr.scheme = "h3")])

----------------------------------------------------------------------------
\* The literals that, with a port, make up the socket address rest.
SocketHosts(rest) ==
  { h \in { SubSeq(rest, i, j) : i, j \in DOMAIN rest } : IsIp(h) /\ rest \in SocketAddrs(h) }

\* Plain UDP takes only a literal, in a socket address or by itself.
parse_udp(rest) ==
  IF SocketHosts(rest) # {}
  THEN Parsed("udp", CHOOSE h \in SocketHosts(rest) : TRUE, rest[Len(rest)])
  ELSE IF IsIp(rest) THEN Parsed("udp", rest, "53")
  ELSE Error

\* An address without a scheme is one of plain UDP; "sdns" takes a stamp.
parse_any_upstream(addr) ==
  IF addr.scheme \in {"", "udp"} THEN parse_udp(addr.rest)
  ELSE IF addr.scheme \in {"tcp", "tls", "quic"}
  THEN WithPort(split_host_port(addr.scheme, addr.rest))
  ELSE IF addr.scheme = "sdns"
  THEN IF addr.rest = <<"stamp">> THEN Parsed("sdns", addr.rest, NoPort) ELSE Error
  ELSE parse_upstream(addr)

\* `parse_any_upstream(..)` is Ok.
Accepted(addr) == parse_any_upstream(addr).kind # "error"

\* Upstream::address, of the kinds whose address is a host and a port.
Address(u) == [scheme |-> u.kind, rest |-> format_host_port(u.host, u.port)]
=============================================================================
