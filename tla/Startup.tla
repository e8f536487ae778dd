------------------------------ MODULE Startup ------------------------------
(***************************************************************************)
(* main of src/src/main.rs: from the arguments to the running proxy.  The   *)
(* rules are collected and parsed (UpstreamConfig), then the listeners are  *)
(* bound one socket after the other, while the ones that are bound already  *)
(* answer queries.  An error at any point ends the process and with it      *)
(* everything that was bound.                                               *)
(***************************************************************************)
EXTENDS UpstreamConfig

CONSTANTS
  Zones,   \* PRIVATE_REVERSE_ZONES
  Starts   \* the command lines, each with a system it is started on

VARIABLES
  args,      \* the arguments
  platform,  \* how the system treats sockets
  taken,     \* the sockets other processes hold
  stage,     \* where main is
  queue,     \* the sockets the listener being started has still to bind
  held,      \* the sockets bound
  refused    \* the socket that could not be bound

given == <<args, platform, taken>>
main == <<stage, queue, held, refused>>
allVars == <<config, given, main>>

Addr == [ip : {"lo4", "any4", "any6"}, port : Nat]

\* A --*-listen flag, and the --*-port flag that conflicts with it (0 without).
Flag == [listen : Seq(Addr), port : Nat]

\* --private-upstream is given at most once.
ASSUME StartupAssumption ==
  /\ Zones \in Seq(Domain) /\ Zones # <<>>
  /\ \A s \in Starts :
       /\ s.args.upstreams \in Seq(Seq(Line)) /\ s.args.upstream_file \in Seq(Seq(Line))
       /\ s.args.private_upstream \in Seq(Seq(Addresses)) /\ Len(s.args.private_upstream) <= 1
       /\ {s.args.plain, s.args.quic, s.args.tls, s.args.https, s.args.dnscrypt} \subseteq Flag

\* private_upstream_line: one rule for all the zones.
private_upstream_line(ups) ==
  [skip |-> FALSE, bracket |-> TRUE, closed |-> TRUE, hosts |-> Zones, ups |-> ups]

\* --bootstrap: a DoH URL with a literal host, or a literal address.
parse_bootstrap(a) ==
  IF a.scheme # "" THEN parse_upstream(a).kind = "doh" /\ IsIp(parse_upstream(a).host)
  ELSE parse_any_upstream(a).kind = "udp"

----------------------------------------------------------------------------
(* The sockets *)

Wildcards == <<"any4", "any6">>

\* A --*-port flag stands for the two wildcard addresses.
expand_listen(flag) ==
  IF flag.port # 0
  THEN [i \in DOMAIN Wildcards |-> [ip |-> Wildcards[i], port |-> flag.port]]
  ELSE flag.listen

secure_listener_enabled(a) ==
  \E f \in {a.quic, a.tls, a.https, a.dnscrypt} : expand_listen(f) # <<>>

listen_addrs(a) ==
  IF expand_listen(a.plain) # <<>> THEN expand_listen(a.plain)
  ELSE IF secure_listener_enabled(a) THEN <<>>
  ELSE << [ip |-> "lo4", port |-> 53] >>

IsV6(ip) == ip = "any6"

\* Mutant of new_socket: IPV6_V6ONLY is left to the system's default.
NewSocketDual(by, proto, addr) ==
  [by |-> by, proto |-> proto, addr |-> addr, v6only |-> FALSE, reuse |-> TRUE]

\* new_socket of io.rs: SO_REUSEADDR, and IPV6_V6ONLY for IPv6.
new_socket(by, proto, addr) ==
  [by |-> by, proto |-> proto, addr |-> addr, v6only |-> IsV6(addr.ip), reuse |-> TRUE]

\* quinn::Endpoint::server binds a plain UDP socket.
quinn_socket(by, addr) ==
  [by |-> by, proto |-> "udp", addr |-> addr, v6only |-> FALSE, reuse |-> FALSE]

\* Whether a socket receives what is sent to addresses of the family.
Takes(s, ip) ==
  \/ s.addr.ip = ip
  \/ s.addr.ip = "any4" /\ ~IsV6(ip)
  \/ s.addr.ip = "any6" /\ (IsV6(ip) \/ (platform.dual /\ ~s.v6only))

Overlap(s, t) ==
  /\ s.proto = t.proto /\ s.addr.port = t.addr.port
  /\ Takes(s, t.addr.ip) \/ Takes(t, s.addr.ip)

\* Two UDP sockets may share an address if both set SO_REUSEADDR and the system
\* is one that lets them.  Two listening TCP sockets may not: an assumption about
\* the system, true of the Unix ones.
Shareable(s, t) == s.proto = "udp" /\ s.reuse /\ t.reuse /\ platform.shares

Blocked(s) == \E t \in held \cup taken : Overlap(s, t) /\ ~Shareable(s, t)

\* One socket for each address.
SocketsAt(by, proto, addrs) == [i \in DOMAIN addrs |-> new_socket(by, proto, addrs[i])]

EndpointsAt(by, addrs) == [i \in DOMAIN addrs |-> quinn_socket(by, addrs[i])]

\* serve of io.rs binds UDP, then TCP, at each address.
PlainSockets(addrs) ==
  [i \in 1..(2 * Len(addrs)) |->
     new_socket("plain", IF i % 2 = 1 THEN "udp" ELSE "tcp", addrs[(i + 1) \div 2])]

\* Mutant of DnsCryptSockets: no TCP addresses are passed to serve_all.
DnsCryptUdpOnly(addrs) == SocketsAt("dnscrypt", "udp", addrs)

\* serve_all of dnscrypt.rs binds UDP at all the addresses, then TCP.
DnsCryptSockets(addrs) ==
  SocketsAt("dnscrypt", "udp", addrs) \o SocketsAt("dnscrypt", "tcp", addrs)

\* The sockets each listener binds, in the order of its serve_all.
Sockets(a, by) ==
  CASE by = "plain"    -> PlainSockets(listen_addrs(a))
    [] by = "quic"     -> EndpointsAt(by, expand_listen(a.quic))
    [] by = "tls"      -> SocketsAt(by, "tcp", expand_listen(a.tls))
    [] by = "https"    -> SocketsAt(by, "tcp", expand_listen(a.https))
    [] by = "h3"       -> EndpointsAt(by, expand_listen(a.https))
    [] by = "dnscrypt" -> DnsCryptSockets(expand_listen(a.dnscrypt))

\* The order in which main starts them.
Listeners == <<"plain", "quic", "tls", "https", "h3", "dnscrypt">>

Requested(a) ==
  UNION { { Sockets(a, Listeners[i])[j] : j \in DOMAIN Sockets(a, Listeners[i]) }
            : i \in DOMAIN Listeners }

NoSocket == [by |-> "", proto |-> "", addr |-> [ip |-> "", port |-> 0],
             v6only |-> FALSE, reuse |-> FALSE]

----------------------------------------------------------------------------
(* main *)

\* The process ends, and the system closes its sockets.
Exit ==
  /\ stage' = "exited"
  /\ queue' = <<>>
  /\ held' = {}

GoTo(s) ==
  /\ stage' = s
  /\ UNCHANGED <<queue, held>>

\* --dnscrypt-generate-config writes a file, or fails to, and that is all.
GenerateConfig ==
  /\ stage = "args" /\ args.generate
  /\ Exit
  /\ UNCHANGED <<config, given, refused>>

\* Every --bootstrap must parse.
Bootstraps ==
  /\ stage = "args" /\ ~args.generate
  /\ IF \A i \in DOMAIN args.bootstrap : parse_bootstrap(args.bootstrap[i])
     THEN GoTo("collect") ELSE Exit
  /\ UNCHANGED <<config, given, refused>>

\* The lines of an optional text.
Flat(text) == IF text = <<>> THEN <<>> ELSE text[1]

\* The private rule, then the arguments, then the file.
AllLines ==
  [i \in DOMAIN args.private_upstream |-> private_upstream_line(args.private_upstream[i])]
    \o Flat(args.upstreams) \o Flat(args.upstream_file)

\* At least one source of rules is required, and a file, --upstream may name
\* one as well, may be unreadable.
CollectFails ==
  /\ stage = "collect"
  /\ Exit
  /\ UNCHANGED <<config, given, refused>>

CollectLines ==
  /\ stage = "collect"
  /\ args.upstreams # <<>> \/ args.upstream_file # <<>>
  /\ lines' = AllLines
  /\ phase' = "parse"
  /\ GoTo("parse")
  /\ UNCHANGED <<idx, upos, upstream_index, domain_upstreams, default_upstreams, errors,
                 looking, name, at, target, given, refused>>

ParseStep == stage = "parse" /\ Parse /\ UNCHANGED <<given, main>>

\* Any error in the rules ends the process.
Rejected ==
  /\ stage = "parse" /\ phase = "rejected"
  /\ Exit
  /\ UNCHANGED <<config, given, refused>>

\* parse_pair needs user:password with a user; the file may be unreadable.
Credentials ==
  /\ stage = "parse" /\ phase = "serve"
  /\ \/ (\A i \in DOMAIN args.doh_auth : args.doh_auth[i] = "pair") /\ GoTo("cache")
     \/ (\E i \in DOMAIN args.doh_auth : args.doh_auth[i] # "pair") /\ Exit
     \/ args.doh_auth_file /\ Exit
  /\ UNCHANGED <<config, given, refused>>

Start(by) ==
  /\ stage' = by
  /\ queue' = Sockets(args, by)
  /\ UNCHANGED held

CacheOptions ==
  /\ stage = "cache"
  /\ IF args.cache /\ args.cache_size = 0 THEN Exit ELSE Start("plain")
  /\ UNCHANGED <<config, given, refused>>

\* Mutant of Bind: a socket that cannot be bound is skipped.
BindSkips ==
  /\ queue # <<>>
  /\ stage' = stage
  /\ queue' = Tail(queue)
  /\ held' = IF Blocked(Head(queue)) THEN held ELSE held \cup {Head(queue)}
  /\ UNCHANGED <<config, given, refused>>

\* serve_all binds the next socket and spawns its loop, or main returns.
Bind ==
  /\ queue # <<>>
  /\ IF Blocked(Head(queue))
     THEN Exit /\ refused' = Head(queue)
     ELSE /\ held' = held \cup {Head(queue)}
          /\ queue' = Tail(queue)
          /\ UNCHANGED <<stage, refused>>
  /\ UNCHANGED <<config, given>>

\* What a listener needs besides its addresses.
Equipped(by) ==
  CASE by = "quic" ->
         args.tls_cert \/ \A f \in {args.quic, args.tls, args.https} : expand_listen(f) = <<>>
    [] by = "dnscrypt" -> args.dnscrypt_config \/ expand_listen(args.dnscrypt) = <<>>
    [] OTHER -> TRUE

\* main goes on to the next listener; loading what it needs may fail.
NextListener ==
  /\ queue = <<>>
  /\ \E i \in 1..(Len(Listeners) - 1) :
       LET next == Listeners[i + 1] IN
       /\ stage = Listeners[i]
       /\ \/ Equipped(next) /\ Start(next)
          \/ (~Equipped(next) \/ Sockets(args, next) # <<>>) /\ Exit
  /\ UNCHANGED <<config, given, refused>>

Run ==
  /\ stage = Listeners[Len(Listeners)] /\ queue = <<>>
  /\ GoTo("running")
  /\ UNCHANGED <<config, given, refused>>

\* The loops of what is bound answer queries from now on.
LookupStep ==
  /\ \E s \in held : s.by # "plain" \/ s.proto = "tcp"
  /\ Lookup
  /\ UNCHANGED <<given, main>>

----------------------------------------------------------------------------
StartupInit ==
  /\ lines = <<>>
  /\ phase = "start"
  /\ Fresh
  /\ \E s \in Starts : args = s.args /\ platform = s.platform /\ taken = s.taken
  /\ stage = "args"
  /\ queue = <<>>
  /\ held = {}
  /\ refused = NoSocket

Main ==
  \/ GenerateConfig \/ Bootstraps \/ CollectFails \/ CollectLines \/ Rejected
  \/ Credentials \/ CacheOptions \/ Bind \/ NextListener \/ Run

StartupNext == Main \/ ParseStep \/ LookupStep

StartupSpec == StartupInit /\ [][StartupNext]_allVars

----------------------------------------------------------------------------
(* Properties *)

(***************************************************************************)
(* Once main waits for ever, every socket that was asked for is bound, and *)
(* there is at least one: no listener is left out silently, whichever are  *)
(* combined (listen_addrs falls back to 127.0.0.1:53 only without others). *)
(***************************************************************************)
AllOrNothing == stage = "running" => held = Requested(args) /\ held # {}

(***************************************************************************)
(* No two sockets of a running proxy receive the same packets.  On systems *)
(* where SO_REUSEADDR lets UDP sockets share an address the second UDP     *)
(* bind goes unnoticed; it is the TCP socket bound at the same address     *)
(* that makes the start fail.                                              *)
(***************************************************************************)
OneListenerPerSocket ==
  stage = "running" => \A s, t \in held : s # t => ~Overlap(s, t)

FlagOf(by) ==
  CASE by = "plain" -> args.plain [] by = "quic" -> args.quic [] by = "tls" -> args.tls
    [] by \in {"https", "h3"} -> args.https [] by = "dnscrypt" -> args.dnscrypt

(***************************************************************************)
(* new_socket makes sockets "so IPv4 and IPv6 wildcard binds don't         *)
(* collide" (io.rs:67-68): one of its sockets that is refused to a --*-port *)
(* flag is in the way of another process or of another listener, never of  *)
(* the flag's own other family, whether or not the system has dual-stack   *)
(* sockets.                                                                *)
(***************************************************************************)
FamiliesCoexist ==
  refused # NoSocket /\ refused.reuse /\ FlagOf(refused.by).port # 0 =>
    \/ \E t \in taken : Overlap(refused, t)
    \/ \E s \in Requested(args) : s.by # refused.by /\ Overlap(refused, s)

Proper(host) ==
  IsIpv6(host) \/ (host # <<>> /\ \A i \in DOMAIN host : host[i] \notin {":", "[", "]"})

(***************************************************************************)
(* The address an upstream shows parses back to the same upstream: host,   *)
(* port (the default one included) and transport survive                   *)
(* format_host_port and split_host_port, IPv6 literals among them.         *)
(***************************************************************************)
AddressesParseBack ==
  \A a \in upstream_index :
    LET u == parse_any_upstream(a) IN
    u.kind \in {"udp", "tcp", "tls", "quic"} /\ Proper(u.host) =>
      parse_any_upstream(Address(u)) = u
=============================================================================
