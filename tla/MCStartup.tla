----------------------------- MODULE MCStartup -----------------------------
(***************************************************************************)
(* Command lines for Startup, in four groups: rules, upstream addresses,    *)
(* listeners, and what is checked besides them.                             *)
(***************************************************************************)
EXTENDS Startup, TLC, SequencesExt

MCLabel == {"a", "A", "b", "c", ""}

MCLower == [l \in MCLabel |-> IF l = "A" THEN "a" ELSE l]

Url(scheme, rest) == [scheme |-> scheme, rest |-> rest]

u1 == Url("", <<"v4">>)
u2 == Url("tls", <<"name">>)
bad == Url("ftp", <<"name">>)

\* Hosts of every kind, with and without ports and brackets.
V6 == <<":", ":", "53">>
MCHosts == { <<>>, <<"v4">>, <<"name">>, V6, V6 \o <<":", "853">> }
MCAuthorities ==
  LET Bracketed == { <<"[">> \o h \o <<"]">> : h \in MCHosts } \cup { <<"[", "name">> }
      Hosts == MCHosts \cup Bracketed
  IN  Hosts \cup { h \o <<":", p>> : h \in Hosts, p \in {"53", "853", "70000"} }

MCUrls ==
  { Url(s, h) : s \in {"", "tcp", "tls", "quic"}, h \in MCAuthorities }
    \cup { Url(s, h \o <<"/", "path">>) : s \in {"https", "h3", "ftp"},
             h \in { <<"name">>, <<"v4", ":", "443">>, <<"user", ":", "pass", "@", "name">>,
                     <<"user", "@", "name">>, <<>> } }
    \cup { Url("sdns", <<"stamp">>), Url("sdns", <<"junk">>) }

MCAddresses == MCUrls \cup {u1, u2, bad}

DefaultLine(u) ==
  [skip |-> FALSE, bracket |-> FALSE, closed |-> FALSE, hosts |-> <<>>, ups |-> <<u>>]

RuleLine(hosts, ups) ==
  [skip |-> FALSE, bracket |-> TRUE, closed |-> TRUE, hosts |-> hosts, ups |-> ups]

Comment == [DefaultLine(u1) EXCEPT !.skip = TRUE]

Unclosed == [DefaultLine(u1) EXCEPT !.bracket = TRUE]

\* Rules for c, b.c and a.b.c in several spellings, a repeated domain, a
\* trailing dot, and each kind of malformed line.
MCLines ==
  { Comment, Unclosed, DefaultLine(u1), DefaultLine(bad),
    RuleLine(<< <<"c">> >>, <<u1, u2>>),
    RuleLine(<< <<"A", "b", "c">>, <<"b", "c">>, <<"b", "c">> >>, <<u2>>),
    RuleLine(<< <<"b", "c">> >>, <<bad, u1>>),
    RuleLine(<< <<"b", "c", "">> >>, <<u1>>),
    RuleLine(<< <<"c">>, <<>> >>, <<u1>>),
    RuleLine(<< <<"a">> >>, <<>>) }

MCZones == << <<"b", "c">>, <<"a", "c">> >>

MCNames == { <<"c">>, <<"b", "c">>, <<"A", "b", "c">>, <<"a", "A", "b", "c">>,
             <<"a", "c">>, <<"b">> }

NoFlag == [listen |-> <<>>, port |-> 0]
Port(p) == [listen |-> <<>>, port |-> p]
Listen(ip, p) == [listen |-> << [ip |-> ip, port |-> p] >>, port |-> 0]

\* One default upstream, and the default listener.
Plainest ==
  [generate |-> FALSE, bootstrap |-> <<>>, upstreams |-> << <<DefaultLine(u1)>> >>,
   upstream_file |-> <<>>, private_upstream |-> <<>>, doh_auth |-> <<>>, doh_auth_file |-> FALSE,
   cache |-> FALSE, cache_size |-> 1, plain |-> NoFlag, quic |-> NoFlag, tls |-> NoFlag,
   https |-> NoFlag, dnscrypt |-> NoFlag, tls_cert |-> TRUE, dnscrypt_config |-> TRUE]

RuleArgs ==
  { [Plainest EXCEPT !.upstreams = t, !.upstream_file = f, !.private_upstream = p] :
      t \in {<<>>} \cup { <<l>> : l \in SeqOf(MCLines, 2) },
      f \in { <<>>, << <<RuleLine(<< <<"b", "c">> >>, <<u1>>)>> >>, << <<Comment, DefaultLine(bad)>> >> },
      p \in { <<>>, << <<u2, u1>> >>, << <<>> >> } }

UrlArgs == { [Plainest EXCEPT !.upstreams = << <<DefaultLine(u)>> >>] : u \in MCUrls }

ListenerArgs ==
  { [Plainest EXCEPT !.plain = p, !.quic = q, !.tls = t, !.https = h, !.dnscrypt = d,
                     !.tls_cert = c, !.dnscrypt_config = c] :
      p \in {NoFlag, Port(1), Listen("lo4", 1)}, q \in {NoFlag, Port(1), Port(2)},
      t \in {NoFlag, Port(2)}, h \in {NoFlag, Port(2), Listen("lo4", 1)},
      d \in {NoFlag, Port(1), Listen("any4", 1)}, c \in BOOLEAN }

OtherArgs ==
  { [Plainest EXCEPT !.generate = g, !.bootstrap = b, !.doh_auth = a, !.doh_auth_file = f,
                     !.cache = c, !.cache_size = n] :
      g \in BOOLEAN, c \in BOOLEAN, f \in BOOLEAN, n \in 0..1,
      b \in {<<>>, <<u1, Url("https", <<"v4", "/", "path">>)>>, <<u2>>,
             <<Url("https", <<"name", "/", "path">>)>> },
      a \in {<<>>, <<"pair", "no colon">>, <<"pair">> } }

Platforms == { [dual |-> d, shares |-> s] : d, s \in BOOLEAN }

Other(proto, ip, p) ==
  [NoSocket EXCEPT !.by = "other", !.proto = proto, !.addr = [ip |-> ip, port |-> p]]

Takens == { {}, {Other("tcp", "any6", 2)}, {Other("udp", "lo4", 1)} }

MCStarts ==
  [args : ListenerArgs, platform : Platforms, taken : Takens]
    \cup [args : RuleArgs \cup UrlArgs \cup OtherArgs,
          platform : { [dual |-> TRUE, shares |-> TRUE] }, taken : { {} }]
=============================================================================
