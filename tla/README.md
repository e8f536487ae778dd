# A TLA+ verification of dnsproxy.rs

`doh-upstream` is a DNS proxy: listeners accept queries over plain DNS, TLS,
QUIC, HTTPS and DNSCrypt, a cache answers what it can, rules route the rest to
a group of upstreams, and a client for each transport asks one upstream after
the other. This directory holds TLA+ models of those parts, TLC configurations
that check them on small instances, and proofs, checked by TLAPS, that the main
safety properties hold for every value of the constants.

`PROJECT.json` lists the components, runs, mutants, findings, hazards and
theorems, and maps every definition to the source lines it models.

## Inventory

State that outlives a step, and who changes it (paths are below `src/src/`):

| part | source | state | concurrency |
|---|---|---|---|
| response cache | `cache.rs` | LRU map behind a mutex | one task per query |
| upstream groups | `client/upstream_config.rs` | a cursor per group | atomics, many threads |
| latency averages | `client/upstream.rs` | one average per upstream, shared by groups | atomics, many threads |
| upstream rules | `client/upstream_config.rs`, `client/upstream_url.rs`, `main.rs` | maps, fixed after parsing | none |
| DoH client | `client/doh.rs`, `client/doh3.rs` | client, transport, connection, HTTP/3 preference | async mutexes, cancelled futures |
| DoQ client | `client/doq.rs` | one connection | async mutex, cancelled futures |
| DNSCrypt client | `client/dnscrypt.rs`, `client/dnscrypt/*.rs` | cached certificate | read-write lock, the resolver's rotation |
| DNSCrypt server | `listener/dnscrypt.rs`, `client/dnscrypt/keygen.rs`, `config.rs` | key file, certificate signed at start | restarts |
| plain UDP, TCP and DoT clients | `client/plain_*.rs`, `client/dot.rs` | one exchange | one timeout around it |
| bootstrap | `client/bootstrap.rs` | futures of a lookup, addresses of a dial handler | parallel lookups |
| listeners | `listener/*.rs` | connections, streams, sockets | one task per datagram, stream or connection |
| binary | `main.rs` | sockets bound so far | bound listeners answer while others start |

A query travels listener, cache, rule, group, upstream, client, bootstrap. The
models follow the seams the code has: a handler is a function from query to
answer, so listeners are modelled over an arbitrary handler, `Cache` over an
arbitrary inner handler, and `Proxy` puts routing, failover and validation
inside the steps of `Cache`.

## Modules

| module | models | actions |
|---|---|---|
| `Cache` | `Cache::into_handler`, `get`, `insert`; the `lru` crate as it is used | `Arrive`, `GetMiss`, `GetExpired`, `GetHit`, `HandlerOk`, `HandlerErr`, `Put`, `Tick` |
| `Proxy` | the handler `main.rs` builds: cache around `UpstreamConfig::exchange`, each attempt ending in `validate_response` | `Arrive`, `Hit`, `Miss`, `Accept`, `Panic`, `Refuse`, `GiveUp`, `Put`, `Tick` |
| `UpstreamGroup` | `ordered` in its three modes, `exchange`, `LatencyTracker::record` | `Arrive`, `Scan`, `SortBegin`, `SortEnd`, `SortPanic`, `AttemptOk`, `AttemptErr`, `GiveUp`, `Toggle` |
| `UpstreamUrl` | `parse_any_upstream`, `extract_userinfo`, `split_host_port`, `format_host_port` | operators over tokens |
| `UpstreamConfig` | `parse_with_mode`, `split_config_line`, `group_for` | one per kind of line and upstream, and the suffix loop of a lookup |
| `Startup` | `main`, extending `UpstreamConfig`: bootstrap, rules, credentials, cache options, binding every listener | `GenerateConfig`, `Bootstraps`, `CollectFails`, `CollectLines`, `Rejected`, `Credentials`, `CacheOptions`, `Bind`, `NextListener`, `Run` |
| `ConnSlot` | abstract: what an upstream promises about the one connection it keeps | `Hit`, `Fill`, `Replace`, `Drop`, `Leave` |
| `DohUpstream` | `exchange`, `should_use_http3`, `probe_h3`, `get_client`, `reset_client`, `exchange_https`, `Http3Transport` | one for each stretch between awaits, and `Cancel` |
| `DoqUpstream` | `exchange`, `get_conn`, `reset_conn`, `dial` | the same |
| `Bootstrap` | `ParallelResolver`, `PlainResolver`, `DohResolver`, `resolve_addrs`, `new_dial_context` | lookups, polls, dials |
| `DialedClient` | the DoT, TCP and UDP clients over the steps of `Bootstrap` | every step of one exchange, `TimedOut` |
| `DnsCryptWire` | `crypto.rs`: padding, the two directions of an exchange, certificates | operators over bytes |
| `DnsCryptKeys` | `stamp.rs`, `keygen.rs`, `config.rs`: stamps and key files | operators over bytes and text |
| `DnsCrypt` | the client composed with its resolver: this crate's server, from key file and stamp on, or another provider's | `Begin`, `FetchTxt`, `PickCert`, `StoreCert`, `FetchErr`, `UdpAnswer`, `TcpAnswer`, `BadAnswer`, `IoErr`, `Timeout`, `Rotate`, `Retire`, `Stop`, `Start`, `Tick` |
| `Listener` | the loops of all listeners over any handler | send, read, reply, write and error of each kind |

Three more add variables the program does not have, to say what happened before:
`Recency` (which keys were used since a key was) extends `Cache`, `ProxyRecency`
extends `Proxy` with the same, and `RoundRobin` (how many queries a group began,
and with which upstream) extends `UpstreamGroup`. They change no step. `MC*`
modules give constants their values, `*Proofs` modules hold theorems.
Operators with a comment "Mutant of ..." are altered copies used to see that a
property notices the mistake; no specification uses them.

What steps are atomic follows the code's awaits: a task keeps the processor
between two of them. Where the code shares atomics between threads instead (the
upstream groups), every load and every update is a step of its own, and a sort
whose keys change underway may leave any order, or panic, as the standard
library allows; that it leaves a permutation is the library's promise and is
assumed. Where a mutex is held across an
await (DoH, DoQ), it is a variable; where the code locks, looks and unlocks
without awaiting, one step does all three.

Abstractions. Messages are reduced to the fields the properties look at. The id
of an upstream's answer is whatever the upstream sent: the clients for plain
UDP and TCP, DoT and DNSCrypt do not compare it with the query's
(`plain_udp.rs:56`, `plain_tcp.rs:87`, `dot.rs:99`, `dnscrypt.rs:94`), those for
DoH and DoQ restore it (`wire.rs:16`, `doq.rs:81`), and the cache hands a
forwarded answer on as it is. TLS,
QUIC and HTTP succeed, fail or take too long. Encryption and signatures are
symbolic: a box opens with the right keys and nonces and no others, a signature
verifies under the key that made it; padding, truncation and the fields of
stamps and key files are computed. Latencies, times and sizes are small
numbers; `U32`, `CursorMod`, `Untested`, `UdpMax`, `PrefixMax`, `Block`,
`HighBit` and `KeyLen` stand for the limits of the code. A port flag of 0
stands for none. In a key file a key's name is one character, and so is a byte
in base64. HTTPS requests are multiplexed as in HTTP/2; over HTTP/1.1 hyper
serves the requests of a connection one after the other (`listener/doh.rs:109`),
so there a stuck request does hold up those pipelined behind it. A TCP client
may stop reading its answers (`Deaf`): `write_prefixed` has no timeout and the
task then waits with it. That two TCP sockets never share an address is assumed
of the system although `new_socket` sets `SO_REUSEADDR` on them too
(`io.rs:83`); UDP sockets may share one or not.

## Runs

Each run is `tlc -config <cfg> <module>`; `PROJECT.json` names both.

| run | what it shows |
|---|---|
| cache | a hit lies strictly within its answer's clamped lifetime and hands out no longer TTL (`HitIsFresh`); a hit has the id of its own query and copies a message fetched for its question, DO and CD (`AnswersOwnQuery`); entries are upstream answers dated by arrival, not by when the lock was granted (`EntriesAreGenuine`); stored TTLs lie between floor and ceiling (`StoredTtlClamped`) |
| proxy | answers, cached or not, come from an upstream of the group for the query's name (`AnswersComeFromTheRule`); a live entry leaves only after `Size` other keys were used (`EvictsOnlyTheColdest`) |
| upstream_modes | no order loses an upstream (`NoUpstreamLost`), an upstream's average lies among its own samples (`AverageWithinSamples`), first attempts are spread evenly over a wrap of the cursor (`Balanced`), an error means every upstream failed this query (`ErrorOnlyAfterAll`), queries return (`QueryReturns`), working upstreams are measured in the end (`LiveIsMeasured`) |
| startup | the longest matching rule wins (`MostSpecificRule`), every bad line is reported (`AllErrorsReported`), groups are what the file says line by line (`GroupsFollowTheFile`), an upstream's shown address parses back to it (`AddressesParseBack`); a running proxy has bound every socket asked for (`AllOrNothing`), no two of them overlap (`OneListenerPerSocket`), and of the sockets `new_socket` makes, those of a port flag's two families do not shut each other out (`FamiliesCoexist`) |
| doh | a retry uses something made after the failure (`RetryIsFresh`), cached client and transport change as `ConnSlot` says (`KeepsOneClient`), the HTTP/3 preference does not change for ever (`PreferenceSettles`), exchanges return (`ExchangeReturns`) |
| doq | connections number at most the failed attempts and one (`DialsAreEarned`), the kept one changes as `ConnSlot` says (`KeepsOneConnection`), exchanges return (`ExchangeReturns`) |
| dnscrypt | a query is encrypted to a key of its own resolver by a certificate valid during the exchange (`UsesValidCert`); success brings the handler's whole answer to the call's own question (`AnswersAreTheHandlers`); after the last rotation or restart the cache comes to hold, for good, a certificate the resolver answers to (`RecoversFromRotation`) |
| listener | a client that closes its half of a connection still gets an answer to every query, unless an error ends the connection (`HalfClosedIsServed`); stuck queries delay no other datagram (`UdpIsolated`) or stream (`StreamServed`); what a reading client writes on a connection is answered up to a stuck query or an error (`ConnectionServed`) |
| clients | a lookup fails only when all of it did (`FailsOnlyWhenAllDo`), dials follow family and order to the last address (`DialsInOrder`), one working resolver is enough (`OneResolverSuffices`), a timeout ends an exchange in whatever step (`ExchangeEnds`) |

Three runs end in a violation and record a disagreement between the code and
its own documentation:

| run | property | what happens |
|---|---|---|
| upstream_stale | `DeadIsNotPreferred` | only successes are recorded, so an upstream that dies keeps its good average and stays first for good |
| doh_body | `ExchangeReturns` without the assumption on bodies | the HTTP/2 body is read outside the timeout (`doh.rs:349`); `options.rs:41` calls it the overall timeout for exchanges |
| dnscrypt_timeout | `TimeoutIsRetried` | the only timeout surrounds both attempts, so the retry the comment promises "on timeout" never runs |

More were met while modelling and have no run:

- `cache.rs:133-140` applies the ceiling last: with a floor above it, which
  `main.rs` accepts, the floor is not kept, although the comment says
  "clamped to `[min_ttl, max_ttl]`". `StoredTtlClamped` is about the other case.
- `--private-upstream` "[t]akes precedence" (`main.rs:206-207`), but a rule of
  the file for a longer suffix wins, as `MostSpecificRule` says of all rules.
  For the same zone its upstreams stand first in the group, which matters in
  the default mode and not in round-robin and load-balance.
- `--quic-port` and `--https-port` bind both wildcard addresses
  (`main.rs:219-221`, `main.rs:246-248`). quinn makes its own sockets, without
  the option `new_socket` sets, so on a dual-stack system the second is refused
  and the proxy does not start. `FamiliesCoexist` is about `new_socket`.
- `probe_h3` answers `true` when the TLS handshake fails first, though QUIC has
  not connected; its comment says "if QUIC established a connection".
- `io.rs:23-25` says a failing handler costs its query; over TCP it ends the
  connection (`io.rs:179`) and the queries behind it too.
- `keygen.rs` calls `build_stamp` the inverse of `parse_dnscrypt_stamp`. For a
  provider name of 128 bytes or more it is not: the length byte then has the bit
  that `read_lp` takes for a continuation. The resolvers of the instance have
  names up to the last length for which it is.
- `config.rs:31` says that `load` reads what `save` wrote. A provider name with
  a line break or with blanks around it does not survive, while the stamp
  printed beside the file has it whole. The instance, and `KeyFileRoundTrip`,
  have names of one line without such blanks (`Tidy`).

And some behaviours no document speaks of, worth knowing to a reader: a
truncated answer of a UDP upstream is cached like a whole one (`cache.rs:110`);
the timeout of a DoT or TCP exchange is as long as that of each dial inside it,
so a first address that stays silent uses all of it (`dot.rs:105`,
`bootstrap.rs:308`); the QUIC handshake of the DoQ client is outside
`Options::timeout` and only quinn's idle timeout ends it (`doq.rs:203`); a
resolver whose AAAA query stays silent keeps its A answer until the timeout
(`bootstrap.rs:134`), so `OneResolverSuffices` is about one that answers both;
a query that fails on an old DoH client may drop the new one of another query
(`doh.rs:169`), which `ConnSlot` allows; a query without a question makes
`validate_response` panic when the response has one (`wire.rs:85`, `Panic`).

### Bounds

Two concurrent tasks or queries nearly everywhere: what they share is a single
slot, and each hazard is one task disturbing another. `doq` has three, so that
a query fails on a connection while a second dials and a third waits, and
`MaxExchanges = 4` exchanges. `MaxMade = 4` in `doh` allows a transport, a
connection, its replacement and one made by the other query. `MaxBegun = 6`
takes the round-robin cursor past its wrap at `CursorMod = 4`, with groups of
three, two, one and no upstreams. The cache is checked with `Size = 1`, where
tasks fight over the one entry, and in `proxy` with `Size = 2` and three
questions, where eviction has a choice. `TicksPerSec = 2` makes the fraction of
a second that `as_secs` drops visible, and `MaxTime` lets lifetimes end.

`dnscrypt` has three serials, so that an overlap and a rotation during a refresh
happen, certificates that expire within `MaxTime = 3`, and two resolvers: this
crate's server with an IPv6 address and the longest name a stamp takes, and
another provider whose name needs a continued length and which also publishes
records of another suite and of another signer. Answers are chosen to end in
zeros and in the marker byte, and one is too long for a datagram of `UdpMax`. `MaxDials = 2` in `clients` lets a dial handler be used again after
a failure or a success; one address is silent. `startup` takes every command
line in `MCStarts`: all files of up to two lines from a small set, upstream
addresses of every scheme with every kind of host and port, combinations of
listeners on two ports against sockets other processes hold, on systems with
and without dual-stack sockets and shared UDP addresses. The listener has two
connections, the client of one of which may not read, and four queries: an
ordinary one, one that never returns, one that does not parse, and
one that is a certificate query for DNSCrypt and lacks credentials for HTTPS.

The kind of listener, the upstream mode, the client, the resolver and the
options are chosen in the initial state, so one run covers all of them. Symmetry
over tasks is used in `cache` and `proxy`, which check no liveness. Deadlock
checking is off where a behaviour really ends: `startup` (the process exits),
`doq`, `listener` and `clients` (the bounded exchanges are over).

### Fairness

- `UpstreamGroup`: weak, for each query's steps; transports bound an exchange.
- `DohUpstream`, `DoqUpstream`: strong for taking a mutex, since tokio's serves
  its waiters in order; weak for steps a timeout or a handshake's end brings
  about. `LiveSpec` of `DohUpstream` adds that servers finish or break off
  bodies; `doh_body` shows that this is needed. For DoQ the end of a dial rests
  on quinn's idle timeout.
- `DnsCrypt`: calls keep coming, each ends by its timeout, time passes, a
  replaced key is forgotten at last, and a TXT answer gets through again and
  again (strong). `RecoversFromRotation` speaks of resolvers that stop rotating
  and keep a valid certificate published. Recovery may come only when the old
  certificate expires, and a restarted server of this crate has the same keys.
- `Listener`: loops and tasks are polled, handlers outside `Stuck` return, and a
  write ends, or fails, on connections outside `Deaf`, whose clients read. Apart
  from that clients and network owe nothing.
- `DialedClient`: the task is polled and its timer fires; only the resolvers in
  `good` are sure to answer, and no server is.

## Proofs

All theorems hold for every value of the constants that the named `ASSUME`s
allow. Every safety property that a run checks, invariant, action property or
refinement, has one.

| module | theorem | states |
|---|---|---|
| `CacheProofs` | `TypeCorrect`, `EntriesStayGenuine`, `HitsAreFresh`, `AnswersMatchQueries` | `TypeOK`, `EntriesAreGenuine`, `HitIsFresh`, `AnswersOwnQuery` |
| | `StoredTtlsAreClamped` | `StoredTtlClamped` |
| | `LruStaysConsistent` | `LruConsistent`: map and recency list hold the same keys |
| | `EvictsTheColdest` | every step of `RecentSpec` is one of `ColdestLeaves` |
| `ProxyProofs` | `Sources` | `AnswersComeFromTheRule` |
| | `EvictsTheColdest` | `EvictsOnlyTheColdest`, of `RecentSpec` |
| | `CacheKeepsItsPromises` | `HitIsFresh` and `AnswersOwnQuery` of the composed handler |
| `UpstreamGroupProofs` | `TypeCorrect`, `OrderingsAreComplete`, `FailoverIsComplete`, `AveragesStayWithinSamples` | `TypeOK`, `NoUpstreamLost`, `ErrorOnlyAfterAll`, `AverageWithinSamples` |
| | `RoundRobinIsFair` | `Balanced`, of `CountedSpec` |
| `UpstreamConfigProofs` | `LookupsAreMostSpecific`, `EveryErrorIsReported`, `GroupsAreTheFiles` | `MostSpecificRule`, `AllErrorsReported`, `GroupsFollowTheFile` |
| `ClientProofs` | `Typed`, `Dials` | `TypeOK`, `DialsAreEarned` |
| | `Refines` | `KeepsOneConnection`: `DoqUpstream` implements `ConnSlot` |
| | `OneAnswerIsEnough`, `DialsKeepOrder` | `FailsOnlyWhenAllDo`, `DialsInOrder`, of `ClientSpec` |
| `DohUpstreamProofs` | `RetriesAreFresh` | `RetryIsFresh` |
| | `Refines` | `KeepsOneClient`: implements `ConnSlot` twice |
| `DnsCryptProofs` | `PadRoundTrip` | `unpad(pad(m)) = Ok(m)` for every message and block size |
| | `AnswersAreWhole`, `CertsAreValid` | `AnswersAreTheHandlers`, `UsesValidCert` |
| | `StampRoundTrip` | `parse_dnscrypt_stamp` reads back what `build_stamp` wrote, for names a single length byte takes |
| | `KeyFileRoundTrip` | `load` reads back the text `save` wrote, for names of one line without blanks around them |
| `StartupProofs` | `ClosingLosesNothing` | `HalfClosedIsServed` |
| | `BindsAll`, `BindsApart`, `FamiliesDoNotCollide` | `AllOrNothing`, `OneListenerPerSocket`, `FamiliesCoexist`, of `StartupSpec` |
| | `AddressesSurvive` | `AddressesParseBack`, of `StartupSpec` |

The cache. `HitIsFresh` is not inductive: a hit is fresh because the entry it
copies is dated by the arrival of its answer and has that answer's lifetime, and
an entry is right because the one a task carried to the lock was. The inductive
invariant is `TypeOK /\ EntriesAreGenuine /\ HitIsFresh /\ AnswersOwnQuery`. It
also covers floors beyond 32 bits, which the run does not reach: the remainder
`as u32` keeps is never larger than the number. `LruConsistent` follows from
lemmas on removing a key from, and appending it to, a list without duplicates.
`ColdestLeaves` speaks of history; the recency list records the part of
it that matters. The invariant (`RInv`) is that what stands behind a key in the
list was used since that key was, and that the history of a key is finite. A hit
or a store keeps the order of the others and puts its key last. So when the
first key of a full list goes, the `Size - 1` keys behind it and the new one were
all used since, and being distinct they number `Size`.

The proxy. A hit shows the origin of a message stored long before, so the
invariant follows an origin from the attempt that accepted it through the wait
for the lock into the map. For the other two theorems each step is taken for a
step of `Cache`: `Accept` for the arrival of an answer, `GiveUp` and `Panic` for
the failure of the inner handler. What is proved of those steps is then cited
(`Lru == INSTANCE CacheProofs`); a failed attempt is the one step to be added,
and it uses no key.

The groups. `ErrorOnlyAfterAll` needs that what is left to try and what has
failed make up the group, which is `NoUpstreamLost`, which needs that rotation,
shuffle and sort keep the elements of a list, proved as lemmas about
permutations. `AverageWithinSamples` is the arithmetic of the rounded average;
the variable `took`, which the program does not have, remembers the samples.
`Balanced` bounds a difference and is not inductive; the number of queries begun
determines the difference exactly (`Extra`, in `HInv`): a place of the group is
ahead of the last one by one for each lap of the cursor that ended in the middle
of a round after passing it, and by one if the round under way has passed it.
A group that lists an upstream twice gives it two turns, so the property is about
groups that do not.

Rules. The loop of `group_for` keeps that no suffix longer than the current one
has a rule (`LInv`); `MostSpecificRule` follows when it ends. For the parser the
invariants say of the lines read so far, and of the upstreams read so far of the
current line, what the properties say of the whole file: the errors are the
faults so far (`EInv`), every group is the concatenation of what those lines
contribute to it (`GInv`). The latter needs what a line contributes to be counted by
domain, a rule that names a domain twice (in whatever case) adding each upstream
twice. `AddressesParseBack` is the round trip of
`format_host_port` and the parsers that read its result, by cases on literals;
its invariant (`AInv`) is that the lines are lines of the command line and its
files, and that the index holds only addresses such lines may name.

Sockets. `BInv` says that what is bound and what is queued make up what the
listeners so far asked for; that no two overlap then rests on the TCP socket
that goes with a UDP one. `FamiliesCoexist` needs that the sockets a port flag
has still to bind differ from each other and from those bound (`FInv`): a socket
of `new_socket` refused then met one of another process or listener, since the
sockets of its own flag are compatible with it.

Bootstrap. `FailsOnlyWhenAllDo` needs that a resolver no longer polled had both
its answers and found nothing in them (`RInv`). `DialsInOrder`
needs that the addresses kept are the sorted answer, of which those left are
the end (`DInv`). That the two passes of `SortByFamily` are a stable sort is
proved by induction over prefixes, as a property of a set of numbers.

DoQ and DoH. That a slot is filled only while it is empty needs that its mutex
is held by exactly the exchange that fills it, and that the slot was empty when
the mutex was taken. `DialsAreEarned` needs an account: connections made, plus
failures not yet used for a dial or a drop, are at most failures plus the
connection kept. `RetryIsFresh` needs, over HTTP/3, that the sender found by
the second attempt is newer than the failure although another exchange may have
replaced it in between: senders are only ever replaced by newer ones.

DNSCrypt. `AnswersAreWhole` rests on `PadRoundTrip` and on lemmas that
`decrypt_query` and `decrypt_response`, when they succeed, give back what was
encrypted, the latter only under the query's own nonce. For `CertsAreValid` the
invariant says of every record published, heard, cached or in use that it is
signed by the provider and names a key of the resolver. That the client checks
signatures with the right key is, for a server of this crate, the round trip of
its stamp and its key file. For another provider it is part of
`ResolverAssumption`: the stamp the user was given, if it parses, has the
provider's key, and records the provider did not sign do not verify.

`StampRoundTrip` is about a recursive function. `read_lp` goes on to the next
segment while a length byte has its high bit, so what it finds at a position
depends only on what it finds further on (`SegLocal`). `SegsExist` shows by
induction from the end of the buffer, again as a property of a set of numbers,
that there is such a function, which unfolds it. The rest says where the parts
of a stamp stand. The bound on the name is the code's (see the disagreement
above); whatever the name is, a stamp that parses has the address and the key
that were written (`ParsedStamp`), which is what `CertsAreValid` needs.

`KeyFileRoundTrip` says where the text `save` writes breaks into lines
(`ThreeLines`), that trimming a line takes off no more than `save` put around
the value (`WrittenTrimmed`), and that the first sign of equality is the one
`save` wrote, whatever signs the name or the padding of base64 have
(`LineReadBack`).

The listener. `HalfClosedIsServed` needs that answers and waiting queries make up
what was written to the connection (`InOrder`), that a task which handles a query
or writes an answer has one waiting (`HandlesFirst`), and that a task which ended
without an error had none (`ClosesLast`).

Assumptions. Besides types, `StartupAssumption` says that there are private zones and
that `--private-upstream` is an option with one value; `ConfigAssumption`
that lower-casing maps labels to labels and addresses are lists of tokens;
`BootstrapAssumption` that resolvers answer with addresses;
`StampAssumption` that a key and a printed address are shorter than the bit a
length byte uses for continuation (32 and at most 47 bytes, below 128);
`CacheOptionsAssumption` that size and resolution are not zero and TTLs have 32
bits; `ResolverAssumption` that the provider name in a key file is `Tidy`. TLC
evaluates all of them.

Only model-checked: the liveness properties (`QueryReturns`, `LiveIsMeasured`,
`PreferenceSettles`, `ExchangeReturns`, `RecoversFromRotation`, `UdpIsolated`,
`ConnectionServed`, `StreamServed`, `ExchangeEnds`, `OneResolverSuffices`),
since the prover has no rules for fairness and `ENABLED`, and how `read_lp`
joins the segments of a name with a continued length, which this crate reads in
the stamps of other providers and never writes.

## Not modelled

- Encoding and decoding of DNS messages, base64, HTTP, TLS and QUIC, the
  primitives of cryptography: libraries, modelled by how they are used.
- The comparison of credentials in `doh_auth.rs` and the reading of PEM files in
  `tls_config.rs`: data; whether they succeed is an input of `Startup` and
  `Listener`. Of `options.rs` and `error.rs` only `should_retry` and the
  timeouts decide anything, and those are in the clients.
- `clap`'s parsing, help texts and logging in `main.rs`, and the module roots,
  which only re-export.
- Upstream URLs with IPv6 hosts over HTTPS, whose parsing is hyper's.
- Cancellation of a handler when an HTTPS client disconnects, which is the
  HTTP library's affair.
