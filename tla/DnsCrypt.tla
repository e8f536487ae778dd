------------------------------ MODULE DnsCrypt ------------------------------
(***************************************************************************)
(* A DNSCrypt upstream shared by concurrent queries, and its resolver:      *)
(* DnsCryptUpstream of src/src/client/dnscrypt.rs with either the DNSCrypt  *)
(* listener of this crate (src/src/listener/dnscrypt.rs), which signs one   *)
(* certificate each time it starts, or another provider's resolver, which   *)
(* replaces its key now and then.  A query takes the cached certificate, or *)
(* fetches one, and encrypts to it; the resolver answers only to the keys   *)
(* it still holds.  One timeout covers the whole exchange.                  *)
(***************************************************************************)
EXTENDS DnsCryptKeys, FiniteSets

CONSTANTS
  Queries,   \* concurrent calls of exchange
  Asks,      \* Asks[q]: the question of call q
  Answers,   \* Answers[a]: the body of the handler's answer to question a
  Resolvers, \* Resolvers[i]: a resolver, how it is run and the stamp it hands out
  Serials,   \* the certificates another provider's resolver may ever sign
  TsStart,   \* TsStart[s], TsEnd[s]: when certificate s is valid
  TsEnd,
  CertTtl,   \* DEFAULT_CERT_TTL_SECS, for a server of this crate
  UdpMax,    \* UDP_MAX_MSG_SIZE, 512 in the code
  MaxTime    \* bound on the clock

ASSUME DnsCryptAssumption ==
  /\ Asks \in [Queries -> Byte]
  /\ Answers \in [Byte -> Seq(Byte)]
  /\ Serials \subseteq Nat \ {0}
  /\ 1 \in Serials
  /\ TsStart \in [Serials -> Nat]
  /\ TsEnd \in [Serials -> Nat]
  /\ CertTtl \in Nat
  /\ UdpMax \in Nat
  /\ MaxTime \in Nat

\* No certificate.
None == [serial |-> 0]

VARIABLES
  resolver, \* which of the resolvers there is: constant after Init
  stamp,    \* the client's parsed stamp: constant after Init
  now,      \* the clock
  live,     \* the TXT records of the resolver's certificates, whose keys it holds
  cert,     \* the cached certificate
  pc,
  heard,    \* the records in the TXT answer a query has received
  using,    \* the certificate of the current attempt
  attempt,  \* 1, or 2 for the retry
  start,    \* when the exchange began
  result,   \* how each query ended last, and with which message
  answer

env == <<resolver, stamp, now, live>>
vars == <<resolver, stamp, now, live, cert, pc, heard, using, attempt, start, result, answer>>

----------------------------------------------------------------------------
(***************************************************************************)
(* Messages.  Of a DNS message there remain its question, the truncation    *)
(* bit and the records.                                                     *)
(***************************************************************************)
to_bytes(m) == <<m.question, m.tc>> \o m.body
from_bytes(b) ==
  IF Len(b) < 2 THEN Err
  ELSE Ok([question |-> b[1], tc |-> b[2], body |-> SubSeq(b, 3, Len(b))])

Request(q) == [question |-> Asks[q], tc |-> 0, body |-> <<>>]
handler(req) == [question |-> req.question, tc |-> 0, body |-> Answers[req.question]]
truncate(m) == [question |-> m.question, tc |-> 1, body |-> <<>>]
NoAnswer == [question |-> 0, tc |-> 0, body |-> <<>>]

\* ClientKeyPair::generate and the nonce: both are new in every attempt.
ClientKey(q) == <<"client", q, attempt[q]>>
Nonce(q) == <<"nonce", q, attempt[q]>>
Framed(q) == encrypt_query(using[q], ClientKey(q), Nonce(q), to_bytes(Request(q)))

----------------------------------------------------------------------------
(***************************************************************************)
(* The resolver.                                                            *)
(***************************************************************************)
\* A server of this crate prints its own stamp; others are handed out in any
\* form.
StampOf(r) ==
  IF r.rotates THEN r.stamp
  ELSE build_stamp(r.addr, r.config.provider_signing_key, r.config.provider_name)

\* The keys of a server of this crate are of the size the code gives them, and
\* its name is one that the key file can hold.  The stamp of another resolver,
\* if it parses, has the provider's key.  What is published beside the
\* provider's certificates is not signed by that key, or is of another suite.
ASSUME ResolverAssumption ==
  \A i \in DOMAIN Resolvers :
    LET r == Resolvers[i]
        parsed == parse_dnscrypt_stamp(r.stamp)
    IN /\ r.rotates \in BOOLEAN
       /\ r.rotates /\ parsed.ok =>
            parsed.val.provider_public_key = r.config.provider_signing_key
       /\ ~r.rotates =>
            /\ r.addr \in Addrs
            /\ r.config \in [KeyNames -> Seq(Nat)]
            /\ Tidy(r.config.provider_name)
            /\ Len(r.config.provider_signing_key) = KeyLen
            /\ Len(r.config.resolver_secret_key) = KeyLen
       /\ \A o \in r.others : ~parse_one_certificate(o, r.config.provider_signing_key)

R == Resolvers[resolver]

\* DnsCryptServerConfig::new, as main calls it with the loaded key file.
ServerMagic == 0
ServerCert(config, t) ==
  sign_certificate(config.provider_signing_key, config.resolver_secret_key,
                   ServerMagic, 1, t, t + CertTtl)

\* What a server of this crate publishes when it starts at t.
Started(config, t) ==
  IF load(save(config)).ok THEN {ServerCert(load(save(config)).val, t)} ELSE {}

\* Another provider has a key and a magic for each serial.
ProviderCert(config, s) ==
  sign_certificate(config.provider_signing_key, [i \in 1..KeyLen |-> s], s, s,
                   TsStart[s], TsEnd[s])

\* try_answer_provider_txt: the certificate, for the provider's name.  Another
\* provider may publish records of other suites and signers with it.
ProviderTxt ==
  IF stamp.addr = R.addr /\ stamp.provider_name = R.config.provider_name
  THEN live \cup R.others
  ELSE {}

\* respond and handle_udp_packet, with the key of certificate c: nothing is
\* sent for a query that does not decrypt.  Over UDP an answer that is too long
\* is truncated.
Replies(q, tcp) ==
  LET Decrypted(c) == decrypt_query(c.resolver_public_key, c.client_magic, Framed(q))
      Reply(c) ==
        LET resp == handler(from_bytes(Decrypted(c).val).val)
            sent == IF ~tcp /\ FramedLen(to_bytes(resp)) > UdpMax THEN truncate(resp) ELSE resp
        IN encrypt_server_response(c.resolver_public_key, Framed(q).client_pk,
                                   Framed(q).nonce, 1, to_bytes(sent))
  IN {Reply(c) : c \in {c \in {r.signed : r \in live} : Decrypted(c).ok}}

\* A response that is too short or has another magic.
Mangled == [magic |-> "other", nonce |-> <<>>, resolver_nonce |-> 0,
            sealed |-> Seal({}, <<>>, <<>>)]

----------------------------------------------------------------------------
(***************************************************************************)
(* The client.                                                              *)
(***************************************************************************)
Goto(q, l) == pc' = [pc EXCEPT ![q] = l]

\* A call ends: its locals are gone.
Return(q, r, m) ==
  /\ Goto(q, "idle")
  /\ heard' = [heard EXCEPT ![q] = {}]
  /\ using' = [using EXCEPT ![q] = None]
  /\ result' = [result EXCEPT ![q] = r]
  /\ attempt' = [attempt EXCEPT ![q] = 1]
  /\ start' = [start EXCEPT ![q] = 0]
  /\ answer' = [answer EXCEPT ![q] = m]

Fail(q) == Return(q, "error", NoAnswer)

\* Mutant of Begin: a certificate is kept once it is cached.
BeginKeepsCert(q) ==
  /\ pc[q] = "idle"
  /\ IF cert # None
     THEN using' = [using EXCEPT ![q] = cert] /\ Goto(q, "udp")
     ELSE Goto(q, "fetch") /\ UNCHANGED using
  /\ attempt' = [attempt EXCEPT ![q] = 1]
  /\ start' = [start EXCEPT ![q] = now]
  /\ result' = [result EXCEPT ![q] = "none"]
  /\ answer' = [answer EXCEPT ![q] = NoAnswer]
  /\ UNCHANGED <<env, cert, heard>>

\* exchange, up to the end of current_cert's look at the cache.
Begin(q) ==
  /\ pc[q] = "idle"
  /\ IF cert # None /\ is_valid_at(cert, now)
     THEN using' = [using EXCEPT ![q] = cert] /\ Goto(q, "udp")
     ELSE Goto(q, "fetch") /\ UNCHANGED using
  /\ attempt' = [attempt EXCEPT ![q] = 1]
  /\ start' = [start EXCEPT ![q] = now]
  /\ result' = [result EXCEPT ![q] = "none"]
  /\ answer' = [answer EXCEPT ![q] = NoAnswer]
  /\ UNCHANGED <<env, cert, heard>>

\* fetch_provider_txt: the resolver answers.
FetchTxt(q) ==
  /\ pc[q] = "fetch"
  /\ ProviderTxt # {}
  /\ heard' = [heard EXCEPT ![q] = ProviderTxt]
  /\ Goto(q, "parse")
  /\ UNCHANGED <<env, cert, using, attempt, start, result, answer>>

\* refresh_cert, from the answer to the await of the cache's write lock: the
\* newest certificate that is valid.
PickCert(q) ==
  LET certs == {c \in parse_certificates(heard[q], stamp.provider_public_key) :
                  is_valid_at(c, now)}
  IN /\ pc[q] = "parse"
     /\ \/ /\ certs = {}
           /\ Fail(q)
        \/ \E c \in Newest(certs) :
             /\ using' = [using EXCEPT ![q] = c]
             /\ heard' = [heard EXCEPT ![q] = {}]
             /\ Goto(q, "store")
             /\ UNCHANGED <<attempt, start, result, answer>>
     /\ UNCHANGED <<env, cert>>

StoreCert(q) ==
  /\ pc[q] = "store"
  /\ cert' = using[q]
  /\ Goto(q, "udp")
  /\ UNCHANGED <<env, heard, using, attempt, start, result, answer>>

\* The socket reports an error while the certificate is fetched.
FetchErr(q) ==
  /\ pc[q] = "fetch"
  /\ Fail(q)
  /\ UNCHANGED <<env, cert>>

\* exchange_with_cert from the response on: an answer that does not decrypt,
\* unpack or match the question ends the call; one over UDP that is truncated
\* is asked for again over TCP, with the same encrypted query.
Receive(q, resp) ==
  LET bytes == decrypt_response(using[q], ClientKey(q), Nonce(q), resp)
      msg == from_bytes(bytes.val)
  IN IF ~bytes.ok \/ ~msg.ok
     THEN Fail(q)
     ELSE IF pc[q] = "udp" /\ msg.val.tc = 1
          THEN Goto(q, "tcp") /\ UNCHANGED <<heard, using, attempt, start, result, answer>>
          ELSE IF msg.val.question # Asks[q]
               THEN Fail(q)
               ELSE Return(q, "ok", msg.val)

\* The response to the query itself, or to one another call has sent.
UdpAnswer(q) ==
  /\ pc[q] = "udp"
  /\ \E p \in Queries : pc[p] = "udp" /\ \E resp \in Replies(p, FALSE) : Receive(q, resp)
  /\ UNCHANGED <<env, cert>>

TcpAnswer(q) ==
  /\ pc[q] = "tcp"
  /\ \E resp \in Replies(q, TRUE) : Receive(q, resp)
  /\ UNCHANGED <<env, cert>>

BadAnswer(q) ==
  /\ pc[q] \in {"udp", "tcp"}
  /\ Receive(q, Mangled)
  /\ UNCHANGED <<env, cert>>

\* The socket fails, or the resolver closes the connection: an Io error, after
\* which the first attempt is repeated with a certificate fetched anew.
IoErr(q) ==
  /\ pc[q] \in {"udp", "tcp"}
  /\ \/ /\ attempt[q] = 2
        /\ Fail(q)
     \/ /\ attempt[q] = 1
        /\ attempt' = [attempt EXCEPT ![q] = 2]
        /\ using' = [using EXCEPT ![q] = None]
        /\ Goto(q, "fetch")
        /\ UNCHANGED <<heard, start, result, answer>>
  /\ UNCHANGED <<env, cert>>

\* The timeout around the whole exchange: the future is dropped where it is.
\* A call is `unanswered` if it was still awaiting the answer to its first
\* attempt.
Timeout(q) ==
  /\ pc[q] # "idle"
  /\ Return(q, IF pc[q] \in {"udp", "tcp"} /\ attempt[q] = 1 THEN "unanswered" ELSE "error",
            NoAnswer)
  /\ UNCHANGED <<env, cert>>

----------------------------------------------------------------------------
client == <<cert, pc, heard, using, attempt, start, result, answer>>

\* Another provider's resolver signs the next certificate, and may keep the
\* last one for a while.
Last == Max({r.signed.serial : r \in live})

Rotate ==
  /\ R.rotates
  /\ Last + 1 \in Serials
  /\ \E keep \in BOOLEAN :
       live' = {ProviderCert(R.config, Last + 1)}
                 \cup (IF keep THEN {r \in live : r.signed.serial = Last} ELSE {})
  /\ UNCHANGED <<resolver, stamp, now, client>>

\* It forgets a key it has replaced.
Retire ==
  /\ R.rotates
  /\ Cardinality(live) > 1
  /\ live' = {r \in live : r.signed.serial = Last}
  /\ UNCHANGED <<resolver, stamp, now, client>>

\* A server of this crate stops, and starts again with its key file.
Stop ==
  /\ ~R.rotates
  /\ live # {}
  /\ live' = {}
  /\ UNCHANGED <<resolver, stamp, now, client>>

Start ==
  /\ ~R.rotates
  /\ live = {}
  /\ live' = Started(R.config, now)
  /\ UNCHANGED <<resolver, stamp, now, client>>

Tick ==
  /\ now < MaxTime
  /\ now' = now + 1
  /\ UNCHANGED <<resolver, stamp, live, client>>

\* DnsCryptUpstream::new gives an upstream for a stamp that parses.
Init ==
  /\ resolver \in DOMAIN Resolvers
  /\ parse_dnscrypt_stamp(StampOf(R)).ok
  /\ stamp = parse_dnscrypt_stamp(StampOf(R)).val
  /\ now = 0
  /\ live = IF R.rotates THEN {ProviderCert(R.config, 1)}
            ELSE Started(R.config, 0)
  /\ cert = None
  /\ pc = [q \in Queries |-> "idle"]
  /\ heard = [q \in Queries |-> {}]
  /\ using = [q \in Queries |-> None]
  /\ attempt = [q \in Queries |-> 1]
  /\ start = [q \in Queries |-> 0]
  /\ result = [q \in Queries |-> "none"]
  /\ answer = [q \in Queries |-> NoAnswer]

\* Steps that bring a query forward while the network delivers.
Served(q) == FetchTxt(q) \/ PickCert(q) \/ StoreCert(q) \/ UdpAnswer(q) \/ TcpAnswer(q)

Failed(q) == FetchErr(q) \/ BadAnswer(q) \/ IoErr(q) \/ Timeout(q)

Next ==
  \/ \E q \in Queries : Begin(q) \/ Served(q) \/ Failed(q)
  \/ Rotate \/ Retire \/ Stop \/ Start \/ Tick

Spec == Init /\ [][Next]_vars

(***************************************************************************)
(* Clients keep asking, every exchange meets its timeout at the latest,     *)
(* time passes, and a network that is asked again and again delivers again  *)
(* and again: the TXT answer comes back in time infinitely often.  A        *)
(* replaced key is forgotten at last.                                       *)
(***************************************************************************)
FairSpec ==
  /\ Spec
  /\ WF_vars(Tick) /\ WF_vars(Retire)
  /\ \A q \in Queries :
       /\ WF_vars(Begin(q)) /\ WF_vars(Timeout(q))
       /\ SF_vars(FetchTxt(q)) /\ SF_vars(PickCert(q)) /\ SF_vars(StoreCert(q))

----------------------------------------------------------------------------
\* The keys the resolver has or had: those its provider vouches for.
ResolverKeys ==
  IF R.rotates THEN {[i \in 1..KeyLen |-> s] : s \in Serials}
  ELSE {R.config.resolver_secret_key}

\* current_cert and refresh_cert: a query encrypts to a key of the resolver the
\* stamp names, whatever else is published beside it, and the certificate was
\* valid at some moment of that very exchange, whatever the other queries store
\* in the meantime.
UsesValidCert ==
  \A q \in Queries : pc[q] \in {"udp", "tcp"} =>
    /\ using[q].resolver_public_key \in ResolverKeys
    /\ \E t \in start[q]..now : using[q].ts_start <= t /\ t < using[q].ts_end

\* exchange_with_cert, respond and handle_udp_packet together: an exchange that
\* succeeds returns the whole answer the resolver's handler gave to this call's
\* own question, however long it is, whatever bytes it ends with, and whoever
\* else asks.
AnswersAreTheHandlers ==
  \A q \in Queries : result[q] = "ok" => answer[q] = handler(Request(q))

\* The resolver publishes a certificate that is valid now.
Serving == \E r \in live : r.signed.ts_start <= now /\ now < r.signed.ts_end

\* The resolver still holds the key of the cached certificate.
Answered == cert # None /\ \E r \in live : r.signed.resolver_public_key = cert.resolver_public_key

\* refresh_cert replaces an outdated certificate: once the resolver stops
\* replacing its key, and keeps publishing a valid certificate, the cache comes
\* to hold one the resolver answers to, for good, although a slow query may put
\* an older certificate back first.
RecoversFromRotation == <>[]Serving => <>[]Answered

\* "retries once with a freshly fetched certificate on timeout": no exchange
\* ends unanswered in its first attempt.
TimeoutIsRetried == \A q \in Queries : result[q] # "unanswered"
=============================================================================
