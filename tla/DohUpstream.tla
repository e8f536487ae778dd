---------------------------- MODULE DohUpstream ----------------------------
(***************************************************************************)
(* A DNS-over-HTTPS upstream shared by concurrent queries: DohUpstream of   *)
(* src/src/client/doh.rs and Http3Transport of src/src/client/doh3.rs.      *)
(* Three things are cached behind asynchronous mutexes: the HTTP/2 client,  *)
(* the HTTP/3 transport and, inside a transport, its connection (sender).   *)
(* The mutex stays locked while the cached thing is being created; where    *)
(* the code locks, looks and unlocks without awaiting, one step does all    *)
(* three.  Clients, transports and senders are numbered as they are made.   *)
(***************************************************************************)
EXTENDS Naturals, FiniteSets

CONSTANTS
  Queries,   \* concurrent calls of exchange
  Versions,  \* which of "tcp" (HTTP/1.1 and 2) and "h3" http_versions allows
  MaxMade,   \* bound on the clients, transports and senders made
  Free       \* a mutex nobody holds

ASSUME DohAssumption ==
  /\ Versions \subseteq {"tcp", "h3"}
  /\ Versions # {}
  /\ MaxMade \in Nat
  /\ Free \notin Queries

Ids == 0..MaxMade  \* 0 stands for None

VARIABLES
  made,        \* how many clients, transports and senders exist
  client,      \* the cached HTTP/2 client
  client_mx,   \* who holds its mutex across an await
  h3,          \* the cached transport
  h3_mx,
  inner,       \* inner[t]: the sender cached in transport t
  inner_mx,
  prefer_h3,   \* "unknown", "yes" or "no"
  pc,
  was_cached,
  transport,   \* the transport a query uses, over HTTP/3
  used,        \* the client or sender of the current attempt
  attempts,    \* the attempts a query has made
  seen,        \* what was made when the first attempt failed
  result       \* what each query returned last

slots == <<made, client, client_mx, h3, h3_mx, inner, inner_mx>>
local == <<was_cached, transport, used, attempts, seen>>
vars == <<slots, prefer_h3, pc, local, result>>

Goto(q, l) == pc' = [pc EXCEPT ![q] = l]

\* The call returns, and its locals are gone.
Return(q, r) ==
  /\ Goto(q, "idle")
  /\ result' = [result EXCEPT ![q] = r]
  /\ was_cached' = [was_cached EXCEPT ![q] = FALSE]
  /\ transport' = [transport EXCEPT ![q] = 0]
  /\ used' = [used EXCEPT ![q] = 0]
  /\ attempts' = [attempts EXCEPT ![q] = 0]
  /\ seen' = [seen EXCEPT ![q] = 0]

\* A new client, transport or sender.
Make(id) ==
  /\ made < MaxMade
  /\ id = made + 1
  /\ made' = id

----------------------------------------------------------------------------
(* exchange and should_use_http3 *)

FirstStep ==
  IF "h3" \notin Versions THEN "get_client"
  ELSE IF "tcp" \notin Versions THEN "get_transport"
  ELSE "prefer"

Begin(q) ==
  /\ pc[q] = "idle"
  /\ Goto(q, FirstStep)
  /\ result' = [result EXCEPT ![q] = "none"]
  /\ UNCHANGED <<slots, prefer_h3, local>>

\* Mutant of Prefer: every query probes again.
PreferAlwaysProbes(q) ==
  /\ pc[q] = "prefer"
  /\ Goto(q, "probe")
  /\ UNCHANGED <<slots, prefer_h3, local, result>>

Prefer(q) ==
  /\ pc[q] = "prefer"
  /\ Goto(q, CASE prefer_h3 = "unknown" -> "probe"
               [] prefer_h3 = "yes"     -> "get_transport"
               [] prefer_h3 = "no"      -> "get_client")
  /\ UNCHANGED <<slots, prefer_h3, local, result>>

\* probe_h3: the first handshake to end, well or not, decides.
Probe(q, first, ok) ==
  LET prefer == (first = "quic" /\ ok) \/ (first = "tls" /\ ~ok) IN
  /\ pc[q] = "probe"
  /\ prefer_h3' = IF prefer THEN "yes" ELSE "no"
  /\ Goto(q, IF prefer THEN "get_transport" ELSE "get_client")
  /\ UNCHANGED <<slots, local, result>>

\* The server's name does not resolve: nothing is cached.
ProbeErr(q) ==
  /\ pc[q] = "probe"
  /\ Return(q, "error")
  /\ UNCHANGED <<slots, prefer_h3>>

----------------------------------------------------------------------------
(* HTTP/2: get_client, exchange_https, reset_client                         *)

\* Mutant of GetClient: the mutex is released before the client is created.
GetClientUnlocked(q) ==
  /\ pc[q] = "get_client"
  /\ client_mx = Free
  /\ IF client # 0
     THEN /\ was_cached' = [was_cached EXCEPT ![q] = TRUE]
          /\ used' = [used EXCEPT ![q] = client]
          /\ attempts' = [attempts EXCEPT ![q] = 1]
          /\ Goto(q, "request")
     ELSE /\ Goto(q, "create")
          /\ UNCHANGED <<was_cached, used, attempts>>
  /\ UNCHANGED <<made, client, client_mx, h3, h3_mx, inner, inner_mx, prefer_h3, transport,
                 seen, result>>

GetClient(q) ==
  /\ pc[q] = "get_client"
  /\ client_mx = Free
  /\ IF client # 0
     THEN /\ was_cached' = [was_cached EXCEPT ![q] = TRUE]
          /\ used' = [used EXCEPT ![q] = client]
          /\ attempts' = [attempts EXCEPT ![q] = 1]
          /\ Goto(q, "request")
          /\ UNCHANGED client_mx
     ELSE /\ client_mx' = q
          /\ Goto(q, "create")
          /\ UNCHANGED <<was_cached, used, attempts>>
  /\ UNCHANGED <<made, client, h3, h3_mx, inner, inner_mx, prefer_h3, transport,
                 seen, result>>

\* create_client succeeds, in get_client or in reset_client.
CreateOk(q) ==
  /\ pc[q] \in {"create", "recreate"}
  /\ \E c \in Ids :
       /\ Make(c)
       /\ client' = c
       /\ used' = [used EXCEPT ![q] = c]
  /\ client_mx' = Free
  /\ was_cached' = [was_cached EXCEPT ![q] = (pc[q] = "recreate")]
  /\ attempts' = [attempts EXCEPT ![q] = @ + 1]
  /\ Goto(q, "request")
  /\ UNCHANGED <<h3, h3_mx, inner, inner_mx, prefer_h3, transport, seen, result>>

\* create_client fails, or in get_client took too long: `?` drops the guard.
CreateErr(q) ==
  /\ pc[q] \in {"create", "recreate"}
  /\ client_mx' = Free
  /\ Return(q, "error")
  /\ UNCHANGED <<made, client, h3, h3_mx, inner, inner_mx, prefer_h3>>

\* The response's header arrives within the timeout.
Headers(q) ==
  /\ pc[q] = "request"
  /\ Goto(q, "body")
  /\ UNCHANGED <<slots, prefer_h3, local, result>>

\* The body arrives; there is no timeout on it.
Body(q) ==
  /\ pc[q] = "body"
  /\ Return(q, "ok")
  /\ UNCHANGED <<slots, prefer_h3>>

\* The attempt fails.  A timeout is retried when the client came from the
\* cache; after any other error, and a failure of the only attempt, the
\* cached client is dropped; a failure of the retry is returned as it is.
Fail(q, timeout) ==
  /\ \/ pc[q] = "request"
     \/ pc[q] = "body" /\ ~timeout
  /\ IF attempts[q] = 2
     THEN Return(q, "error")
     ELSE /\ Goto(q, IF was_cached[q] /\ timeout THEN "reset" ELSE "drop")
          /\ seen' = [seen EXCEPT ![q] = made]
          /\ UNCHANGED <<result, was_cached, transport, used, attempts>>
  /\ UNCHANGED <<slots, prefer_h3>>

\* Mutant of Reset: a client that is still cached is taken again.
ResetReuses(q) ==
  /\ pc[q] = "reset"
  /\ client_mx = Free
  /\ IF client # 0
     THEN /\ used' = [used EXCEPT ![q] = client]
          /\ attempts' = [attempts EXCEPT ![q] = 2]
          /\ Goto(q, "request")
          /\ UNCHANGED client_mx
     ELSE /\ client_mx' = q
          /\ Goto(q, "recreate")
          /\ UNCHANGED <<used, attempts>>
  /\ UNCHANGED <<made, client, h3, h3_mx, inner, inner_mx, prefer_h3, was_cached,
                 transport, seen, result>>

Reset(q) ==
  /\ pc[q] = "reset"
  /\ client_mx = Free
  /\ client_mx' = q
  /\ Goto(q, "recreate")
  /\ UNCHANGED <<made, client, h3, h3_mx, inner, inner_mx, prefer_h3, local, result>>

\* reset_client_ignore_err, whichever client is cached by now.
Drop(q) ==
  /\ pc[q] = "drop"
  /\ client_mx = Free
  /\ client' = 0
  /\ Return(q, "error")
  /\ UNCHANGED <<made, client_mx, h3, h3_mx, inner, inner_mx, prefer_h3>>

----------------------------------------------------------------------------
(* HTTP/3: get_h3_transport, Http3Transport::exchange and its reset         *)

GetTransport(q) ==
  /\ pc[q] = "get_transport"
  /\ h3_mx = Free
  /\ IF h3 # 0
     THEN /\ was_cached' = [was_cached EXCEPT ![q] = TRUE]
          /\ transport' = [transport EXCEPT ![q] = h3]
          /\ attempts' = [attempts EXCEPT ![q] = 1]
          /\ Goto(q, "get_sender")
          /\ UNCHANGED h3_mx
     ELSE /\ h3_mx' = q
          /\ Goto(q, "resolve")
          /\ UNCHANGED <<was_cached, transport, attempts>>
  /\ UNCHANGED <<made, client, client_mx, h3, inner, inner_mx, prefer_h3, used,
                 seen, result>>

ResolveOk(q) ==
  /\ pc[q] = "resolve"
  /\ \E t \in Ids :
       /\ Make(t)
       /\ h3' = t
       /\ transport' = [transport EXCEPT ![q] = t]
  /\ h3_mx' = Free
  /\ was_cached' = [was_cached EXCEPT ![q] = FALSE]
  /\ attempts' = [attempts EXCEPT ![q] = 1]
  /\ Goto(q, "get_sender")
  /\ UNCHANGED <<client, client_mx, inner, inner_mx, prefer_h3, used, seen, result>>

ResolveErr(q) ==
  /\ pc[q] = "resolve"
  /\ h3_mx' = Free
  /\ Return(q, "error")
  /\ UNCHANGED <<made, client, client_mx, h3, inner, inner_mx, prefer_h3>>

GetSender(q) ==
  LET t == transport[q] IN
  /\ pc[q] = "get_sender"
  /\ inner_mx[t] = Free
  /\ IF inner[t] # 0
     THEN /\ used' = [used EXCEPT ![q] = inner[t]]
          /\ Goto(q, "h3_request")
          /\ UNCHANGED inner_mx
     ELSE /\ inner_mx' = [inner_mx EXCEPT ![t] = q]
          /\ Goto(q, "connect")
          /\ UNCHANGED used
  /\ UNCHANGED <<made, client, client_mx, h3, h3_mx, inner, prefer_h3, was_cached,
                 transport, attempts, seen, result>>

\* connect succeeds, in get_sender or in reset; after reset the second
\* exchange asks for the sender again.
ConnectOk(q) ==
  /\ pc[q] \in {"connect", "reconnect"}
  /\ \E s \in Ids :
       /\ Make(s)
       /\ inner' = [inner EXCEPT ![transport[q]] = s]
       /\ used' = [used EXCEPT ![q] = IF pc[q] = "connect" THEN s ELSE @]
  /\ inner_mx' = [inner_mx EXCEPT ![transport[q]] = Free]
  /\ attempts' = [attempts EXCEPT ![q] = IF pc[q] = "connect" THEN @ ELSE 2]
  /\ Goto(q, IF pc[q] = "connect" THEN "h3_request" ELSE "get_sender")
  /\ UNCHANGED <<client, client_mx, h3, h3_mx, prefer_h3, was_cached, transport,
                 seen, result>>

\* Where a failed HTTP/3 attempt goes on, as Fail does over HTTP/2.
AfterFailure(q, retryable) ==
  IF attempts[q] = 2
  THEN Return(q, "error")
  ELSE /\ Goto(q, IF was_cached[q] /\ retryable THEN "h3_reset" ELSE "h3_drop")
       /\ seen' = [seen EXCEPT ![q] = made]
       /\ UNCHANGED <<result, was_cached, transport, used, attempts>>

\* connect fails: in get_sender that fails the attempt, in reset the query.
ConnectErr(q, retryable) ==
  /\ \/ /\ pc[q] = "connect"
        /\ AfterFailure(q, retryable)
     \/ /\ pc[q] = "reconnect"
        /\ Return(q, "error")
  /\ inner_mx' = [inner_mx EXCEPT ![transport[q]] = Free]
  /\ UNCHANGED <<made, client, client_mx, h3, h3_mx, inner, prefer_h3>>

H3Ok(q) ==
  /\ pc[q] = "h3_request"
  /\ Return(q, "ok")
  /\ UNCHANGED <<slots, prefer_h3>>

H3Fail(q, retryable) ==
  /\ pc[q] = "h3_request"
  /\ AfterFailure(q, retryable)
  /\ UNCHANGED <<slots, prefer_h3>>

H3Reset(q) ==
  /\ pc[q] = "h3_reset"
  /\ inner_mx[transport[q]] = Free
  /\ inner_mx' = [inner_mx EXCEPT ![transport[q]] = q]
  /\ Goto(q, "reconnect")
  /\ UNCHANGED <<made, client, client_mx, h3, h3_mx, inner, prefer_h3, local, result>>

H3Drop(q) ==
  /\ pc[q] = "h3_drop"
  /\ h3_mx = Free
  /\ h3' = 0
  /\ Return(q, "error")
  /\ UNCHANGED <<made, client, client_mx, h3_mx, inner, inner_mx, prefer_h3>>

----------------------------------------------------------------------------
Unlocked(mx, q) == IF mx = q THEN Free ELSE mx

\* Mutant of Cancel: the guards are not dropped with the future.
CancelKeepsLocks(q) ==
  /\ pc[q] # "idle"
  /\ Return(q, "cancelled")
  /\ UNCHANGED <<slots, prefer_h3>>

\* A bootstrap lookup over this upstream loses its race or runs out of time:
\* the future is dropped where it waits, and its mutex guard with it.
Cancel(q) ==
  /\ pc[q] # "idle"
  /\ client_mx' = Unlocked(client_mx, q)
  /\ h3_mx' = Unlocked(h3_mx, q)
  /\ inner_mx' = [t \in Ids |-> Unlocked(inner_mx[t], q)]
  /\ Return(q, "cancelled")
  /\ UNCHANGED <<made, client, h3, inner, prefer_h3>>

Init ==
  /\ made = 0
  /\ client = 0
  /\ client_mx = Free
  /\ h3 = 0
  /\ h3_mx = Free
  /\ inner = [t \in Ids |-> 0]
  /\ inner_mx = [t \in Ids |-> Free]
  /\ prefer_h3 = "unknown"
  /\ pc = [q \in Queries |-> "idle"]
  /\ was_cached = [q \in Queries |-> FALSE]
  /\ transport = [q \in Queries |-> 0]
  /\ used = [q \in Queries |-> 0]
  /\ attempts = [q \in Queries |-> 0]
  /\ seen = [q \in Queries |-> 0]
  /\ result = [q \in Queries |-> "none"]

\* Steps that lock a mutex.
Lock(q) ==
  \/ GetClient(q) \/ Reset(q) \/ Drop(q)
  \/ GetTransport(q) \/ GetSender(q) \/ H3Reset(q) \/ H3Drop(q)

\* Steps a timeout, or the end of a handshake, brings about.
Timed(q) ==
  \/ Prefer(q)
  \/ \E first \in {"quic", "tls", "timeout"}, ok \in BOOLEAN : Probe(q, first, ok)
  \/ ProbeErr(q)
  \/ CreateOk(q) \/ CreateErr(q)
  \/ pc[q] = "request" /\ (Headers(q) \/ \E b \in BOOLEAN : Fail(q, b))
  \/ ResolveOk(q) \/ ResolveErr(q)
  \/ ConnectOk(q) \/ \E b \in BOOLEAN : ConnectErr(q, b)
  \/ H3Ok(q) \/ \E b \in BOOLEAN : H3Fail(q, b)

\* Steps only the server's body brings about.
BodyEnds(q) == Body(q) \/ (pc[q] = "body" /\ Fail(q, FALSE))

Next ==
  \E q \in Queries :
    Begin(q) \/ Lock(q) \/ Timed(q) \/ BodyEnds(q) \/ Cancel(q)

Spec == Init /\ [][Next]_vars

(***************************************************************************)
(* tokio's mutex serves its waiters in order, hence the strong fairness of  *)
(* Lock.  Options::timeout bounds lookups, probes, requests and HTTP/3      *)
(* exchanges, and quinn gives up a handshake by itself: every step of Timed *)
(* comes.  Nothing bounds the reading of an HTTP/2 body.                    *)
(***************************************************************************)
FairSpec == Spec /\ \A q \in Queries : SF_vars(Lock(q)) /\ WF_vars(Timed(q))

\* The same, with servers that finish, or break off, the bodies they begin.
LiveSpec == FairSpec /\ \A q \in Queries : WF_vars(BodyEnds(q))

----------------------------------------------------------------------------
Labels ==
  {"idle", "prefer", "probe", "get_client", "create", "request", "body", "reset",
   "recreate", "drop", "get_transport", "resolve", "get_sender", "connect",
   "h3_request", "h3_reset", "reconnect", "h3_drop"}

\* Every variable has the type of the field or local it stands for, and no
\* exchange makes a third attempt.
TypeOK ==
  /\ made \in Ids
  /\ client \in Ids
  /\ client_mx \in Queries \cup {Free}
  /\ h3 \in Ids
  /\ h3_mx \in Queries \cup {Free}
  /\ inner \in [Ids -> Ids]
  /\ inner_mx \in [Ids -> Queries \cup {Free}]
  /\ prefer_h3 \in {"unknown", "yes", "no"}
  /\ pc \in [Queries -> Labels]
  /\ was_cached \in [Queries -> BOOLEAN]
  /\ transport \in [Queries -> Ids]
  /\ used \in [Queries -> Ids]
  /\ attempts \in [Queries -> 0..2]
  /\ seen \in [Queries -> Ids]
  /\ result \in [Queries -> {"none", "ok", "error", "cancelled"}]

\* exchange and exchange_h3 retry with a fresh client: the second attempt of a
\* query runs on a client, or a connection, made after its first one failed.
RetryIsFresh ==
  \A q \in Queries :
    attempts[q] = 2 /\ pc[q] \in {"request", "body", "h3_request"} =>
      used[q] > seen[q]

\* The client an exchange has, and the transport.
HeldClient(q) ==
  IF pc[q] \in {"request", "body", "reset", "recreate", "drop"} THEN used[q] ELSE 0

ClientSlot == INSTANCE ConnSlot WITH Users <- Queries, slot <- client,
                                     conn <- [q \in Queries |-> HeldClient(q)]
TransportSlot == INSTANCE ConnSlot WITH Users <- Queries, slot <- h3, conn <- transport

\* The cached client and the cached transport change as ConnSlot says, each under
\* its own mutex: get_client and get_h3_transport make one only while none is
\* cached, reset_client replaces a failed one by one newer than all, and nothing
\* else touches the cached one but the exchange that gave up.
KeepsOneClient == ClientSlot!Spec /\ TransportSlot!Spec

\* should_use_http3 caches the probe's answer: queries that probe at the same
\* time may overwrite each other's, but the preference does not change for ever.
PreferenceSettles ==
  \A p \in {"yes", "no"} : <>[](prefer_h3 = p) \/ <>[](prefer_h3 # p)

\* The overall timeout: every call of exchange returns.
ExchangeReturns == \A q \in Queries : pc[q] # "idle" ~> pc[q] = "idle"
=============================================================================
