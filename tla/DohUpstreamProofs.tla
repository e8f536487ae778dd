------------------------- MODULE DohUpstreamProofs -------------------------
(***************************************************************************)
(* The client, the transport and the connections a DohUpstream keeps, for   *)
(* any number of queries: the two slots change as ConnSlot says, and a      *)
(* retry never runs on what failed the first attempt.                       *)
(***************************************************************************)
EXTENDS DohUpstream, TLAPS

\* The labels before an attempt, after a failed first one, and past get_client
\* and get_h3_transport.
Before == {"idle", "prefer", "probe", "get_client", "create", "get_transport", "resolve"}
AfterFirst == {"reset", "recreate", "drop", "h3_reset", "reconnect", "h3_drop"}
OnClient == {"request", "body", "reset", "recreate", "drop"}
OnTransport == {"get_sender", "connect", "h3_request", "h3_reset", "reconnect", "h3_drop"}

\* Each mutex is held by the exchange that fills its slot, which is empty in
\* get_client and get_h3_transport.
ClientMutex ==
  \A q \in Queries : /\ pc[q] \in {"create", "recreate"} <=> client_mx = q
                     /\ pc[q] = "create" => client = 0
TransportMutex ==
  \A q \in Queries : /\ pc[q] = "resolve" <=> h3_mx = q
                     /\ pc[q] = "resolve" => h3 = 0

\* An exchange has a client, or a transport, from the getter to its end.
HasOne ==
  \A q \in Queries : /\ pc[q] \in OnClient => used[q] # 0
                     /\ pc[q] \in OnTransport <=> transport[q] # 0

\* The number of attempts follows the label; a second HTTP/3 attempt finds
\* the sender that reset left, or a later one.
Attempted ==
  \A q \in Queries : /\ pc[q] \in Before => attempts[q] = 0
                     /\ pc[q] \in AfterFirst \cup {"connect"} => attempts[q] = 1
                     /\ pc[q] \notin Before => attempts[q] \in {1, 2}
Remade ==
  \A q \in Queries : /\ seen[q] <= made
                     /\ attempts[q] = 2 /\ pc[q] = "get_sender" => inner[transport[q]] > seen[q]

IInv == /\ TypeOK /\ ClientMutex /\ TransportMutex /\ HasOne
        /\ Attempted /\ Remade /\ RetryIsFresh

USE DohAssumption

\* Clients, transports and senders are numbers.
LEMMA IdsAreNat == /\ Ids \subseteq Nat
                   /\ [Queries -> Ids] \subseteq [Queries -> Nat]
                   /\ [Ids -> Ids] \subseteq [Ids -> Nat]
BY DEF Ids

----------------------------------------------------------------------------
(* The steps of an exchange, by what they do to its client or transport.    *)

\* exchange and should_use_http3 choose the protocol.
Chooses(q) ==
  /\ pc[q] \in {"idle", "prefer", "probe"}
  /\ \E l \in {"prefer", "probe", "get_client", "get_transport"} : Goto(q, l)
  /\ prefer_h3' \in {"unknown", "yes", "no"}
  /\ result' = result \/ result' = [result EXCEPT ![q] = "none"]
  /\ UNCHANGED <<slots, local>>

TakesClient(q) ==
  /\ pc[q] = "get_client"
  /\ client # 0
  /\ used' = [used EXCEPT ![q] = client]
  /\ attempts' = [attempts EXCEPT ![q] = 1]
  /\ was_cached' = [was_cached EXCEPT ![q] = TRUE]
  /\ Goto(q, "request")
  /\ UNCHANGED <<slots, prefer_h3, transport, seen, result>>

LocksClient(q) ==
  /\ client_mx = Free
  /\ client_mx' = q
  /\ \/ pc[q] = "get_client" /\ client = 0 /\ Goto(q, "create")
     \/ pc[q] = "reset" /\ Goto(q, "recreate")
  /\ UNCHANGED <<made, client, h3, h3_mx, inner, inner_mx, prefer_h3, local, result>>

MakesClient(q) ==
  /\ \/ pc[q] = "create" /\ attempts' = [attempts EXCEPT ![q] = 1]
     \/ pc[q] = "recreate" /\ attempts' = [attempts EXCEPT ![q] = 2]
  /\ made' \in Ids
  /\ made' = made + 1
  /\ client' = made'
  /\ used' = [used EXCEPT ![q] = made']
  /\ client_mx' = Free
  /\ \E b \in BOOLEAN : was_cached' = [was_cached EXCEPT ![q] = b]
  /\ Goto(q, "request")
  /\ UNCHANGED <<h3, h3_mx, inner, inner_mx, prefer_h3, transport, seen, result>>

TakesTransport(q) ==
  /\ pc[q] = "get_transport"
  /\ h3 # 0
  /\ transport' = [transport EXCEPT ![q] = h3]
  /\ attempts' = [attempts EXCEPT ![q] = 1]
  /\ was_cached' = [was_cached EXCEPT ![q] = TRUE]
  /\ Goto(q, "get_sender")
  /\ UNCHANGED <<slots, prefer_h3, used, seen, result>>

LocksTransport(q) ==
  /\ pc[q] = "get_transport"
  /\ h3 = 0
  /\ h3_mx = Free
  /\ h3_mx' = q
  /\ Goto(q, "resolve")
  /\ UNCHANGED <<made, client, client_mx, h3, inner, inner_mx, prefer_h3, local, result>>

MakesTransport(q) ==
  /\ pc[q] = "resolve"
  /\ made' \in Ids
  /\ made' = made + 1
  /\ h3' = made'
  /\ transport' = [transport EXCEPT ![q] = made']
  /\ attempts' = [attempts EXCEPT ![q] = 1]
  /\ was_cached' = [was_cached EXCEPT ![q] = FALSE]
  /\ h3_mx' = Free
  /\ Goto(q, "get_sender")
  /\ UNCHANGED <<client, client_mx, inner, inner_mx, prefer_h3, used, seen, result>>

TakesSender(q) ==
  /\ pc[q] = "get_sender"
  /\ used' = [used EXCEPT ![q] = inner[transport[q]]]
  /\ Goto(q, "h3_request")
  /\ UNCHANGED <<slots, prefer_h3, was_cached, transport, attempts, seen, result>>

LocksSender(q) ==
  /\ \/ pc[q] = "get_sender" /\ inner[transport[q]] = 0 /\ Goto(q, "connect")
     \/ pc[q] = "h3_reset" /\ Goto(q, "reconnect")
  /\ inner_mx' = [inner_mx EXCEPT ![transport[q]] = q]
  /\ UNCHANGED <<made, client, client_mx, h3, h3_mx, inner, prefer_h3, local, result>>

MakesSender(q) ==
  /\ made' \in Ids
  /\ made' = made + 1
  /\ inner' = [inner EXCEPT ![transport[q]] = made']
  /\ inner_mx' = [inner_mx EXCEPT ![transport[q]] = Free]
  /\ UNCHANGED <<client, client_mx, h3, h3_mx, prefer_h3, was_cached, transport, seen, result>>

\* In get_sender, for the first attempt,
Connects(q) ==
  /\ MakesSender(q)
  /\ pc[q] = "connect"
  /\ used' = [used EXCEPT ![q] = made']
  /\ Goto(q, "h3_request")
  /\ UNCHANGED attempts

\* or in reset, for the second one.
Reconnects(q) ==
  /\ MakesSender(q)
  /\ pc[q] = "reconnect"
  /\ attempts' = [attempts EXCEPT ![q] = 2]
  /\ Goto(q, "get_sender")
  /\ UNCHANGED used

\* A first attempt fails and is to be retried or given up.
FailsFirst(q) ==
  /\ \/ pc[q] \in {"request", "body"} /\ (Goto(q, "reset") \/ Goto(q, "drop"))
     \/ pc[q] \in {"connect", "h3_request"} /\ (Goto(q, "h3_reset") \/ Goto(q, "h3_drop"))
  /\ attempts[q] # 2
  /\ seen' = [seen EXCEPT ![q] = made]
  /\ \/ UNCHANGED inner_mx
     \/ inner_mx' = [inner_mx EXCEPT ![transport[q]] = Free]
  /\ UNCHANGED <<made, client, client_mx, h3, h3_mx, inner, prefer_h3, was_cached,
                 transport, used, attempts, result>>

\* A query ends, well or not, and leaves the mutex it may hold.
Returns(q) ==
  /\ pc[q] # "idle"
  /\ \E r \in {"ok", "error", "cancelled"} : Return(q, r)
  /\ client_mx' = IF client_mx = q THEN Free ELSE client_mx
  /\ h3_mx' = IF h3_mx = q THEN Free ELSE h3_mx
  /\ inner_mx' \in [Ids -> Queries \cup {Free}]
  /\ client' = client \/ (pc[q] = "drop" /\ client_mx = Free /\ client' = 0)
  /\ h3' = h3 \/ (pc[q] = "h3_drop" /\ h3_mx = Free /\ h3' = 0)
  /\ UNCHANGED <<made, inner, prefer_h3>>

\* Every step of an upstream is one of these.
LEMMA Steps ==
  ASSUME IInv, [Next]_vars, ~UNCHANGED vars
  PROVE  \E q \in Queries :
           \/ Chooses(q) \/ Headers(q) \/ FailsFirst(q) \/ Returns(q)
           \/ TakesClient(q) \/ LocksClient(q) \/ MakesClient(q)
           \/ TakesTransport(q) \/ LocksTransport(q) \/ MakesTransport(q)
           \/ TakesSender(q) \/ LocksSender(q) \/ Connects(q) \/ Reconnects(q)
<1> USE DEF IInv
<1>1. PICK q \in Queries : Begin(q) \/ Lock(q) \/ Timed(q) \/ BodyEnds(q) \/ Cancel(q)
  BY DEF Next
<1>2. ASSUME NEW b \in BOOLEAN, Fail(q, b) PROVE FailsFirst(q) \/ Returns(q)
  <2>1. CASE attempts[q] = 2
    BY <1>2, <2>1 DEF Fail, Returns, ClientMutex, TransportMutex, slots, TypeOK
  <2>2. CASE attempts[q] # 2
    <3>1. Goto(q, "reset") \/ Goto(q, "drop")
      BY <1>2, <2>2 DEF Fail
    <3> QED
      BY <1>2, <2>2, <3>1 DEF Fail, FailsFirst, slots
  <2> QED
    BY <2>1, <2>2
<1>3. ASSUME NEW b \in BOOLEAN, H3Fail(q, b) PROVE FailsFirst(q) \/ Returns(q)
  <2>1. CASE attempts[q] = 2
    BY <1>3, <2>1 DEF H3Fail, AfterFailure, Returns, ClientMutex, TransportMutex, slots, TypeOK
  <2>2. CASE attempts[q] # 2
    <3>1. Goto(q, "h3_reset") \/ Goto(q, "h3_drop")
      BY <1>3, <2>2 DEF H3Fail, AfterFailure
    <3> QED
      BY <1>3, <2>2, <3>1 DEF H3Fail, AfterFailure, FailsFirst, slots
  <2> QED
    BY <2>1, <2>2
<1>4. ASSUME NEW b \in BOOLEAN, ConnectErr(q, b) PROVE FailsFirst(q) \/ Returns(q)
  <2>1. CASE pc[q] = "connect"
    <3>1. attempts[q] # 2
      BY <2>1 DEF Attempted
    <3>2. Goto(q, "h3_reset") \/ Goto(q, "h3_drop")
      BY <1>4, <2>1, <3>1 DEF ConnectErr, AfterFailure
    <3> QED
      BY <1>4, <2>1, <3>1, <3>2 DEF ConnectErr, AfterFailure, FailsFirst
  <2>2. CASE pc[q] = "reconnect"
    BY <1>4, <2>2 DEF ConnectErr, Returns, ClientMutex, TransportMutex, TypeOK
  <2> QED
    BY <1>4, <2>1, <2>2 DEF ConnectErr
<1>5. ASSUME Drop(q) \/ H3Drop(q) PROVE Returns(q)
  BY <1>5 DEF Drop, H3Drop, Returns, ClientMutex, TransportMutex, TypeOK
<1>6. ASSUME ProbeErr(q) \/ Body(q) \/ H3Ok(q) PROVE Returns(q)
  BY <1>6 DEF ProbeErr, Body, H3Ok, Returns, ClientMutex, TransportMutex, slots, TypeOK
<1>7. ASSUME CreateErr(q) \/ ResolveErr(q) PROVE Returns(q)
  BY <1>7 DEF CreateErr, ResolveErr, Returns, ClientMutex, TransportMutex, TypeOK
<1>8. ASSUME Cancel(q) PROVE Returns(q)
  BY <1>8 DEF Cancel, Returns, Unlocked, TypeOK
<1>9. ASSUME Begin(q) \/ Prefer(q) PROVE Chooses(q)
  <2>1. PICK l \in {"prefer", "probe", "get_client", "get_transport"} : Goto(q, l)
    BY <1>9 DEF Begin, Prefer, FirstStep, TypeOK
  <2> QED
    BY <1>9, <2>1 DEF Begin, Prefer, Chooses, TypeOK
<1>10. ASSUME NEW first \in {"quic", "tls", "timeout"}, NEW ok \in BOOLEAN, Probe(q, first, ok)
       PROVE  Chooses(q)
  <2>1. PICK l \in {"prefer", "probe", "get_client", "get_transport"} : Goto(q, l)
    BY <1>10 DEF Probe
  <2> QED
    BY <1>10, <2>1 DEF Probe, Chooses
<1>11. ASSUME GetClient(q) PROVE TakesClient(q) \/ LocksClient(q)
  BY <1>11 DEF GetClient, TakesClient, LocksClient, slots, local
<1>12. ASSUME Reset(q) PROVE LocksClient(q)
  BY <1>12 DEF Reset, LocksClient
<1>13. ASSUME CreateOk(q) PROVE MakesClient(q)
  <2>1. (pc[q] = "recreate") \in BOOLEAN
    OBVIOUS
  <2>2. \/ pc[q] = "create" /\ attempts[q] + 1 = 1
        \/ pc[q] = "recreate" /\ attempts[q] + 1 = 2
    BY <1>13 DEF CreateOk, Attempted, Before, AfterFirst
  <2>3. \/ pc[q] = "create" /\ attempts' = [attempts EXCEPT ![q] = 1]
        \/ pc[q] = "recreate" /\ attempts' = [attempts EXCEPT ![q] = 2]
    BY <1>13, <2>2, ZenonT(30) DEF CreateOk
  <2>4. /\ made' \in Ids /\ made' = made + 1 /\ client' = made'
        /\ used' = [used EXCEPT ![q] = made']
    BY <1>13 DEF CreateOk, Make
  <2> QED
    BY <1>13, <2>1, <2>3, <2>4, ZenonT(30) DEF CreateOk, MakesClient
<1>14. ASSUME GetTransport(q) PROVE TakesTransport(q) \/ LocksTransport(q)
  BY <1>14 DEF GetTransport, TakesTransport, LocksTransport, slots, local
<1>15. ASSUME ResolveOk(q) PROVE MakesTransport(q)
  BY <1>15 DEF ResolveOk, Make, MakesTransport
<1>16. ASSUME GetSender(q) PROVE TakesSender(q) \/ LocksSender(q)
  BY <1>16 DEF GetSender, TakesSender, LocksSender, slots, local
<1>17. ASSUME H3Reset(q) PROVE LocksSender(q)
  BY <1>17 DEF H3Reset, LocksSender
<1>18. ASSUME ConnectOk(q) PROVE Connects(q) \/ Reconnects(q)
  <2>1. CASE pc[q] = "connect"
    BY <1>18, <2>1 DEF ConnectOk, Make, MakesSender, Connects, TypeOK
  <2>2. CASE pc[q] = "reconnect"
    BY <1>18, <2>2 DEF ConnectOk, Make, MakesSender, Reconnects, TypeOK
  <2> QED
    BY <1>18, <2>1, <2>2 DEF ConnectOk
<1> QED
  BY <1>1, <1>2, <1>3, <1>4, <1>5, <1>6, <1>7, <1>8, <1>9, <1>10, <1>11, <1>12, <1>13,
     <1>14, <1>15, <1>16, <1>17, <1>18, ZenonT(30) DEF Lock, Timed, BodyEnds

\* The fields of DohUpstream and the locals of exchange keep their types.
LEMMA TypePreserved == IInv /\ [Next]_vars => TypeOK'
<1> SUFFICES ASSUME IInv, [Next]_vars PROVE TypeOK'
  OBVIOUS
<1>0. TypeOK /\ 0 \in Ids
  BY DEF IInv, Ids
<1> USE DEF TypeOK, Labels
<1>1. CASE UNCHANGED vars
  BY <1>1, <1>0 DEF vars, slots, local
<1>2. ASSUME NEW q \in Queries, Chooses(q) PROVE TypeOK'
  BY <1>2, <1>0 DEF Chooses, Goto, slots, local
<1>3. ASSUME NEW q \in Queries, Headers(q) PROVE TypeOK'
  BY <1>3, <1>0 DEF Headers, Goto, slots, local
<1>4. ASSUME NEW q \in Queries, FailsFirst(q) PROVE TypeOK'
  BY <1>4, <1>0 DEF FailsFirst, Goto
<1>5. ASSUME NEW q \in Queries, Returns(q) PROVE TypeOK'
  BY <1>5, <1>0 DEF Returns, Return, Goto
<1>6. ASSUME NEW q \in Queries, TakesClient(q) PROVE TypeOK'
  BY <1>6, <1>0 DEF TakesClient, Goto, slots
<1>7. ASSUME NEW q \in Queries, LocksClient(q) PROVE TypeOK'
  BY <1>7, <1>0 DEF LocksClient, Goto, local
<1>8. ASSUME NEW q \in Queries, MakesClient(q) PROVE TypeOK'
  BY <1>8, <1>0 DEF MakesClient, Goto
<1>9. ASSUME NEW q \in Queries, TakesTransport(q) PROVE TypeOK'
  BY <1>9, <1>0 DEF TakesTransport, Goto, slots
<1>10. ASSUME NEW q \in Queries, LocksTransport(q) PROVE TypeOK'
  BY <1>10, <1>0 DEF LocksTransport, Goto, local
<1>11. ASSUME NEW q \in Queries, MakesTransport(q) PROVE TypeOK'
  BY <1>11, <1>0 DEF MakesTransport, Goto
<1>12. ASSUME NEW q \in Queries, TakesSender(q) PROVE TypeOK'
  BY <1>12, <1>0 DEF TakesSender, Goto, slots
<1>13. ASSUME NEW q \in Queries, LocksSender(q) PROVE TypeOK'
  BY <1>13, <1>0 DEF LocksSender, Goto, local
<1>14. ASSUME NEW q \in Queries, Connects(q) PROVE TypeOK'
  BY <1>14, <1>0 DEF Connects, MakesSender, Goto
<1>15. ASSUME NEW q \in Queries, Reconnects(q) PROVE TypeOK'
  BY <1>15, <1>0 DEF Reconnects, MakesSender, Goto
<1> HIDE DEF TypeOK, Labels
<1> QED
  BY <1>1, <1>2, <1>3, <1>4, <1>5, <1>6, <1>7, <1>8, <1>9,
     <1>10, <1>11, <1>12, <1>13, <1>14, <1>15, Steps, ZenonT(30)

\* The mutexes of get_client, reset_client and get_h3_transport do their work.
LEMMA MutexPreserved == IInv /\ [Next]_vars => (ClientMutex /\ TransportMutex)'
<1> SUFFICES ASSUME IInv, [Next]_vars PROVE (ClientMutex /\ TransportMutex)'
  OBVIOUS
<1>0. pc \in [Queries -> Labels] /\ ClientMutex /\ TransportMutex
  BY DEF IInv, TypeOK
<1> USE DEF ClientMutex, TransportMutex
<1>1. CASE UNCHANGED vars
  BY <1>1, <1>0 DEF vars, slots, local
<1>2. ASSUME NEW q \in Queries, Chooses(q) PROVE (ClientMutex /\ TransportMutex)'
  BY <1>2, <1>0 DEF Chooses, Goto, slots, local
<1>3. ASSUME NEW q \in Queries, Headers(q) PROVE (ClientMutex /\ TransportMutex)'
  BY <1>3, <1>0 DEF Headers, Goto, slots, local
<1>4. ASSUME NEW q \in Queries, FailsFirst(q) PROVE (ClientMutex /\ TransportMutex)'
  BY <1>4, <1>0 DEF FailsFirst, Goto
<1>5. ASSUME NEW q \in Queries, Returns(q) PROVE (ClientMutex /\ TransportMutex)'
  BY <1>5, <1>0 DEF Returns, Return, Goto
<1>6. ASSUME NEW q \in Queries, TakesClient(q) PROVE (ClientMutex /\ TransportMutex)'
  BY <1>6, <1>0 DEF TakesClient, Goto, slots
<1>7. ASSUME NEW q \in Queries, LocksClient(q) PROVE (ClientMutex /\ TransportMutex)'
  BY <1>7, <1>0 DEF LocksClient, Goto, local
<1>8. ASSUME NEW q \in Queries, MakesClient(q) PROVE (ClientMutex /\ TransportMutex)'
  BY <1>8, <1>0 DEF MakesClient, Goto
<1>9. ASSUME NEW q \in Queries, TakesTransport(q) PROVE (ClientMutex /\ TransportMutex)'
  BY <1>9, <1>0 DEF TakesTransport, Goto, slots
<1>10. ASSUME NEW q \in Queries, LocksTransport(q) PROVE (ClientMutex /\ TransportMutex)'
  BY <1>10, <1>0 DEF LocksTransport, Goto, local
<1>11. ASSUME NEW q \in Queries, MakesTransport(q) PROVE (ClientMutex /\ TransportMutex)'
  BY <1>11, <1>0 DEF MakesTransport, Goto
<1>12. ASSUME NEW q \in Queries, TakesSender(q) PROVE (ClientMutex /\ TransportMutex)'
  BY <1>12, <1>0 DEF TakesSender, Goto, slots
<1>13. ASSUME NEW q \in Queries, LocksSender(q) PROVE (ClientMutex /\ TransportMutex)'
  BY <1>13, <1>0 DEF LocksSender, Goto, local
<1>14. ASSUME NEW q \in Queries, Connects(q) PROVE (ClientMutex /\ TransportMutex)'
  BY <1>14, <1>0 DEF Connects, MakesSender, Goto
<1>15. ASSUME NEW q \in Queries, Reconnects(q) PROVE (ClientMutex /\ TransportMutex)'
  BY <1>15, <1>0 DEF Reconnects, MakesSender, Goto
<1> HIDE DEF ClientMutex, TransportMutex
<1> QED
  BY <1>1, <1>2, <1>3, <1>4, <1>5, <1>6, <1>7, <1>8, <1>9,
     <1>10, <1>11, <1>12, <1>13, <1>14, <1>15, Steps, ZenonT(30)

\* An exchange keeps its client, or its transport, until it returns.
LEMMA HasOnePreserved == IInv /\ [Next]_vars => HasOne'
<1> SUFFICES ASSUME IInv, [Next]_vars PROVE HasOne'
  OBVIOUS
<1>0. /\ HasOne /\ pc \in [Queries -> Labels] /\ made \in Nat
      /\ used \in [Queries -> Ids] /\ transport \in [Queries -> Ids]
  BY IdsAreNat DEF IInv, TypeOK
<1> USE DEF HasOne, OnClient, OnTransport
<1>1. CASE UNCHANGED vars
  BY <1>1, <1>0 DEF vars, slots, local
<1>2. ASSUME NEW q \in Queries, Chooses(q) PROVE HasOne'
  BY <1>2, <1>0 DEF Chooses, Goto, slots, local
<1>3. ASSUME NEW q \in Queries, Headers(q) PROVE HasOne'
  BY <1>3, <1>0 DEF Headers, Goto, slots, local
<1>4. ASSUME NEW q \in Queries, FailsFirst(q) PROVE HasOne'
  BY <1>4, <1>0 DEF FailsFirst, Goto
<1>5. ASSUME NEW q \in Queries, Returns(q) PROVE HasOne'
  BY <1>5, <1>0 DEF Returns, Return, Goto
<1>6. ASSUME NEW q \in Queries, TakesClient(q) PROVE HasOne'
  BY <1>6, <1>0 DEF TakesClient, Goto, slots
<1>7. ASSUME NEW q \in Queries, LocksClient(q) PROVE HasOne'
  BY <1>7, <1>0 DEF LocksClient, Goto, local
<1>8. ASSUME NEW q \in Queries, MakesClient(q) PROVE HasOne'
  BY <1>8, <1>0 DEF MakesClient, Goto
<1>9. ASSUME NEW q \in Queries, TakesTransport(q) PROVE HasOne'
  BY <1>9, <1>0 DEF TakesTransport, Goto, slots
<1>10. ASSUME NEW q \in Queries, LocksTransport(q) PROVE HasOne'
  BY <1>10, <1>0 DEF LocksTransport, Goto, local
<1>11. ASSUME NEW q \in Queries, MakesTransport(q) PROVE HasOne'
  BY <1>11, <1>0 DEF MakesTransport, Goto
<1>12. ASSUME NEW q \in Queries, TakesSender(q) PROVE HasOne'
  BY <1>12, <1>0 DEF TakesSender, Goto, slots
<1>13. ASSUME NEW q \in Queries, LocksSender(q) PROVE HasOne'
  BY <1>13, <1>0 DEF LocksSender, Goto, local
<1>14. ASSUME NEW q \in Queries, Connects(q) PROVE HasOne'
  BY <1>14, <1>0 DEF Connects, MakesSender, Goto
<1>15. ASSUME NEW q \in Queries, Reconnects(q) PROVE HasOne'
  BY <1>15, <1>0 DEF Reconnects, MakesSender, Goto
<1> HIDE DEF HasOne, OnClient, OnTransport
<1> QED
  BY <1>1, <1>2, <1>3, <1>4, <1>5, <1>6, <1>7, <1>8, <1>9,
     <1>10, <1>11, <1>12, <1>13, <1>14, <1>15, Steps, ZenonT(30)

\* Each exchange counts its attempts.
LEMMA AttemptsPreserved == IInv /\ [Next]_vars => Attempted'
<1> SUFFICES ASSUME IInv, [Next]_vars PROVE Attempted'
  OBVIOUS
<1>0. /\ Attempted /\ Remade /\ pc \in [Queries -> Labels]
      /\ attempts \in [Queries -> 0..2] /\ seen \in [Queries -> Nat]
  BY IdsAreNat DEF IInv, TypeOK
<1> USE DEF Attempted, Before, AfterFirst
<1>1. CASE UNCHANGED vars
  BY <1>1, <1>0 DEF vars, slots, local
<1>2. ASSUME NEW q \in Queries, Chooses(q) PROVE Attempted'
  BY <1>2, <1>0 DEF Chooses, Goto, slots, local
<1>3. ASSUME NEW q \in Queries, Headers(q) PROVE Attempted'
  BY <1>3, <1>0 DEF Headers, Goto, slots, local
<1>4. ASSUME NEW q \in Queries, FailsFirst(q) PROVE Attempted'
  BY <1>4, <1>0 DEF FailsFirst, Goto
<1>5. ASSUME NEW q \in Queries, Returns(q) PROVE Attempted'
  BY <1>5, <1>0 DEF Returns, Return, Goto
<1>6. ASSUME NEW q \in Queries, TakesClient(q) PROVE Attempted'
  BY <1>6, <1>0 DEF TakesClient, Goto, slots
<1>7. ASSUME NEW q \in Queries, LocksClient(q) PROVE Attempted'
  BY <1>7, <1>0 DEF LocksClient, Goto, local
<1>8. ASSUME NEW q \in Queries, MakesClient(q) PROVE Attempted'
  BY <1>8, <1>0 DEF MakesClient, Goto
<1>9. ASSUME NEW q \in Queries, TakesTransport(q) PROVE Attempted'
  BY <1>9, <1>0 DEF TakesTransport, Goto, slots
<1>10. ASSUME NEW q \in Queries, LocksTransport(q) PROVE Attempted'
  BY <1>10, <1>0 DEF LocksTransport, Goto, local
<1>11. ASSUME NEW q \in Queries, MakesTransport(q) PROVE Attempted'
  BY <1>11, <1>0 DEF MakesTransport, Goto
<1>12. ASSUME NEW q \in Queries, TakesSender(q) PROVE Attempted'
  BY <1>12, <1>0, SMTT(30) DEF TakesSender, Goto, slots
<1>13. ASSUME NEW q \in Queries, LocksSender(q) PROVE Attempted'
  <2>1. attempts[q] = 1
    BY <1>13, <1>0, SMTT(30) DEF LocksSender, Remade
  <2> QED
    BY <1>13, <1>0, <2>1 DEF LocksSender, Goto, local
<1>14. ASSUME NEW q \in Queries, Connects(q) PROVE Attempted'
  BY <1>14, <1>0 DEF Connects, MakesSender, Goto
<1>15. ASSUME NEW q \in Queries, Reconnects(q) PROVE Attempted'
  BY <1>15, <1>0 DEF Reconnects, MakesSender, Goto
<1> HIDE DEF Attempted, Before, AfterFirst
<1> QED
  BY <1>1, <1>2, <1>3, <1>4, <1>5, <1>6, <1>7, <1>8, <1>9,
     <1>10, <1>11, <1>12, <1>13, <1>14, <1>15, Steps, ZenonT(30)

\* What a retry runs on is made after the failure it recovers from.
LEMMA RetryPreserved == IInv /\ [Next]_vars => (Remade /\ RetryIsFresh)'
<1> SUFFICES ASSUME IInv, [Next]_vars PROVE (Remade /\ RetryIsFresh)'
  OBVIOUS
<1>0. /\ Remade /\ RetryIsFresh /\ Attempted /\ pc \in [Queries -> Labels] /\ made \in Nat
      /\ attempts \in [Queries -> 0..2] /\ seen \in [Queries -> Nat] /\ used \in [Queries -> Nat]
      /\ transport \in [Queries -> Ids] /\ inner \in [Ids -> Nat]
  BY IdsAreNat DEF IInv, TypeOK
<1> USE DEF Remade, RetryIsFresh, Attempted, Before, AfterFirst
<1>1. CASE UNCHANGED vars
  BY <1>1, <1>0 DEF vars, slots, local
<1>2. ASSUME NEW q \in Queries, Chooses(q) PROVE (Remade /\ RetryIsFresh)'
  BY <1>2, <1>0 DEF Chooses, Goto, slots, local
<1>3. ASSUME NEW q \in Queries, Headers(q) PROVE (Remade /\ RetryIsFresh)'
  BY <1>3, <1>0 DEF Headers, Goto, slots, local
<1>4. ASSUME NEW q \in Queries, FailsFirst(q) PROVE (Remade /\ RetryIsFresh)'
  BY <1>4, <1>0, SMTT(30) DEF FailsFirst, Goto
<1>5. ASSUME NEW q \in Queries, Returns(q) PROVE (Remade /\ RetryIsFresh)'
  BY <1>5, <1>0, SMTT(30) DEF Returns, Return, Goto
<1>6. ASSUME NEW q \in Queries, TakesClient(q) PROVE (Remade /\ RetryIsFresh)'
  BY <1>6, <1>0 DEF TakesClient, Goto, slots
<1>7. ASSUME NEW q \in Queries, LocksClient(q) PROVE (Remade /\ RetryIsFresh)'
  BY <1>7, <1>0 DEF LocksClient, Goto, local
<1>8. ASSUME NEW q \in Queries, MakesClient(q) PROVE (Remade /\ RetryIsFresh)'
  BY <1>8, <1>0 DEF MakesClient, Goto
<1>9. ASSUME NEW q \in Queries, TakesTransport(q) PROVE (Remade /\ RetryIsFresh)'
  BY <1>9, <1>0 DEF TakesTransport, Goto, slots
<1>10. ASSUME NEW q \in Queries, LocksTransport(q) PROVE (Remade /\ RetryIsFresh)'
  BY <1>10, <1>0 DEF LocksTransport, Goto, local
<1>11. ASSUME NEW q \in Queries, MakesTransport(q) PROVE (Remade /\ RetryIsFresh)'
  BY <1>11, <1>0 DEF MakesTransport, Goto
<1>12. ASSUME NEW q \in Queries, TakesSender(q) PROVE (Remade /\ RetryIsFresh)'
  BY <1>12, <1>0 DEF TakesSender, Goto, slots
<1>13. ASSUME NEW q \in Queries, LocksSender(q) PROVE (Remade /\ RetryIsFresh)'
  BY <1>13, <1>0 DEF LocksSender, Goto, local
<1>14. ASSUME NEW q \in Queries, Connects(q) PROVE (Remade /\ RetryIsFresh)'
  BY <1>14, <1>0, SMTT(30) DEF Connects, MakesSender, Goto
<1>15. ASSUME NEW q \in Queries, Reconnects(q) PROVE (Remade /\ RetryIsFresh)'
  BY <1>15, <1>0, SMTT(30) DEF Reconnects, MakesSender, Goto
<1> HIDE DEF Remade, RetryIsFresh, Attempted, Before, AfterFirst
<1> QED
  BY <1>1, <1>2, <1>3, <1>4, <1>5, <1>6, <1>7, <1>8, <1>9,
     <1>10, <1>11, <1>12, <1>13, <1>14, <1>15, Steps, ZenonT(30)

LEMMA InitIInv == Init => IInv
<1> SUFFICES ASSUME Init PROVE IInv
  OBVIOUS
<1>1. TypeOK
  BY DEF Init, TypeOK, Labels, Ids
<1>2. ClientMutex /\ TransportMutex /\ HasOne
  BY DEF Init, ClientMutex, TransportMutex, HasOne, OnClient, OnTransport
<1>3. Attempted /\ Remade /\ RetryIsFresh
  BY DEF Init, Attempted, Before, AfterFirst, Remade, RetryIsFresh
<1> QED
  BY <1>1, <1>2, <1>3 DEF IInv

LEMMA NextIInv == IInv /\ [Next]_vars => IInv'
BY TypePreserved, MutexPreserved, HasOnePreserved, AttemptsPreserved, RetryPreserved DEF IInv

\* For any number of queries, a second attempt of exchange_https or of
\* Http3Transport::exchange runs on a client or a connection made after the
\* first one failed.
THEOREM RetriesAreFresh == Spec => []RetryIsFresh
<1>1. IInv => RetryIsFresh
  BY DEF IInv
<1> QED
  BY InitIInv, NextIInv, <1>1, PTL DEF Spec

----------------------------------------------------------------------------
(* DohUpstream implements ConnSlot, twice *)

held == [q \in Queries |-> HeldClient(q)]

\* A step of the upstream is a step of ConnSlot on the cached client, or
\* leaves what it sees alone.
LEMMA ClientSimulates == IInv /\ [Next]_vars => [ClientSlot!Next]_<<client, held>>
<1> SUFFICES ASSUME IInv, [Next]_vars PROVE [ClientSlot!Next]_<<client, held>>
  OBVIOUS
<1>0. /\ pc \in [Queries -> Labels] /\ used \in [Queries -> Nat] /\ made \in Nat
      /\ ClientMutex /\ HasOne
  BY IdsAreNat DEF IInv, TypeOK
<1>1. CASE UNCHANGED vars
  BY <1>1 DEF vars, slots, local, held, HeldClient
<1>2. ASSUME NEW q \in Queries,
             \/ Chooses(q) \/ Headers(q) \/ LocksClient(q)
             \/ TakesTransport(q) \/ LocksTransport(q) \/ MakesTransport(q) \/ LocksSender(q)
      PROVE  UNCHANGED <<client, held>>
  <2>1. UNCHANGED <<client, used>>
    BY <1>2, SMTT(30) DEF Chooses, Headers, LocksClient, TakesTransport, LocksTransport,
                          MakesTransport, LocksSender, slots, local
  <2>2. PICK l : /\ Goto(q, l)
                 /\ pc[q] \in {"request", "body", "reset", "recreate", "drop"} <=>
                      l \in {"request", "body", "reset", "recreate", "drop"}
    BY <1>2, SMTT(30) DEF Chooses, Headers, LocksClient, TakesTransport, LocksTransport,
                          MakesTransport, LocksSender
  <2> QED
    BY <1>0, <2>1, <2>2 DEF Goto, held, HeldClient
<1>3. ASSUME NEW q \in Queries, TakesSender(q) \/ Connects(q) \/ Reconnects(q)
      PROVE  UNCHANGED <<client, held>>
  <2>1. UNCHANGED client /\ \E n : used' = [used EXCEPT ![q] = n]
    <3>1. used = [used EXCEPT ![q] = used[q]]
      BY <1>0
    <3> QED
      BY <1>3, <3>1 DEF TakesSender, Connects, Reconnects, MakesSender, slots
  <2>2. PICK l \in {"h3_request", "get_sender"} : Goto(q, l)
    BY <1>3, SMTT(30) DEF TakesSender, Connects, Reconnects
  <2>3. pc[q] \notin {"request", "body", "reset", "recreate", "drop"}
    BY <1>3 DEF TakesSender, Connects, Reconnects
  <2> QED
    BY <1>0, <2>1, <2>2, <2>3 DEF Goto, held, HeldClient
<1>4. ASSUME NEW q \in Queries, FailsFirst(q) PROVE UNCHANGED <<client, held>>
  <2>1. UNCHANGED <<client, used>>
    BY <1>4 DEF FailsFirst
  <2>2. PICK l : /\ Goto(q, l)
                 /\ pc[q] \in {"request", "body", "reset", "recreate", "drop"} <=>
                      l \in {"request", "body", "reset", "recreate", "drop"}
    BY <1>4 DEF FailsFirst
  <2> QED
    BY <1>0, <2>1, <2>2 DEF Goto, held, HeldClient
<1>5. ASSUME NEW q \in Queries, TakesClient(q) PROVE ClientSlot!Next
  <2>1. held' = [held EXCEPT ![q] = client] /\ held[q] = 0
    BY <1>0, <1>5, ZenonT(30) DEF TakesClient, Goto, held, HeldClient
  <2>2. ClientSlot!Hit(q)
    BY <1>5, <2>1 DEF TakesClient, slots, ClientSlot!Hit, ClientSlot!Hold, held
  <2> QED
    BY <2>2 DEF ClientSlot!Next
<1>6. ASSUME NEW q \in Queries, MakesClient(q) PROVE ClientSlot!Next
  <2>1. held' = [held EXCEPT ![q] = made']
    BY <1>0, <1>6, ZenonT(30) DEF MakesClient, Goto, held, HeldClient
  <2>2. made' > made /\ client' = made'
    BY <1>0, <1>6 DEF MakesClient
  <2>3. ClientSlot!MakeFor(q)
    BY <2>1, <2>2 DEF ClientSlot!MakeFor, ClientSlot!Hold, held
  <2>4. CASE pc[q] = "create"
    <3>1. client = 0 /\ held[q] = 0
      BY <1>0, <2>4 DEF ClientMutex, held, HeldClient
    <3> QED
      BY <2>3, <3>1 DEF ClientSlot!Fill, ClientSlot!Next, held
  <2>5. CASE pc[q] = "recreate"
    <3>1. held[q] # 0
      BY <1>0, <2>5 DEF HasOne, OnClient, held, HeldClient
    <3> QED
      BY <2>3, <3>1 DEF ClientSlot!Replace, ClientSlot!Next, held
  <2> QED
    BY <1>6, <2>4, <2>5 DEF MakesClient
<1>7. ASSUME NEW q \in Queries, Returns(q) PROVE [ClientSlot!Next]_<<client, held>>
  <2>1. held' = [held EXCEPT ![q] = 0]
    BY <1>0, <1>7, ZenonT(30) DEF Returns, Return, Goto, held, HeldClient
  <2>2. UNCHANGED made
    BY <1>7 DEF Returns
  <2>3. CASE client' = client /\ held[q] = 0
    <3>1. held' = held
      BY <2>1, <2>3, ZenonT(30) DEF held
    <3> QED
      BY <2>3, <3>1
  <2>4. CASE client' = client /\ held[q] # 0
    <3>1. ClientSlot!Leave(q)
      BY <2>1, <2>2, <2>4 DEF ClientSlot!Leave, ClientSlot!Hold, held
    <3> QED
      BY <3>1 DEF ClientSlot!Next
  <2>5. CASE pc[q] = "drop" /\ client' = 0
    <3>1. held[q] # 0
      BY <1>0, <2>5 DEF HasOne, OnClient, held, HeldClient
    <3>2. ClientSlot!Drop(q)
      BY <2>1, <2>2, <2>5, <3>1 DEF ClientSlot!Drop, ClientSlot!Hold, held
    <3> QED
      BY <3>2 DEF ClientSlot!Next
  <2> QED
    BY <1>7, <2>3, <2>4, <2>5, SMTT(30) DEF Returns
<1> QED
  BY <1>1, <1>2, <1>3, <1>4, <1>5, <1>6, <1>7, Steps

\* The same for the cached transport.
LEMMA TransportSimulates == IInv /\ [Next]_vars => [TransportSlot!Next]_<<h3, transport>>
<1> SUFFICES ASSUME IInv, [Next]_vars PROVE [TransportSlot!Next]_<<h3, transport>>
  OBVIOUS
<1>0. /\ transport \in [Queries -> Nat] /\ made \in Nat
      /\ TransportMutex /\ HasOne
  BY IdsAreNat DEF IInv, TypeOK
<1>1. CASE UNCHANGED vars
  BY <1>1 DEF vars, slots, local
<1>2. ASSUME NEW q \in Queries,
             \/ Chooses(q) \/ Headers(q) \/ FailsFirst(q)
             \/ TakesClient(q) \/ LocksClient(q) \/ MakesClient(q)
             \/ LocksTransport(q) \/ TakesSender(q) \/ LocksSender(q)
             \/ Connects(q) \/ Reconnects(q)
      PROVE  UNCHANGED <<h3, transport>>
  <2>1. CASE Chooses(q) \/ Headers(q) \/ FailsFirst(q)
    BY <2>1, SMTT(30) DEF Chooses, Headers, FailsFirst, slots, local
  <2>2. CASE TakesClient(q) \/ LocksClient(q) \/ MakesClient(q)
    BY <2>2 DEF TakesClient, LocksClient, MakesClient, slots, local
  <2>3. CASE LocksTransport(q) \/ TakesSender(q) \/ LocksSender(q)
    BY <2>3, SMTT(30) DEF LocksTransport, TakesSender, LocksSender, slots, local
  <2>4. CASE Connects(q) \/ Reconnects(q)
    BY <2>4, SMTT(30) DEF Connects, Reconnects, MakesSender
  <2> QED
    BY <1>2, <2>1, <2>2, <2>3, <2>4
<1>3. ASSUME NEW q \in Queries, pc[q] \notin OnTransport PROVE transport[q] = 0
  BY <1>0, <1>3 DEF HasOne
<1>4. ASSUME NEW q \in Queries, TakesTransport(q) PROVE TransportSlot!Next
  <2>1. pc[q] \notin OnTransport
    BY <1>4 DEF TakesTransport, OnTransport
  <2>2. TransportSlot!Hit(q)
    BY <1>3, <1>4, <2>1 DEF TakesTransport, slots, TransportSlot!Hit, TransportSlot!Hold
  <2> QED
    BY <2>2 DEF TransportSlot!Next
<1>5. ASSUME NEW q \in Queries, MakesTransport(q) PROVE TransportSlot!Next
  <2>1. pc[q] \notin OnTransport
    BY <1>5 DEF MakesTransport, OnTransport
  <2>2. h3 = 0
    BY <1>0, <1>5 DEF MakesTransport, TransportMutex
  <2>3. made' > made /\ h3' = made' /\ transport' = [transport EXCEPT ![q] = made']
    BY <1>0, <1>5 DEF MakesTransport
  <2>4. TransportSlot!Fill(q)
    BY <1>3, <2>1, <2>2, <2>3 DEF TransportSlot!Fill, TransportSlot!MakeFor, TransportSlot!Hold
  <2> QED
    BY <2>4 DEF TransportSlot!Next
<1>6. ASSUME NEW q \in Queries, Returns(q) PROVE [TransportSlot!Next]_<<h3, transport>>
  <2>1. transport' = [transport EXCEPT ![q] = 0] /\ UNCHANGED made
    BY <1>6 DEF Returns, Return
  <2>2. CASE h3' = h3 /\ transport[q] = 0
    BY <1>0, <2>1, <2>2
  <2>3. CASE h3' = h3 /\ transport[q] # 0
    BY <2>1, <2>3, ZenonT(30) DEF TransportSlot!Leave, TransportSlot!Hold, TransportSlot!Next
  <2>4. CASE pc[q] = "h3_drop" /\ h3' = 0
    <3>1. transport[q] # 0
      BY <1>0, <2>4 DEF HasOne, OnTransport
    <3> QED
      BY <2>1, <2>4, <3>1, ZenonT(30) DEF TransportSlot!Drop, TransportSlot!Hold, TransportSlot!Next
  <2> QED
    BY <1>6, <2>2, <2>3, <2>4, SMTT(30) DEF Returns
<1> QED
  BY <1>1, <1>2, <1>4, <1>5, <1>6, Steps

\* Numbers are given out in order.
LEMMA MadeGrows == IInv /\ [Next]_vars => [made' > made]_made
<1> SUFFICES ASSUME IInv, [Next]_vars PROVE [made' > made]_made
  OBVIOUS
<1>0. made \in Nat
  BY IdsAreNat DEF IInv, TypeOK
<1>1. CASE UNCHANGED vars
  BY <1>1 DEF vars, slots
<1>2. ASSUME NEW q \in Queries,
             \/ Chooses(q) \/ Headers(q) \/ FailsFirst(q) \/ Returns(q)
             \/ TakesClient(q) \/ LocksClient(q) \/ TakesTransport(q) \/ LocksTransport(q)
             \/ TakesSender(q) \/ LocksSender(q)
      PROVE  UNCHANGED made
  <2>1. CASE Chooses(q) \/ Headers(q) \/ FailsFirst(q) \/ Returns(q)
    BY <2>1, SMTT(30) DEF Chooses, Headers, FailsFirst, Returns, slots
  <2>2. CASE TakesClient(q) \/ LocksClient(q) \/ TakesTransport(q) \/ LocksTransport(q)
    BY <2>2 DEF TakesClient, LocksClient, TakesTransport, LocksTransport, slots
  <2>3. CASE TakesSender(q) \/ LocksSender(q)
    BY <2>3, SMTT(30) DEF TakesSender, LocksSender, slots
  <2> QED
    BY <1>2, <2>1, <2>2, <2>3
<1>3. ASSUME NEW q \in Queries,
             MakesClient(q) \/ MakesTransport(q) \/ Connects(q) \/ Reconnects(q)
      PROVE  made' > made
  BY <1>0, <1>3, SMTT(30) DEF MakesClient, MakesTransport, Connects, Reconnects, MakesSender
<1> QED
  BY <1>1, <1>2, <1>3, Steps

\* Initially nothing is kept and no exchange has anything.
LEMMA InitSimulates == Init => ClientSlot!Init /\ TransportSlot!Init
BY DEF Init, ClientSlot!Init, TransportSlot!Init, HeldClient

\* For any number of queries the client and the transport a DohUpstream keeps,
\* under their mutexes, with failing, retrying and cancelled exchanges, each
\* change as ConnSlot says.
THEOREM Refines == Spec => KeepsOneClient
<1>1. Spec => []IInv
  BY InitIInv, NextIInv, PTL DEF Spec
<1>2. IInv /\ [Next]_vars => [ClientSlot!Next]_<<client, [q \in Queries |-> HeldClient(q)]>>
  BY ClientSimulates DEF held
<1>3. IInv /\ [Next]_vars => [TransportSlot!Next]_<<h3, transport>>
  BY TransportSimulates
<1> QED
  BY <1>1, <1>2, <1>3, MadeGrows, InitSimulates, PTL
     DEF Spec, KeepsOneClient, ClientSlot!Spec, TransportSlot!Spec
=============================================================================
