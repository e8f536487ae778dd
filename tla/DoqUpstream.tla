---------------------------- MODULE DoqUpstream ----------------------------
(***************************************************************************)
(* A DNS-over-QUIC upstream shared by concurrent queries, DoqUpstream of    *)
(* src/src/client/doq.rs.  One connection is kept behind an asynchronous    *)
(* mutex, which stays locked while dial waits for the lookup and for the    *)
(* handshake; every exchange opens a stream of its own on a clone of it.    *)
(* Connections are numbered as they are made.  Any attempt may fail: the    *)
(* server restarted, the path broke, the connection was idle too long.      *)
(***************************************************************************)
EXTENDS Naturals, FiniteSets

CONSTANTS
  Queries,       \* concurrent calls of exchange
  MaxExchanges,  \* bound on the exchanges begun
  Free           \* a mutex nobody holds

ASSUME DoqAssumption ==
  /\ IsFiniteSet(Queries)
  /\ MaxExchanges \in Nat
  /\ Free \notin Queries

VARIABLES
  begun,       \* how many exchanges began
  made,        \* how many connections were made
  conn,        \* the connection kept, or 0
  conn_mx,     \* who holds its mutex across an await
  pc,
  was_cached,
  used,        \* the connection of the current attempt
  retried,     \* whether that is the second attempt
  failed,      \* how many first attempts failed
  result       \* what each exchange returned last

local == <<was_cached, used, retried>>
vars == <<begun, made, conn, conn_mx, pc, local, failed, result>>

Goto(q, l) == pc' = [pc EXCEPT ![q] = l]

\* The call returns, and its locals are gone.
Return(q, r) ==
  /\ Goto(q, "idle")
  /\ result' = [result EXCEPT ![q] = r]
  /\ was_cached' = [was_cached EXCEPT ![q] = FALSE]
  /\ used' = [used EXCEPT ![q] = 0]
  /\ retried' = [retried EXCEPT ![q] = FALSE]

Begin(q) ==
  /\ pc[q] = "idle"
  /\ begun < MaxExchanges
  /\ begun' = begun + 1
  /\ Goto(q, "get_conn")
  /\ result' = [result EXCEPT ![q] = "none"]
  /\ UNCHANGED <<made, conn, conn_mx, local, failed>>

----------------------------------------------------------------------------
(* get_conn, reset_conn and dial *)

\* get_conn with a connection kept: it is cloned without an await.
TakeCached(q) ==
  /\ pc[q] = "get_conn"
  /\ conn_mx = Free
  /\ conn # 0
  /\ was_cached' = [was_cached EXCEPT ![q] = TRUE]
  /\ used' = [used EXCEPT ![q] = conn]
  /\ Goto(q, "stream")
  /\ UNCHANGED <<begun, made, conn, conn_mx, retried, failed, result>>

\* Mutant of BeginDial: the mutex is not held while dialling.
BeginDialUnlocked(q) ==
  /\ pc[q] = "get_conn"
  /\ conn_mx = Free
  /\ conn = 0
  /\ Goto(q, "dial")
  /\ UNCHANGED <<begun, made, conn, conn_mx, local, failed, result>>

BeginDial(q) ==
  /\ pc[q] = "get_conn"
  /\ conn_mx = Free
  /\ conn = 0
  /\ conn_mx' = q
  /\ Goto(q, "dial")
  /\ UNCHANGED <<begun, made, conn, local, failed, result>>

\* reset_conn dials whatever is kept by now.
BeginReset(q) ==
  /\ pc[q] = "reset"
  /\ conn_mx = Free
  /\ conn_mx' = q
  /\ Goto(q, "redial")
  /\ UNCHANGED <<begun, made, conn, local, failed, result>>

\* Mutant of DialOk: the connection that was made is not stored.
DialOkNotStored(q) ==
  /\ pc[q] \in {"dial", "redial"}
  /\ made' = made + 1
  /\ used' = [used EXCEPT ![q] = made + 1]
  /\ retried' = [retried EXCEPT ![q] = (pc[q] = "redial")]
  /\ conn_mx' = Free
  /\ Goto(q, "stream")
  /\ UNCHANGED <<begun, conn, was_cached, failed, result>>

DialOk(q) ==
  /\ pc[q] \in {"dial", "redial"}
  /\ made' = made + 1
  /\ conn' = made + 1
  /\ used' = [used EXCEPT ![q] = made + 1]
  /\ retried' = [retried EXCEPT ![q] = (pc[q] = "redial")]
  /\ conn_mx' = Free
  /\ Goto(q, "stream")
  /\ UNCHANGED <<begun, was_cached, failed, result>>

\* The name does not resolve in time, or the handshake fails.  `?` drops the
\* guard; in reset_conn the connection that failed stays in place.
DialErr(q) ==
  /\ pc[q] \in {"dial", "redial"}
  /\ conn_mx' = Free
  /\ Return(q, "error")
  /\ UNCHANGED <<begun, made, conn, failed>>

----------------------------------------------------------------------------
(* exchange_on *)

StreamOk(q) ==
  /\ pc[q] = "stream"
  /\ Return(q, "ok")
  /\ UNCHANGED <<begun, made, conn, conn_mx, failed>>

\* The first attempt fails.  A timeout (should_retry) is retried when the
\* connection was cached; any other error (the stream or the connection broke, the message
\* is too large, the answer does not parse, has an id or is to another
\* question) drops the connection.
FirstFails(q, retryable) ==
  /\ pc[q] = "stream"
  /\ ~retried[q]
  /\ failed' = failed + 1
  /\ Goto(q, IF was_cached[q] /\ retryable THEN "reset" ELSE "drop")
  /\ UNCHANGED <<begun, made, conn, conn_mx, local, result>>

\* The second attempt fails: its error is returned as it is.
RetryFails(q) ==
  /\ pc[q] = "stream"
  /\ retried[q]
  /\ Return(q, "error")
  /\ UNCHANGED <<begun, made, conn, conn_mx, failed>>

\* `*self.conn.lock().await = None`, whichever connection is kept by now.
DropConn(q) ==
  /\ pc[q] = "drop"
  /\ conn_mx = Free
  /\ conn' = 0
  /\ Return(q, "error")
  /\ UNCHANGED <<begun, made, conn_mx, failed>>

----------------------------------------------------------------------------
\* Mutant of Cancel: the guard is not dropped with the future.
CancelKeepsLock(q) ==
  /\ pc[q] # "idle"
  /\ Return(q, "cancelled")
  /\ UNCHANGED <<begun, made, conn, conn_mx, failed>>

\* The HTTP client a query came from goes away: hyper drops the handler's
\* future where it waits, and its mutex guard with it.
Cancel(q) ==
  /\ pc[q] # "idle"
  /\ conn_mx' = IF conn_mx = q THEN Free ELSE conn_mx
  /\ Return(q, "cancelled")
  /\ UNCHANGED <<begun, made, conn, failed>>

Init ==
  /\ begun = 0
  /\ made = 0
  /\ conn = 0
  /\ conn_mx = Free
  /\ pc = [q \in Queries |-> "idle"]
  /\ was_cached = [q \in Queries |-> FALSE]
  /\ used = [q \in Queries |-> 0]
  /\ retried = [q \in Queries |-> FALSE]
  /\ failed = 0
  /\ result = [q \in Queries |-> "none"]

\* Steps that lock the mutex.
Lock(q) == TakeCached(q) \/ BeginDial(q) \/ BeginReset(q) \/ DropConn(q)

\* Steps a timeout, or the end of a handshake, brings about.
Timed(q) ==
  \/ DialOk(q) \/ DialErr(q)
  \/ StreamOk(q) \/ (\E retryable \in BOOLEAN : FirstFails(q, retryable)) \/ RetryFails(q)

Next == \E q \in Queries : Begin(q) \/ Lock(q) \/ Timed(q) \/ Cancel(q)

Spec == Init /\ [][Next]_vars

\* tokio's mutex serves its waiters in order; Options::timeout bounds the lookup
\* and the whole of exchange_on, quinn's idle timeout the handshake.
FairSpec == Spec /\ \A q \in Queries : SF_vars(Lock(q)) /\ WF_vars(Timed(q))

----------------------------------------------------------------------------
Labels == {"idle", "get_conn", "dial", "stream", "reset", "redial", "drop"}

\* Every variable has the type of the field or local it stands for.
TypeOK ==
  /\ begun \in 0..MaxExchanges
  /\ made \in Nat
  /\ conn \in 0..made
  /\ conn_mx \in Queries \cup {Free}
  /\ pc \in [Queries -> Labels]
  /\ was_cached \in [Queries -> BOOLEAN]
  /\ used \in [Queries -> 0..made]
  /\ retried \in [Queries -> BOOLEAN]
  /\ failed \in Nat
  /\ result \in [Queries -> {"none", "ok", "error", "cancelled"}]

\* The connection an exchange has: none before get_conn returned.
Held(q) == IF pc[q] \in {"stream", "reset", "redial", "drop"} THEN used[q] ELSE 0

Slot == INSTANCE ConnSlot WITH Users <- Queries, slot <- conn,
                               conn <- [q \in Queries |-> Held(q)]

\* With its mutex, its dials that wait and fail and its cancelled exchanges, the
\* kept connection changes as ConnSlot says: get_conn makes one only while none
\* is kept, reset_conn replaces a failed one by one newer than all, and nothing
\* else touches what is kept but the exchange that gave up.
KeepsOneConnection == Slot!Spec

\* Failures are what dialling costs: however many queries find no connection at
\* the same time, fail together on one, drop one another's or are cancelled,
\* get_conn and reset_conn never make more connections than the first one and
\* one per attempt that failed.
DialsAreEarned == made <= failed + 1

\* The timeouts: every call of exchange returns, though all wait for one mutex
\* that is held during a handshake.
ExchangeReturns == \A q \in Queries : pc[q] # "idle" ~> pc[q] = "idle"
=============================================================================
