------------------------------ MODULE ConnSlot ------------------------------
(***************************************************************************)
(* What an upstream promises its exchanges about the one connection it      *)
(* keeps for all of them (`conn` of DoqUpstream, `client` and `h3` of       *)
(* DohUpstream), with the mutex, the awaits and the failures left out: each *)
(* change of the slot is a single step.  Connections are numbered as they   *)
(* are made; `made` belongs to the implementation, which may number other   *)
(* things with it.                                                          *)
(***************************************************************************)
EXTENDS Naturals

CONSTANT Users  \* the calls of exchange

VARIABLES
  made,  \* the number of the newest connection
  slot,  \* the connection kept, or 0
  conn   \* the connection each exchange has, or 0

Hold(u, c) == conn' = [conn EXCEPT ![u] = c]

\* An exchange without a connection takes the one kept.
Hit(u) ==
  /\ conn[u] = 0
  /\ slot # 0
  /\ Hold(u, slot)
  /\ UNCHANGED <<made, slot>>

\* A connection made after every other one is kept and used.
MakeFor(u) ==
  /\ made' > made
  /\ slot' = made'
  /\ Hold(u, made')

\* A connection is made for an exchange that has none only while none is kept,
Fill(u) ==
  /\ conn[u] = 0
  /\ slot = 0
  /\ MakeFor(u)

\* or in place of the one that failed the exchange.
Replace(u) ==
  /\ conn[u] # 0
  /\ MakeFor(u)

\* Nothing is kept after an exchange that gave up on its connection,
Drop(u) ==
  /\ conn[u] # 0
  /\ slot' = 0
  /\ Hold(u, 0)
  /\ UNCHANGED made

\* and what is kept stays after any other.
Leave(u) ==
  /\ conn[u] # 0
  /\ Hold(u, 0)
  /\ UNCHANGED <<made, slot>>

Init ==
  /\ made = 0
  /\ slot = 0
  /\ conn = [u \in Users |-> 0]

Next ==
  \E u \in Users :
    Hit(u) \/ Fill(u) \/ Replace(u) \/ Drop(u) \/ Leave(u)

\* The numbers grow, and the slot and the exchanges change by these steps.
Spec ==
  /\ Init
  /\ [][Next]_<<slot, conn>>
  /\ [][made' > made]_made
=============================================================================
