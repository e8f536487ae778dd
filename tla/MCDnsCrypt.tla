----------------------------- MODULE MCDnsCrypt -----------------------------
(***************************************************************************)
(* Two resolvers: a server of this crate with the longest name a single     *)
(* length byte takes, and another provider's resolver whose stamp has a     *)
(* bare address and a continued name, and which publishes a certificate of  *)
(* another suite and one signed by somebody else beside its own, both with  *)
(* a higher serial.                                                         *)
(***************************************************************************)
EXTENDS DnsCrypt, TLC

CONSTANTS q1, q2

\* The second certificate overlaps the first, the third outlives the clock.
MCTsStart == <<0, 1, 2>>
MCTsEnd == <<2, 3, 9>>

\* q1's answer just fits a datagram and ends like padding; q2's is too long.
MCAsks == (q1 :> 7) @@ (q2 :> 8)
MCAnswers ==
  [a \in Byte |-> CASE a = 7 -> <<128, 0>>
                    [] a = 8 -> <<5, 128, 0, 0, 5, 128>>
                    [] OTHER -> <<>>]

ProviderKey == <<20, 20>>
Name(n) == [i \in 1..n |-> 96 + i]
Config(n) == [provider_name |-> Name(n), provider_signing_key |-> ProviderKey,
              resolver_secret_key |-> <<21, 21>>]

OwnServer ==
  [rotates |-> FALSE, addr |-> [ip |-> IpV6, port |-> 53], config |-> Config(7),
   others |-> {}, stamp |-> <<>>]

\* The name of eight bytes is handed out in two segments of seven and one.
OtherProvider ==
  [rotates |-> TRUE, addr |-> [ip |-> IpV4, port |-> 443], config |-> Config(8),
   others |-> {[sign_certificate(ProviderKey, <<22, 22>>, 4, 9, 0, 9) EXCEPT !.es_version = 2],
               sign_certificate(<<23, 23>>, <<22, 22>>, 4, 9, 0, 9)},
   stamp |-> <<1, 0, 0, 0, 0, 0, 0, 0, 0, 1, IpV4, KeyLen>> \o ProviderKey
               \o <<8 + 7>> \o SubSeq(Name(8), 1, 7) \o <<1>> \o SubSeq(Name(8), 8, 8)]

MCResolvers == <<OwnServer, OtherProvider>>
=============================================================================
