---------------------------- MODULE MCDialedClient ---------------------------
EXTENDS DialedClient, TLC

CONSTANTS a1, a2, b1, b2

\* a1 and a2 are IPv4 addresses, b1 and b2 IPv6 ones.
MCIsV6(a) == a \in {b1, b2}

MCAnswers == [A |-> {<<>>, <<a1>>, <<a1, a2>>}, AAAA |-> {<<>>, <<b1>>, <<b1, b2>>}]
=============================================================================
