-------------------------- MODULE MCUpstreamGroup --------------------------
(***************************************************************************)
(* Values of the constants of UpstreamGroup for TLC.                        *)
(***************************************************************************)
EXTENDS UpstreamGroup, TLC, Functions

CONSTANTS u1, u2, u3, dflt, rule

PairGroup == dflt :> <<u1, u2>>

\* Far apart, so that several roundings separate them.
TwoLatencies == {1, 5}

=============================================================================
