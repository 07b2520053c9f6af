----------------------------- MODULE MCFailover -----------------------------
(***************************************************************************)
(* Instances of Failover for TLC.                                          *)
(***************************************************************************)
EXTENDS Failover

CONSTANTS a, b, r1, r2

OneEndpoint    == <<a>>
TwoEndpoints   == <<a, b>>
=============================================================================
