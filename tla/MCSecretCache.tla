--------------------------- MODULE MCSecretCache ---------------------------
(***************************************************************************)
(* An instance of SecretCache for TLC: two references, both with a refresh *)
(* interval or one of them.  A unit of time is half a minute.              *)
(***************************************************************************)
EXTENDS SecretCache, TLC

CONSTANTS r1, r2

OneOrBoth == {(r1 :> 3) @@ (r2 :> 0), (r1 :> 3) @@ (r2 :> 2)}
=============================================================================
