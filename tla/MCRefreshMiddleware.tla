------------------------ MODULE MCRefreshMiddleware ------------------------
(***************************************************************************)
(* An instance of RefreshMiddleware for TLC.                               *)
(***************************************************************************)
EXTENDS RefreshMiddleware, TLC

CONSTANTS p1, p2, p3

Symmetry == Permutations(Requests)
=============================================================================
