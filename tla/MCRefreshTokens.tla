--------------------------- MODULE MCRefreshTokens ---------------------------
(***************************************************************************)
(* RefreshTokens with three requests in flight, which are interchangeable. *)
(***************************************************************************)
EXTENDS RefreshTokens, TLC

CONSTANTS c1, c2, c3

Symmetry == Permutations({c1, c2, c3})
=============================================================================
