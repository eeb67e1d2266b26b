------------------------------ MODULE MCAccounts ------------------------------
(***************************************************************************)
(* Accounts with three requests in flight, which are interchangeable.        *)
(***************************************************************************)
EXTENDS Accounts, TLC

CONSTANTS c1, c2, c3

Symmetry == Permutations({c1, c2, c3})
=============================================================================
