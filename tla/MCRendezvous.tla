----------------------------- MODULE MCRendezvous -----------------------------
(***************************************************************************)
(* Rendezvous with two users, two devices and two calls in flight, all of  *)
(* which are interchangeable.                                              *)
(***************************************************************************)
EXTENDS Rendezvous, TLC

CONSTANTS u1, u2, d1, d2, c1, c2

Symmetry == Permutations({u1, u2}) \union Permutations({d1, d2})
            \union Permutations({c1, c2})
=============================================================================
