---------------------------- MODULE MCCwmpServer ----------------------------
(***************************************************************************)
(* An instance of CwmpServer for TLC: a device that keeps cookies and one  *)
(* that does not, with one command each.                                   *)
(***************************************************************************)
EXTENDS CwmpServer, TLC

CONSTANTS d1, d2, c1, c2

OneCommandEach == c1 :> d1 @@ c2 :> d2
SecondIsFaulty == {c2}

Symmetry == Permutations(Addresses)

=============================================================================
