------------------------------- MODULE MCKick -------------------------------
(***************************************************************************)
(* A small instance of KickHistory for TLC, with what Voting promises.     *)
(***************************************************************************)
EXTENDS KickHistory, VotingProperties, TLC

CONSTANTS a, b, c, v, w

(* A vector that grants everything, and a map that takes regprod. *)
AllOn == {<<1, 1, 1, 1, 1, 1, 1, 1, 1>>}
Revoke == {[regprod |-> Off]}

Sym == Permutations({v, w})
=============================================================================
