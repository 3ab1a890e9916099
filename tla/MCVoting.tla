------------------------------ MODULE MCVoting ------------------------------
(***************************************************************************)
(* Small instances of Voting for TLC.                                      *)
(***************************************************************************)
EXTENDS VotingProperties, TLC

CONSTANTS a, b, c, v, w

(* A vector that grants everything, and maps that give or take regprod. *)
AllOn == {<<1, 1, 1, 1, 1, 1, 1, 1, 1>>}
Revoke == {[regprod |-> Off]}
Grants == {[regprod |-> On], [regprod |-> Off]}
=============================================================================
