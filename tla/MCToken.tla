------------------------------ MODULE MCToken ------------------------------
(***************************************************************************)
(* Small instances of Token for TLC: amounts that are negative, zero, fit, *)
(* and do not fit an asset.                                                *)
(***************************************************************************)
EXTENDS TokenRefinement

CONSTANTS a, b, ghost

Amounts == -1..4
=============================================================================
