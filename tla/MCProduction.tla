---------------------------- MODULE MCProduction ----------------------------
(***************************************************************************)
(* Small instances of BlockProduction for TLC.                             *)
(***************************************************************************)
EXTENDS ProductionProperties, TLC

CONSTANTS eosio, libre, bpay, p, q, r, v, w

PayNames == eosio :> 1 @@ libre :> 2
PayGenesis == eosio :> "k0" @@ libre :> "k0"
ElectGenesis == eosio :> "k0"

Names3 == p :> 1 @@ q :> 2 @@ r :> 3
Boot == r :> "k0"
Sym == Permutations({v, w})
=============================================================================
