----------------------------- MODULE MCAccounts -----------------------------
(***************************************************************************)
(* A small instance of Accounts for TLC: eosio, bob, and two names under   *)
(* bob's.                                                                  *)
(***************************************************************************)
EXTENDS Accounts, TLC

CONSTANTS eosio, bob, xbob, ybob, v1, v2

Suffixes == eosio :> eosio @@ bob :> bob @@ xbob :> bob @@ ybob :> bob

(* createacc and setalimits on, regprod off already. *)
FullVectors == {<<On, Off, None, None, None, None, None, None, On>>}

Maps == {[setalimits |-> Banned]}

Sym == Permutations({xbob, ybob})
=============================================================================
