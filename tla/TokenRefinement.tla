-------------------------- MODULE TokenRefinement --------------------------
(***************************************************************************)
(* eosio.token implements the abstract ledger of TokenLedger: the tables   *)
(* of one token, any one, with a missing row read as an empty balance.     *)
(***************************************************************************)
EXTENDS Token

CONSTANT Watched   \* the token looked at

ASSUME WatchedAssumption == Watched \in Code

MinterOf(L, c) == IF L.stat[c] = NoToken THEN NoToken ELSE L.stat[c].issuer

Promise == INSTANCE TokenLedger WITH
    balance <- Balances(ledger, Watched),
    supply  <- SupplyOf(ledger, Watched),
    cap     <- CapOf(ledger, Watched),
    minter  <- MinterOf(ledger, Watched),
    Nobody  <- NoToken

(***************************************************************************)
(* Every step of eosio.token is, for a token, its foundation, a mint or a  *)
(* burn by its issuer, one movement between two holders, or nothing: rows  *)
(* opened and closed are not seen, and neither are the other tokens.       *)
(***************************************************************************)
ImplementsLedger == Promise!LedgerSpec

=============================================================================
