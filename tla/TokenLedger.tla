---------------------------- MODULE TokenLedger ----------------------------
(***************************************************************************)
(* What a token promises its holders: it is created once with a cap and a  *)
(* minter; the minter alone makes tokens, up to the cap, and destroys its  *)
(* own; everybody else's tokens only move, whole, from one to another.     *)
(* Rows, symbols, signatures and RAM are left to the implementation.       *)
(***************************************************************************)
EXTENDS Integers

CONSTANTS Holder, Issuer, Nobody

VARIABLES balance, supply, cap, minter

ledgerVars == <<balance, supply, cap, minter>>

LedgerInit ==
    /\ balance = [h \in Holder |-> 0]
    /\ supply = 0
    /\ cap = 0
    /\ minter = Nobody

Found ==
    /\ minter = Nobody
    /\ minter' \in Issuer
    /\ cap' > 0
    /\ UNCHANGED <<balance, supply>>

Mint ==
    /\ minter \in Holder
    /\ supply' > supply
    /\ supply' <= cap
    /\ balance' = [balance EXCEPT ![minter] = @ + (supply' - supply)]
    /\ UNCHANGED <<cap, minter>>

Burn ==
    /\ minter \in Holder
    /\ supply' < supply
    /\ balance[minter] >= supply - supply'
    /\ balance' = [balance EXCEPT ![minter] = @ - (supply - supply')]
    /\ UNCHANGED <<cap, minter>>

(* The amount moved is what the sender lost. *)
Move(from, to) ==
    /\ from # to
    /\ balance'[from] \in 0..balance[from]
    /\ balance' = [balance EXCEPT ![from] = balance'[from],
                                  ![to] = @ + (balance[from] - balance'[from])]
    /\ UNCHANGED <<supply, cap, minter>>

LedgerNext == Found \/ Mint \/ Burn \/ \E from, to \in Holder : Move(from, to)

LedgerSpec == LedgerInit /\ [][LedgerNext]_ledgerVars

=============================================================================
