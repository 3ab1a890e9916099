------------------------------- MODULE Token -------------------------------
(***************************************************************************)
(* eosio.token: the stat table of tokens and the accounts table of         *)
(* balances; who pays the RAM of a row is left out.  An action is a pair   *)
(* of operators on the ledger, what its checks ask and what it leaves, so  *)
(* that a transaction of several actions can chain them.                   *)
(***************************************************************************)
EXTENDS Integers, FiniteSets, Functions

CONSTANTS
    Holder,       \* the existing accounts
    Issuer,       \* the names create accepts: it does not look them up
    Code,         \* symbol codes
    Precision,    \* decimals of a symbol
    Quantity,     \* amounts passed to the actions, valid or not
    MaxAmount,    \* asset::max_amount, 2^62 - 1 in the program
    NoToken,      \* no row in stat
    NoBalance     \* no row in accounts

StatRow == [precision: Precision, supply: 0..MaxAmount, max_supply: 1..MaxAmount,
            issuer: Issuer]

BalanceRow == [amount: 0..MaxAmount, precision: Precision]

ASSUME TokenAssumption ==
    /\ IsFiniteSet(Holder)
    /\ Quantity \subseteq Int
    /\ MaxAmount \in Nat
    /\ NoToken \notin StatRow
    /\ NoBalance \notin BalanceRow

VARIABLE ledger   \* [stat, accounts]: the two tables

Asset == [amount: Quantity, code: Code, precision: Precision]

Ledger == [stat: [Code -> StatRow \cup {NoToken}],
           accounts: [Holder -> [Code -> BalanceRow \cup {NoBalance}]]]

(* asset::is_valid, with amount > 0 *)
Positive(q) == q.amount \in 1..MaxAmount

(* The balance of an account, a missing row being none. *)
BalanceOf(L, h, c) == IF L.accounts[h][c] = NoBalance THEN 0 ELSE L.accounts[h][c].amount

SetBalance(L, h, c, row) == [L EXCEPT !.accounts[h][c] = row]

SetSupply(L, c, n) == [L EXCEPT !.stat[c].supply = n]

-----------------------------------------------------------------------------
(* sub_balance; asset::operator-= refuses another symbol. *)
CanSub(L, h, q) ==
    /\ L.accounts[h][q.code] # NoBalance
    /\ L.accounts[h][q.code].amount >= q.amount
    /\ L.accounts[h][q.code].precision = q.precision

Sub(L, h, q) ==
    SetBalance(L, h, q.code,
        [amount    |-> L.accounts[h][q.code].amount - q.amount,
         precision |-> L.accounts[h][q.code].precision])

(***************************************************************************)
(* add_balance: a row is made if there is none.  asset::operator+= refuses *)
(* another symbol and overflow.                                            *)
(***************************************************************************)
CanAdd(L, h, q) ==
    L.accounts[h][q.code] # NoBalance =>
        /\ L.accounts[h][q.code].precision = q.precision
        /\ L.accounts[h][q.code].amount + q.amount <= MaxAmount

Add(L, h, q) ==
    SetBalance(L, h, q.code,
        IF L.accounts[h][q.code] = NoBalance
        THEN [amount |-> q.amount, precision |-> q.precision]
        ELSE [L.accounts[h][q.code] EXCEPT !.amount = @ + q.amount])

(* The token exists, with the symbol of the quantity. *)
TokenOf(L, q) ==
    /\ L.stat[q.code] # NoToken
    /\ L.stat[q.code].precision = q.precision

-----------------------------------------------------------------------------
(* create, signed by eosio.token. *)
Create(issuer, q) ==
    /\ Positive(q)
    /\ ledger.stat[q.code] = NoToken
    /\ ledger' = [ledger EXCEPT !.stat[q.code] =
          [precision |-> q.precision, supply |-> 0, max_supply |-> q.amount, issuer |-> issuer]]

\* mutated: the supply is not compared with the maximum
CanIssue_NoCap(L, signers, to, q) ==
    /\ TokenOf(L, q)
    /\ to = L.stat[q.code].issuer
    /\ to \in signers
    /\ Positive(q)
    /\ CanAdd(L, to, q)

(* issue, signed by the issuer, to whom the tokens go. *)
CanIssue(L, signers, to, q) ==
    /\ TokenOf(L, q)
    /\ to = L.stat[q.code].issuer
    /\ to \in signers
    /\ Positive(q)
    /\ q.amount <= L.stat[q.code].max_supply - L.stat[q.code].supply
    /\ CanAdd(L, to, q)

Issued(L, to, q) ==
    Add(SetSupply(L, q.code, L.stat[q.code].supply + q.amount), to, q)

(* retire, signed by the issuer, from whose balance the tokens go. *)
CanRetire(L, signers, q) ==
    /\ TokenOf(L, q)
    /\ L.stat[q.code].issuer \in signers
    /\ Positive(q)
    /\ CanSub(L, L.stat[q.code].issuer, q)

\* mutated: the supply is left
Retired_KeepsSupply(L, q) == Sub(L, L.stat[q.code].issuer, q)

Retired(L, q) ==
    Sub(SetSupply(L, q.code, L.stat[q.code].supply - q.amount), L.stat[q.code].issuer, q)

(* transfer, signed by the sender. *)
CanTransfer(L, signers, from, to, q) ==
    /\ from # to
    /\ from \in signers
    /\ TokenOf(L, q)
    /\ Positive(q)
    /\ CanSub(L, from, q)
    /\ CanAdd(L, to, q)

Transferred(L, from, to, q) == Add(Sub(L, from, q), to, q)

-----------------------------------------------------------------------------
Issue(signers, to, q) ==
    CanIssue(ledger, signers, to, q) /\ ledger' = Issued(ledger, to, q)

Retire(signers, q) ==
    CanRetire(ledger, signers, q) /\ ledger' = Retired(ledger, q)

Transfer(signers, from, to, q) ==
    /\ CanTransfer(ledger, signers, from, to, q)
    /\ ledger' = Transferred(ledger, from, to, q)

\* mutated: the symbol's precision is not compared with the token's
Open_AnyPrecision(h, c, precision) ==
    /\ ledger.stat[c] # NoToken
    /\ ledger.accounts[h][c] = NoBalance
    /\ ledger' = SetBalance(ledger, h, c,
          [amount |-> 0, precision |-> precision])

(* open, signed by whoever pays the RAM; nothing happens if the row exists. *)
Open(h, c, precision) ==
    /\ ledger.stat[c] # NoToken
    /\ ledger.stat[c].precision = precision
    /\ ledger.accounts[h][c] = NoBalance
    /\ ledger' = SetBalance(ledger, h, c,
          [amount |-> 0, precision |-> precision])

\* mutated: a balance that is not empty is closed
Close_NotEmpty(h, c) ==
    /\ ledger.accounts[h][c] # NoBalance
    /\ ledger' = SetBalance(ledger, h, c, NoBalance)

(* close, signed by the owner. *)
Close(h, c) ==
    /\ ledger.accounts[h][c] # NoBalance
    /\ ledger.accounts[h][c].amount = 0
    /\ ledger' = SetBalance(ledger, h, c, NoBalance)

-----------------------------------------------------------------------------
EmptyLedger ==
    [stat |-> [c \in Code |-> NoToken],
     accounts |-> [h \in Holder |-> [c \in Code |-> NoBalance]]]

TokenInit == ledger = EmptyLedger

(* Transactions of one action, signed by somebody. *)
TokenNext ==
    \/ \E issuer \in Issuer, q \in Asset : Create(issuer, q)
    \/ \E signer, to \in Holder, q \in Asset : Issue({signer}, to, q)
    \/ \E signer \in Holder, q \in Asset : Retire({signer}, q)
    \/ \E signer, from, to \in Holder, q \in Asset : Transfer({signer}, from, to, q)
    \/ \E h \in Holder, c \in Code, precision \in Precision : Open(h, c, precision)
    \/ \E h \in Holder, c \in Code : Close(h, c)

TokenSpec == TokenInit /\ [][TokenNext]_ledger

-----------------------------------------------------------------------------
(* The two tables have their types: amounts fit an asset. *)
TokenTypeOK == ledger \in Ledger

Balances(L, c) == [h \in Holder |-> BalanceOf(L, h, c)]

SupplyOf(L, c) == IF L.stat[c] = NoToken THEN 0 ELSE L.stat[c].supply

CapOf(L, c) == IF L.stat[c] = NoToken THEN 0 ELSE L.stat[c].max_supply

(***************************************************************************)
(* Issues, retirements, transfers, rows opened and closed: the supply of a *)
(* token is the sum of its balances, so that none is lost with a closed    *)
(* row or made by a transfer.                                              *)
(***************************************************************************)
SupplyIsSumOfBalances ==
    \A c \in Code : SupplyOf(ledger, c) = SumFunctionOnSet(Balances(ledger, c), Holder)

(***************************************************************************)
(* The supply stays within the maximum, whatever was issued and retired.   *)
(***************************************************************************)
SupplyWithinMaximum == \A c \in Code : SupplyOf(ledger, c) <= CapOf(ledger, c)

(***************************************************************************)
(* Every balance has the symbol of its token, so that += and -= on assets  *)
(* never abort a transaction for a precision someone opened a row with.    *)
(***************************************************************************)
BalancesHaveTokenSymbol ==
    \A h \in Holder, c \in Code :
        ledger.accounts[h][c] # NoBalance =>
            /\ ledger.stat[c] # NoToken
            /\ ledger.accounts[h][c].precision = ledger.stat[c].precision

=============================================================================
