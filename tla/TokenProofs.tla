---------------------------- MODULE TokenProofs ----------------------------
(***************************************************************************)
(* eosio.token, for any holders, tokens, precisions and amounts.  The      *)
(* invariant is the conjunction of the four the runs check: an issue fits  *)
(* its row because the supply bounds every balance, and a retirement keeps *)
(* the supply positive because the supply is their sum.                    *)
(***************************************************************************)
EXTENDS TokenRefinement, SumTheorems

TokenInv ==
    /\ TokenTypeOK
    /\ SupplyIsSumOfBalances
    /\ SupplyWithinMaximum
    /\ BalancesHaveTokenSymbol

(* The same of any ledger, for transactions of more than one action. *)
SymbolsOf(L) ==
    \A h \in Holder, c \in Code :
        L.accounts[h][c] # NoBalance =>
            /\ L.stat[c] # NoToken
            /\ L.accounts[h][c].precision = L.stat[c].precision

LedgerInv(L) ==
    /\ L \in Ledger
    /\ SymbolsOf(L)
    /\ \A c \in Code : SupplyOf(L, c) = SumFunctionOnSet(Balances(L, c), Holder)
    /\ \A c \in Code : SupplyOf(L, c) <= CapOf(L, c)

LEMMA InvIsOfTheLedger == TokenInv <=> LedgerInv(ledger)
BY DEF TokenInv, LedgerInv, TokenTypeOK, SupplyIsSumOfBalances, SupplyWithinMaximum,
       BalancesHaveTokenSymbol, SymbolsOf

(* A row of accounts replaced, or erased. *)
LEMMA SetBalanceFacts ==
    ASSUME NEW L \in Ledger, NEW h \in Holder, NEW c \in Code,
           NEW row \in BalanceRow \cup {NoBalance}
    PROVE  /\ SetBalance(L, h, c, row) \in Ledger
           /\ SetBalance(L, h, c, row).stat = L.stat
           /\ \A x \in Holder, d \in Code :
                 SetBalance(L, h, c, row).accounts[x][d] =
                    IF x = h /\ d = c THEN row ELSE L.accounts[x][d]
BY DEF SetBalance, Ledger

(* The supply of a token replaced. *)
LEMMA SetSupplyFacts ==
    ASSUME NEW L \in Ledger, NEW c \in Code, L.stat[c] # NoToken, NEW n \in 0..MaxAmount
    PROVE  /\ SetSupply(L, c, n) \in Ledger
           /\ SetSupply(L, c, n).accounts = L.accounts
           /\ \A d \in Code : d # c => SetSupply(L, c, n).stat[d] = L.stat[d]
           /\ SetSupply(L, c, n).stat[c] \in StatRow
           /\ SetSupply(L, c, n).stat[c].supply = n
           /\ SetSupply(L, c, n).stat[c].precision = L.stat[c].precision
           /\ SetSupply(L, c, n).stat[c].max_supply = L.stat[c].max_supply
           /\ SetSupply(L, c, n).stat[c].issuer = L.stat[c].issuer
<1>1. L.stat[c] \in StatRow
  BY DEF Ledger
<1>2. [L.stat[c] EXCEPT !.supply = n] \in StatRow
  BY <1>1 DEF StatRow
<1>3. SetSupply(L, c, n) =
        [stat |-> [L.stat EXCEPT ![c] = [L.stat[c] EXCEPT !.supply = n]],
         accounts |-> L.accounts]
  BY DEF SetSupply, Ledger
<1>4. QED
  BY <1>1, <1>2, <1>3 DEF Ledger, StatRow

(* A row of stat is no NoToken, nor one of accounts NoBalance; both have fields. *)
LEMMA RowTypes ==
    ASSUME NEW L \in Ledger
    PROVE  /\ \A c \in Code : L.stat[c] # NoToken =>
                 /\ L.stat[c] \in StatRow
                 /\ L.stat[c].supply \in 0..MaxAmount
                 /\ L.stat[c].max_supply \in 1..MaxAmount
                 /\ L.stat[c].issuer \in Issuer
           /\ \A h \in Holder, c \in Code : L.accounts[h][c] # NoBalance =>
                 /\ L.accounts[h][c] \in BalanceRow
                 /\ L.accounts[h][c].amount \in 0..MaxAmount
           /\ \A h \in Holder, c \in Code : BalanceOf(L, h, c) \in 0..MaxAmount
           /\ \A c \in Code : SupplyOf(L, c) \in 0..MaxAmount
           /\ \A c \in Code : CapOf(L, c) \in 0..MaxAmount
BY TokenAssumption DEF Ledger, StatRow, BalanceRow, BalanceOf, SupplyOf, CapOf

(* The row that add_balance raises. *)
LEMMA CreditedRow ==
    ASSUME NEW old \in BalanceRow, NEW n \in 1..MaxAmount, old.amount + n <= MaxAmount
    PROVE  /\ [old EXCEPT !.amount = @ + n] \in BalanceRow
           /\ [old EXCEPT !.amount = @ + n].amount = old.amount + n
           /\ [old EXCEPT !.amount = @ + n].precision = old.precision
BY TokenAssumption DEF BalanceRow

Plus(f, h, n)  == [f EXCEPT ![h] = @ + n]
Minus(f, h, n) == [f EXCEPT ![h] = @ - n]

(* From L to M, h is debited q: one balance is lowered, and nothing else changes. *)
Debited(L, M, h, q) ==
    /\ M \in Ledger
    /\ M.stat = L.stat
    /\ BalanceOf(L, h, q.code) >= q.amount
    /\ Balances(M, q.code) = Minus(Balances(L, q.code), h, q.amount)
    /\ \A d \in Code : d # q.code => Balances(M, d) = Balances(L, d)
    /\ \A x \in Holder, d \in Code :
          /\ (M.accounts[x][d] = NoBalance) <=> (L.accounts[x][d] = NoBalance)
          /\ M.accounts[x][d] # NoBalance =>
                M.accounts[x][d].precision = L.accounts[x][d].precision

(* ... is credited q: one balance is raised, its row has the symbol of q. *)
Credited(L, M, h, q) ==
    /\ M \in Ledger
    /\ M.stat = L.stat
    /\ Balances(M, q.code) = Plus(Balances(L, q.code), h, q.amount)
    /\ \A d \in Code : d # q.code => Balances(M, d) = Balances(L, d)
    /\ M.accounts[h][q.code].precision = q.precision
    /\ \A x \in Holder, d \in Code : ~(x = h /\ d = q.code) =>
          M.accounts[x][d] = L.accounts[x][d]

(* An asset, whether or not it is one of those passed to the actions. *)
AnyAsset == [amount: Int, code: Code, precision: Precision]

LEMMA AssetsAreAny == Asset \subseteq AnyAsset
BY TokenAssumption DEF Asset, AnyAsset

(* sub_balance lowers one balance and nothing else. *)
LEMMA SubFacts ==
    ASSUME NEW L \in Ledger, NEW h \in Holder, NEW q \in AnyAsset, Positive(q), CanSub(L, h, q)
    PROVE  Debited(L, Sub(L, h, q), h, q)
<1> DEFINE old == L.accounts[h][q.code]
           row == [amount |-> old.amount - q.amount, precision |-> old.precision]
<1>1. q.code \in Code /\ q.amount \in 1..MaxAmount
  BY DEF AnyAsset, Positive
<1>2. old \in BalanceRow /\ old.amount >= q.amount
  BY <1>1, RowTypes DEF CanSub
<1>3. /\ row \in BalanceRow
      /\ row.amount = old.amount - q.amount
      /\ row.precision = old.precision
  BY <1>1, <1>2, TokenAssumption DEF BalanceRow
<1>4. Sub(L, h, q) = SetBalance(L, h, q.code, row)
  BY DEF Sub
<1>5. row # NoBalance /\ old # NoBalance
  BY <1>2, <1>3, TokenAssumption
<1> HIDE DEF row, old
<1>6. /\ Sub(L, h, q) \in Ledger
      /\ Sub(L, h, q).stat = L.stat
      /\ \A x \in Holder, d \in Code :
            Sub(L, h, q).accounts[x][d] =
               IF x = h /\ d = q.code THEN row ELSE L.accounts[x][d]
  BY <1>1, <1>3, <1>4, SetBalanceFacts
<1>7. \A x \in Holder, d \in Code :
        BalanceOf(Sub(L, h, q), x, d) =
           IF x = h /\ d = q.code THEN BalanceOf(L, h, d) - q.amount ELSE BalanceOf(L, x, d)
  BY <1>1, <1>2, <1>3, <1>5, <1>6 DEF BalanceOf, old
<1>8. BalanceOf(L, h, q.code) >= q.amount
  BY <1>1, <1>2, <1>5 DEF BalanceOf, old
<1>9. \A x \in Holder, d \in Code :
        /\ (Sub(L, h, q).accounts[x][d] = NoBalance) <=> (L.accounts[x][d] = NoBalance)
        /\ Sub(L, h, q).accounts[x][d] # NoBalance =>
              Sub(L, h, q).accounts[x][d].precision = L.accounts[x][d].precision
  BY <1>3, <1>5, <1>6 DEF old
<1>10. /\ Balances(Sub(L, h, q), q.code) = Minus(Balances(L, q.code), h, q.amount)
       /\ \A d \in Code : d # q.code => Balances(Sub(L, h, q), d) = Balances(L, d)
  BY <1>1, <1>7 DEF Balances, Minus
<1>11. QED
  BY <1>6, <1>8, <1>9, <1>10 DEF Debited

(* add_balance raises one balance and nothing else, and gives a new row its symbol. *)
LEMMA AddFacts ==
    ASSUME NEW L \in Ledger, NEW h \in Holder, NEW q \in AnyAsset, Positive(q), CanAdd(L, h, q)
    PROVE  Credited(L, Add(L, h, q), h, q)
<1> DEFINE old == L.accounts[h][q.code]
           row == IF old = NoBalance
                  THEN [amount |-> q.amount, precision |-> q.precision]
                  ELSE [old EXCEPT !.amount = @ + q.amount]
<1>1. q.code \in Code /\ q.amount \in 1..MaxAmount /\ q.precision \in Precision
  BY DEF AnyAsset, Positive
<1>2. old # NoBalance =>
        /\ old \in BalanceRow
        /\ old.amount + q.amount <= MaxAmount
        /\ old.precision = q.precision
  BY <1>1, RowTypes DEF CanAdd
<1>3. /\ row \in BalanceRow
      /\ row.amount = (IF old = NoBalance THEN 0 ELSE old.amount) + q.amount
      /\ row.precision = q.precision
  <2>1. CASE old = NoBalance
    BY <2>1, <1>1, TokenAssumption DEF BalanceRow
  <2>2. CASE old # NoBalance
    BY <2>2, <1>1, <1>2, CreditedRow
  <2>3. QED
    BY <2>1, <2>2
<1>4. Add(L, h, q) = SetBalance(L, h, q.code, row)
  BY DEF Add
<1>5. row # NoBalance
  BY <1>3, TokenAssumption
<1> HIDE DEF row, old
<1>6. /\ Add(L, h, q) \in Ledger
      /\ Add(L, h, q).stat = L.stat
      /\ \A x \in Holder, d \in Code :
            Add(L, h, q).accounts[x][d] =
               IF x = h /\ d = q.code THEN row ELSE L.accounts[x][d]
  BY <1>1, <1>3, <1>4, SetBalanceFacts
<1>7. \A x \in Holder, d \in Code :
        BalanceOf(Add(L, h, q), x, d) =
           IF x = h /\ d = q.code THEN BalanceOf(L, h, d) + q.amount ELSE BalanceOf(L, x, d)
  BY <1>1, <1>3, <1>5, <1>6 DEF BalanceOf, old
<1>8. /\ Balances(Add(L, h, q), q.code) = Plus(Balances(L, q.code), h, q.amount)
      /\ \A d \in Code : d # q.code => Balances(Add(L, h, q), d) = Balances(L, d)
  BY <1>1, <1>7 DEF Balances, Plus
<1>9. QED
  BY <1>1, <1>3, <1>6, <1>8 DEF Credited

-----------------------------------------------------------------------------
(***************************************************************************)
(* The ways a step may change a token, from the ledger L to M.             *)
(***************************************************************************)
DecimalsOf(L, c) == IF L.stat[c] = NoToken THEN NoToken ELSE L.stat[c].precision

SameTerms(L, M, c) ==
    /\ CapOf(M, c) = CapOf(L, c)
    /\ MinterOf(M, c) = MinterOf(L, c)
    /\ DecimalsOf(M, c) = DecimalsOf(L, c)

Kept(L, M, c) ==
    /\ SameTerms(L, M, c)
    /\ SupplyOf(M, c) = SupplyOf(L, c)
    /\ Balances(M, c) = Balances(L, c)

Founded(L, M, c) ==
    /\ L.stat[c] = NoToken
    /\ MinterOf(M, c) \in Issuer
    /\ CapOf(M, c) > 0
    /\ SupplyOf(M, c) = SupplyOf(L, c)
    /\ Balances(M, c) = Balances(L, c)

Raised(L, M, c, h, n) ==
    /\ SameTerms(L, M, c)
    /\ h \in Holder /\ h = MinterOf(L, c) /\ n \in 1..MaxAmount
    /\ SupplyOf(M, c) = SupplyOf(L, c) + n
    /\ SupplyOf(M, c) <= CapOf(L, c)
    /\ Balances(M, c) = Plus(Balances(L, c), h, n)

Lowered(L, M, c, h, n) ==
    /\ SameTerms(L, M, c)
    /\ h \in Holder /\ h = MinterOf(L, c) /\ n \in 1..MaxAmount
    /\ SupplyOf(M, c) = SupplyOf(L, c) - n
    /\ BalanceOf(L, h, c) >= n
    /\ Balances(M, c) = Minus(Balances(L, c), h, n)

Moved(L, M, c, from, to, n) ==
    /\ SameTerms(L, M, c)
    /\ from \in Holder /\ to \in Holder /\ from # to /\ n \in 1..MaxAmount
    /\ SupplyOf(M, c) = SupplyOf(L, c)
    /\ BalanceOf(L, from, c) >= n
    /\ Balances(M, c) = Plus(Minus(Balances(L, c), from, n), to, n)

Change(L, M, c) ==
    \/ Kept(L, M, c)
    \/ Founded(L, M, c)
    \/ \E h, n : Raised(L, M, c, h, n)
    \/ \E h, n : Lowered(L, M, c, h, n)
    \/ \E from, to, n : Moved(L, M, c, from, to, n)

(* The balances of a token are naturals, and the supply bounds each. *)
LEMMA BalancesType ==
    ASSUME NEW L \in Ledger, NEW c \in Code
    PROVE  /\ Balances(L, c) \in [Holder -> Nat]
           /\ \A h \in Holder : Balances(L, c)[h] = BalanceOf(L, h, c)
           /\ \A h \in Holder : BalanceOf(L, h, c) <= SumFunctionOnSet(Balances(L, c), Holder)
<1>1. /\ Balances(L, c) \in [Holder -> Nat]
      /\ \A h \in Holder : Balances(L, c)[h] = BalanceOf(L, h, c)
  BY RowTypes, TokenAssumption DEF Balances
<1>2. ASSUME NEW h \in Holder
      PROVE  Balances(L, c)[h] <= SumFunctionOnSet(Balances(L, c), Holder)
  BY <1>1, SumBoundsSummand, TokenAssumption
<1>3. QED
  BY <1>1, <1>2

(* Whichever way a token changes, its supply remains the sum of its balances. *)
LEMMA ChangeKeepsSum ==
    ASSUME NEW L \in Ledger, NEW M \in Ledger, NEW c \in Code,
           SupplyOf(L, c) = SumFunctionOnSet(Balances(L, c), Holder), Change(L, M, c)
    PROVE  SupplyOf(M, c) = SumFunctionOnSet(Balances(M, c), Holder)
<1> DEFINE f == Balances(L, c)
           g == Balances(M, c)
<1>1. /\ f \in [Holder -> Int] /\ g \in [Holder -> Int]
      /\ SumFunctionOnSet(f, Holder) \in Int
      /\ SupplyOf(L, c) \in Int
  BY BalancesType, SumInt, RowTypes, TokenAssumption
<1>2. CASE Kept(L, M, c) \/ Founded(L, M, c)
  BY <1>2 DEF Kept, Founded
<1>3. ASSUME NEW h, NEW n, Raised(L, M, c, h, n) \/ Lowered(L, M, c, h, n)
      PROVE  SupplyOf(M, c) = SumFunctionOnSet(g, Holder)
  <2>1. h \in Holder /\ n \in Int
    BY <1>3 DEF Raised, Lowered
  <2>2. \A x \in Holder : x # h => g[x] = f[x]
    BY <1>1, <1>3 DEF Raised, Lowered, Plus, Minus
  <2>3. SumFunctionOnSet(g, Holder) = SumFunctionOnSet(f, Holder) - f[h] + g[h]
    BY <1>1, <2>1, <2>2, SumChangeOne, TokenAssumption
  <2>4. CASE Raised(L, M, c, h, n)
    <3>1. g[h] = f[h] + n /\ SupplyOf(M, c) = SupplyOf(L, c) + n
      BY <1>1, <2>1, <2>4 DEF Raised, Plus
    <3>2. QED
      BY <1>1, <2>1, <2>3, <3>1
  <2>5. CASE Lowered(L, M, c, h, n)
    <3>1. g[h] = f[h] - n /\ SupplyOf(M, c) = SupplyOf(L, c) - n
      BY <1>1, <2>1, <2>5 DEF Lowered, Minus
    <3>2. QED
      BY <1>1, <2>1, <2>3, <3>1
  <2>6. QED
    BY <1>3, <2>4, <2>5
<1>4. ASSUME NEW from, NEW to, NEW n, Moved(L, M, c, from, to, n)
      PROVE  SupplyOf(M, c) = SumFunctionOnSet(g, Holder)
  <2> DEFINE k == [f EXCEPT ![from] = @ - n]
  <2>1. from \in Holder /\ to \in Holder /\ from # to /\ n \in Int
    BY <1>4 DEF Moved
  <2>2. /\ k \in [Holder -> Int]
        /\ k[from] = f[from] - n
        /\ \A x \in Holder : x # from => k[x] = f[x]
    BY <1>1, <2>1
  <2>3. /\ g[to] = k[to] + n
        /\ \A x \in Holder : x # to => g[x] = k[x]
    BY <1>1, <1>4, <2>1 DEF Moved, Plus, Minus
  <2> HIDE DEF k
  <2>4. SumFunctionOnSet(k, Holder) = SumFunctionOnSet(f, Holder) - f[from] + k[from]
    BY <1>1, <2>1, <2>2, SumChangeOne, TokenAssumption
  <2>5. SumFunctionOnSet(g, Holder) = SumFunctionOnSet(k, Holder) - k[to] + g[to]
    BY <1>1, <2>1, <2>2, <2>3, SumChangeOne, TokenAssumption
  <2>6. f[from] \in Int /\ k[to] \in Int
    BY <1>1, <2>1, <2>2
  <2>7. SupplyOf(M, c) = SupplyOf(L, c)
    BY <1>4 DEF Moved
  <2>8. QED
    BY <1>1, <2>1, <2>2, <2>3, <2>4, <2>5, <2>6, <2>7
<1>5. QED
  BY <1>2, <1>3, <1>4 DEF Change

(* ... and remains within the maximum. *)
LEMMA ChangeKeepsMaximum ==
    ASSUME NEW L \in Ledger, NEW M \in Ledger, NEW c \in Code,
           SupplyOf(L, c) <= CapOf(L, c), Change(L, M, c)
    PROVE  SupplyOf(M, c) <= CapOf(M, c)
<1>1. /\ SupplyOf(L, c) \in Nat /\ CapOf(L, c) \in Nat
      /\ SupplyOf(M, c) \in Nat /\ CapOf(M, c) \in Nat
  BY RowTypes, TokenAssumption
<1>2. CASE Kept(L, M, c)
  BY <1>1, <1>2 DEF Kept, SameTerms
<1>3. CASE Founded(L, M, c)
  <2>1. SupplyOf(L, c) = 0
    BY <1>3 DEF Founded, SupplyOf
  <2>2. QED
    BY <1>1, <1>3, <2>1 DEF Founded
<1>4. ASSUME NEW h, NEW n, Raised(L, M, c, h, n)
      PROVE  SupplyOf(M, c) <= CapOf(M, c)
  BY <1>4 DEF Raised, SameTerms
<1>5. ASSUME NEW h, NEW n, Lowered(L, M, c, h, n)
      PROVE  SupplyOf(M, c) <= CapOf(M, c)
  BY <1>1, <1>5 DEF Lowered, SameTerms
<1>6. ASSUME NEW from, NEW to, NEW n, Moved(L, M, c, from, to, n)
      PROVE  SupplyOf(M, c) <= CapOf(M, c)
  BY <1>6 DEF Moved, SameTerms
<1>7. QED
  BY <1>2, <1>3, <1>4, <1>5, <1>6 DEF Change

-----------------------------------------------------------------------------
(***************************************************************************)
(* What each action does to every token.                                   *)
(***************************************************************************)
Effect(L, M) ==
    /\ M \in Ledger
    /\ SymbolsOf(M)
    /\ \A c \in Code : Change(L, M, c)

(* Such a step keeps the invariant. *)
LEMMA EffectKeepsInv ==
    ASSUME NEW L, NEW M, LedgerInv(L), Effect(L, M)
    PROVE  LedgerInv(M)
BY ChangeKeepsSum, ChangeKeepsMaximum DEF LedgerInv, Effect

(* A token there is stays, and keeps its symbol. *)
LEMMA TokensLast ==
    ASSUME NEW L \in Ledger, NEW M, Effect(L, M), NEW q, q.code \in Code, TokenOf(L, q)
    PROVE  TokenOf(M, q)
<1>1. L.stat[q.code] # NoToken /\ L.stat[q.code].precision = q.precision
  BY DEF TokenOf
<1>2. SameTerms(L, M, q.code)
  BY <1>1 DEF Effect, Change, Kept, Founded, Raised, Lowered, Moved
<1>3. CapOf(L, q.code) \in 1..MaxAmount
  BY <1>1, RowTypes DEF CapOf
<1>4. M.stat[q.code] # NoToken
  BY <1>2, <1>3 DEF SameTerms, CapOf
<1>5. QED
  BY <1>1, <1>2, <1>4 DEF SameTerms, DecimalsOf, TokenOf

LEMMA CreateEffect ==
    ASSUME TokenInv, NEW issuer \in Issuer, NEW q \in Asset, Create(issuer, q)
    PROVE  Effect(ledger, ledger')
<1> DEFINE row == [precision |-> q.precision, supply |-> 0, max_supply |-> q.amount,
                   issuer |-> issuer]
<1>1. /\ q.code \in Code /\ q.amount \in 1..MaxAmount /\ q.precision \in Precision
      /\ ledger \in Ledger
      /\ ledger.stat[q.code] = NoToken
      /\ \A h \in Holder, c \in Code : ledger.accounts[h][c] # NoBalance =>
            /\ ledger.stat[c] # NoToken
            /\ ledger.accounts[h][c].precision = ledger.stat[c].precision
  BY DEF Asset, Positive, Create, TokenInv, TokenTypeOK, BalancesHaveTokenSymbol
<1>2. row \in StatRow
  BY <1>1, TokenAssumption DEF StatRow
<1>3. ledger' = [stat |-> [ledger.stat EXCEPT ![q.code] = row], accounts |-> ledger.accounts]
  BY <1>1 DEF Create, Ledger
<1>4. /\ ledger' \in Ledger
      /\ ledger'.accounts = ledger.accounts
      /\ ledger'.stat[q.code] = row
      /\ \A c \in Code : c # q.code => ledger'.stat[c] = ledger.stat[c]
  BY <1>1, <1>2, <1>3 DEF Ledger
<1>5. SymbolsOf(ledger')
  BY <1>1, <1>4 DEF SymbolsOf
<1>6. \A c \in Code : Balances(ledger', c) = Balances(ledger, c)
  BY <1>4 DEF Balances, BalanceOf
<1>7. row # NoToken /\ row.supply = 0 /\ row.max_supply > 0 /\ row.issuer = issuer
  BY <1>1, <1>2, TokenAssumption
<1> HIDE DEF row
<1>8. Founded(ledger, ledger', q.code)
  BY <1>1, <1>4, <1>6, <1>7 DEF Founded, MinterOf, CapOf, SupplyOf
<1>9. ASSUME NEW c \in Code, c # q.code
      PROVE  Kept(ledger, ledger', c)
  BY <1>4, <1>6, <1>9 DEF Kept, SameTerms, MinterOf, DecimalsOf, CapOf, SupplyOf
<1>10. QED
  BY <1>4, <1>5, <1>8, <1>9 DEF Effect, Change

LEMMA IssueEffect ==
    ASSUME NEW K, LedgerInv(K), NEW signers, NEW to \in Holder, NEW q \in AnyAsset,
           CanIssue(K, signers, to, q), NEW M, M = Issued(K, to, q)
    PROVE  /\ Effect(K, M)
           /\ Raised(K, M, q.code, to, q.amount)
           /\ TokenOf(M, q)
<1> DEFINE n == K.stat[q.code].supply + q.amount
           L == SetSupply(K, q.code, n)
<1>1. /\ q.code \in Code /\ q.amount \in 1..MaxAmount /\ Positive(q)
      /\ K \in Ledger
      /\ TokenOf(K, q) /\ to = K.stat[q.code].issuer
      /\ q.amount <= K.stat[q.code].max_supply - K.stat[q.code].supply
      /\ CanAdd(K, to, q)
      /\ M = Add(L, to, q)
  BY DEF AnyAsset, Positive, CanIssue, Issued, LedgerInv
<1>2. /\ K.stat[q.code] # NoToken
      /\ K.stat[q.code].precision = q.precision
      /\ K.stat[q.code].supply \in Nat
      /\ K.stat[q.code].max_supply \in 1..MaxAmount
  BY <1>1, RowTypes, TokenAssumption DEF TokenOf
<1>3. n \in 0..MaxAmount /\ n <= K.stat[q.code].max_supply
  BY <1>1, <1>2, TokenAssumption
<1> HIDE DEF n
<1>4. /\ L \in Ledger
      /\ L.accounts = K.accounts
      /\ \A d \in Code : d # q.code => L.stat[d] = K.stat[d]
      /\ L.stat[q.code] \in StatRow
      /\ L.stat[q.code].supply = n
      /\ L.stat[q.code].precision = K.stat[q.code].precision
      /\ L.stat[q.code].max_supply = K.stat[q.code].max_supply
      /\ L.stat[q.code].issuer = K.stat[q.code].issuer
  BY <1>1, <1>2, <1>3, SetSupplyFacts
<1> HIDE DEF L
<1>5. CanAdd(L, to, q)
  BY <1>1, <1>4 DEF CanAdd
<1>6. /\ M \in Ledger
      /\ M.stat = L.stat
      /\ Balances(M, q.code) = Plus(Balances(L, q.code), to, q.amount)
      /\ \A d \in Code : d # q.code => Balances(M, d) = Balances(L, d)
      /\ M.accounts[to][q.code].precision = q.precision
      /\ \A x \in Holder, d \in Code : ~(x = to /\ d = q.code) =>
            M.accounts[x][d] = L.accounts[x][d]
  <2>1. Credited(L, Add(L, to, q), to, q)
    BY <1>1, <1>4, <1>5, AddFacts
  <2>2. QED
    BY <1>1, <2>1 DEF Credited
<1>7. \A d \in Code : Balances(L, d) = Balances(K, d)
  BY <1>4 DEF Balances, BalanceOf
<1>8. L.stat[q.code] # NoToken
  BY <1>4, TokenAssumption
<1>9. SymbolsOf(M)
  <2>1. \A x \in Holder, d \in Code : K.accounts[x][d] # NoBalance =>
           /\ K.stat[d] # NoToken
           /\ K.accounts[x][d].precision = K.stat[d].precision
    BY DEF LedgerInv, SymbolsOf
  <2>2. ASSUME NEW x \in Holder, NEW d \in Code, M.accounts[x][d] # NoBalance
        PROVE  /\ M.stat[d] # NoToken
               /\ M.accounts[x][d].precision = M.stat[d].precision
    <3>1. CASE x = to /\ d = q.code
      BY <1>2, <1>4, <1>6, <1>8, <3>1
    <3>2. CASE ~(x = to /\ d = q.code)
      <4>1. M.accounts[x][d] = K.accounts[x][d]
        BY <1>4, <1>6, <3>2
      <4>2. /\ K.stat[d] # NoToken
            /\ K.accounts[x][d].precision = K.stat[d].precision
        BY <2>1, <2>2, <4>1
      <4>3. QED
        BY <1>4, <1>6, <1>8, <4>1, <4>2
    <3>3. QED
      BY <3>1, <3>2
  <2>3. QED
    BY <2>2 DEF SymbolsOf
<1>10. Raised(K, M, q.code, to, q.amount)
  <2>1. SameTerms(K, M, q.code) /\ to = MinterOf(K, q.code)
    BY <1>1, <1>2, <1>4, <1>6, <1>8 DEF SameTerms, CapOf, MinterOf, DecimalsOf
  <2>2. SupplyOf(M, q.code) = SupplyOf(K, q.code) + q.amount
    BY <1>2, <1>4, <1>6, <1>8 DEF SupplyOf, n
  <2>3. SupplyOf(M, q.code) <= CapOf(K, q.code)
    BY <1>2, <1>3, <1>4, <1>6, <1>8 DEF SupplyOf, CapOf
  <2>4. Balances(M, q.code) = Plus(Balances(K, q.code), to, q.amount)
    BY <1>1, <1>6, <1>7
  <2>5. QED
    BY <1>1, <2>1, <2>2, <2>3, <2>4 DEF Raised
<1>11. ASSUME NEW c \in Code, c # q.code
       PROVE  Kept(K, M, c)
  <2>1. Balances(M, c) = Balances(K, c)
    BY <1>6, <1>7, <1>11
  <2>2. QED
    BY <1>4, <1>6, <1>11, <2>1 DEF Kept, SameTerms, MinterOf, DecimalsOf, CapOf, SupplyOf
<1>12. TokenOf(M, q)
  BY <1>2, <1>4, <1>6, <1>8 DEF TokenOf
<1>13. QED
  BY <1>6, <1>9, <1>10, <1>11, <1>12 DEF Effect, Change

LEMMA RetireEffect ==
    ASSUME TokenInv, NEW signers, NEW q \in AnyAsset, Retire(signers, q),
           ledger.stat[q.code].issuer \in Holder
    PROVE  Effect(ledger, ledger')
<1> DEFINE n == ledger.stat[q.code].supply - q.amount
           h == ledger.stat[q.code].issuer
           L == SetSupply(ledger, q.code, n)
<1>1. /\ q.code \in Code /\ q.amount \in 1..MaxAmount /\ Positive(q)
      /\ ledger \in Ledger
      /\ TokenOf(ledger, q)
      /\ CanSub(ledger, h, q)
      /\ ledger' = Sub(L, h, q)
  BY DEF AnyAsset, Positive, Retire, CanRetire, Retired, TokenInv, TokenTypeOK
<1>2. /\ ledger.stat[q.code] # NoToken
      /\ ledger.stat[q.code].supply \in 0..MaxAmount
      /\ ledger.accounts[h][q.code] # NoBalance
      /\ ledger.accounts[h][q.code].amount >= q.amount
  BY <1>1, RowTypes DEF TokenOf, CanSub
<1>3. n \in 0..MaxAmount
  <2>1. SupplyOf(ledger, q.code) = SumFunctionOnSet(Balances(ledger, q.code), Holder)
    BY <1>1 DEF TokenInv, SupplyIsSumOfBalances
  <2>2. BalanceOf(ledger, h, q.code) <= SupplyOf(ledger, q.code)
    BY <1>1, <2>1, BalancesType
  <2>3. ledger.accounts[h][q.code].amount <= ledger.stat[q.code].supply
    BY <1>2, <2>2 DEF BalanceOf, SupplyOf
  <2>4. ledger.accounts[h][q.code].amount \in Nat
    BY <1>1, <1>2, RowTypes, TokenAssumption
  <2>5. QED
    BY <1>1, <1>2, <2>3, <2>4, TokenAssumption
<1> HIDE DEF n
<1>4. /\ L \in Ledger
      /\ L.accounts = ledger.accounts
      /\ \A d \in Code : d # q.code => L.stat[d] = ledger.stat[d]
      /\ L.stat[q.code] \in StatRow
      /\ L.stat[q.code].supply = n
      /\ L.stat[q.code].precision = ledger.stat[q.code].precision
      /\ L.stat[q.code].max_supply = ledger.stat[q.code].max_supply
      /\ L.stat[q.code].issuer = h
  BY <1>1, <1>2, <1>3, SetSupplyFacts
<1>5. h \in Holder
  OBVIOUS
<1> HIDE DEF L
<1>6. Debited(L, ledger', h, q)
  <2>1. CanSub(L, h, q)
    BY <1>1, <1>4 DEF CanSub
  <2>2. Debited(L, Sub(L, h, q), h, q)
    BY <1>1, <1>4, <1>5, <2>1, SubFacts
  <2>3. QED
    BY <1>1, <2>2
<1>7. /\ \A d \in Code : Balances(L, d) = Balances(ledger, d)
      /\ BalanceOf(L, h, q.code) = BalanceOf(ledger, h, q.code)
  BY <1>4 DEF Balances, BalanceOf
<1>8. L.stat[q.code] # NoToken
  BY <1>4, TokenAssumption
<1>9. SymbolsOf(ledger')
  <2>1. \A x \in Holder, d \in Code : ledger.accounts[x][d] # NoBalance =>
           /\ ledger.stat[d] # NoToken
           /\ ledger.accounts[x][d].precision = ledger.stat[d].precision
    BY DEF TokenInv, BalancesHaveTokenSymbol
  <2>2. \A d \in Code : ledger.stat[d] # NoToken =>
           /\ ledger'.stat[d] # NoToken
           /\ ledger'.stat[d].precision = ledger.stat[d].precision
    BY <1>4, <1>6, <1>8 DEF Debited
  <2>3. QED
    BY <1>4, <1>6, <2>1, <2>2 DEF SymbolsOf, Debited
<1>10. Lowered(ledger, ledger', q.code, h, q.amount)
  <2>1. SameTerms(ledger, ledger', q.code) /\ h = MinterOf(ledger, q.code)
    BY <1>1, <1>2, <1>4, <1>6, <1>8 DEF SameTerms, CapOf, MinterOf, DecimalsOf, Debited
  <2>2. SupplyOf(ledger', q.code) = SupplyOf(ledger, q.code) - q.amount
    BY <1>2, <1>4, <1>6, <1>8 DEF SupplyOf, n, Debited
  <2>3. /\ Balances(ledger', q.code) = Minus(Balances(ledger, q.code), h, q.amount)
        /\ BalanceOf(ledger, h, q.code) >= q.amount
    BY <1>1, <1>6, <1>7 DEF Debited
  <2>4. QED
    BY <1>1, <1>5, <2>1, <2>2, <2>3 DEF Lowered
<1>11. ASSUME NEW c \in Code, c # q.code
       PROVE  Kept(ledger, ledger', c)
  <2>1. Balances(ledger', c) = Balances(ledger, c)
    BY <1>6, <1>7, <1>11 DEF Debited
  <2>2. QED
    BY <1>4, <1>6, <1>11, <2>1 DEF Kept, SameTerms, MinterOf, DecimalsOf, CapOf, SupplyOf, Debited
<1>12. QED
  BY <1>6, <1>9, <1>10, <1>11 DEF Effect, Change, Debited

LEMMA TransferEffect ==
    ASSUME NEW K, LedgerInv(K), NEW signers, NEW from \in Holder, NEW to \in Holder,
           NEW q \in AnyAsset, CanTransfer(K, signers, from, to, q),
           NEW M, M = Transferred(K, from, to, q)
    PROVE  /\ Effect(K, M)
           /\ Moved(K, M, q.code, from, to, q.amount)
<1> DEFINE L == Sub(K, from, q)
<1>1. /\ q.code \in Code /\ q.amount \in 1..MaxAmount /\ Positive(q)
      /\ K \in Ledger
      /\ from # to
      /\ TokenOf(K, q)
      /\ CanSub(K, from, q)
      /\ CanAdd(K, to, q)
      /\ M = Add(L, to, q)
  BY DEF AnyAsset, Positive, CanTransfer, Transferred, LedgerInv
<1>2. Debited(K, L, from, q)
  BY <1>1, SubFacts
<1>3. CanAdd(L, to, q)
  <2>1. L.accounts[to][q.code] = K.accounts[to][q.code]
    BY <1>1 DEF Sub, SetBalance, Ledger
  <2>2. QED
    BY <1>1, <2>1 DEF CanAdd
<1> HIDE DEF L
<1>4. Credited(L, M, to, q)
  <2>1. L \in Ledger
    BY <1>2 DEF Debited
  <2>2. Credited(L, Add(L, to, q), to, q)
    BY <1>1, <1>3, <2>1, AddFacts
  <2>3. QED
    BY <1>1, <2>2
<1>5. /\ M \in Ledger
      /\ M.stat = K.stat
  BY <1>2, <1>4 DEF Debited, Credited
<1>6. SymbolsOf(M)
  <2>1. \A x \in Holder, d \in Code : L.accounts[x][d] # NoBalance =>
           /\ K.stat[d] # NoToken
           /\ L.accounts[x][d].precision = K.stat[d].precision
    BY <1>2 DEF LedgerInv, SymbolsOf, Debited
  <2>2. /\ K.stat[q.code] # NoToken
        /\ M.accounts[to][q.code].precision = K.stat[q.code].precision
    BY <1>1, <1>4 DEF TokenOf, Credited
  <2>3. \A x \in Holder, d \in Code : M.accounts[x][d] # NoBalance =>
           /\ M.stat[d] # NoToken
           /\ M.accounts[x][d].precision = M.stat[d].precision
    BY <1>4, <1>5, <2>1, <2>2 DEF Credited
  <2>4. QED
    BY <2>3 DEF SymbolsOf
<1>7. \A c \in Code : /\ SameTerms(K, M, c)
                     /\ SupplyOf(M, c) = SupplyOf(K, c)
  BY <1>5 DEF SameTerms, CapOf, MinterOf, DecimalsOf, SupplyOf
<1>8. Moved(K, M, q.code, from, to, q.amount)
  <2>1. Balances(M, q.code)
          = Plus(Minus(Balances(K, q.code), from, q.amount), to, q.amount)
    BY <1>2, <1>4 DEF Debited, Credited
  <2>2. BalanceOf(K, from, q.code) >= q.amount
    BY <1>2 DEF Debited
  <2>3. QED
    BY <1>1, <1>7, <2>1, <2>2 DEF Moved
<1>9. ASSUME NEW c \in Code, c # q.code
       PROVE  Kept(K, M, c)
  BY <1>2, <1>4, <1>7, <1>9 DEF Kept, Debited, Credited
<1>10. QED
  BY <1>5, <1>6, <1>8, <1>9 DEF Effect, Change

(* A row opened or closed is empty. *)
LEMMA RowEffect ==
    ASSUME TokenInv, NEW h \in Holder, NEW c \in Code,
           \/ Close(h, c)
           \/ \E precision \in Precision : Open(h, c, precision)
    PROVE  Effect(ledger, ledger')
<1>1. /\ ledger \in Ledger
      /\ \A x \in Holder, d \in Code : ledger.accounts[x][d] # NoBalance =>
            /\ ledger.stat[d] # NoToken
            /\ ledger.accounts[x][d].precision = ledger.stat[d].precision
  BY DEF TokenInv, TokenTypeOK, BalancesHaveTokenSymbol
<1>2. \E row \in BalanceRow \cup {NoBalance} :
        /\ ledger' = SetBalance(ledger, h, c, row)
        /\ row # NoBalance =>
              /\ row.amount = 0
              /\ ledger.stat[c] # NoToken
              /\ row.precision = ledger.stat[c].precision
        /\ BalanceOf(ledger, h, c) = 0
  <2>1. CASE Close(h, c)
    BY <2>1 DEF Close, BalanceOf
  <2>2. ASSUME NEW precision \in Precision, Open(h, c, precision)
        PROVE  <1>2
    <3> DEFINE row == [amount |-> 0, precision |-> precision]
    <3>1. row \in BalanceRow
      BY TokenAssumption DEF BalanceRow
    <3>2. ledger' = SetBalance(ledger, h, c, row) /\ BalanceOf(ledger, h, c) = 0
      BY <2>2 DEF Open, BalanceOf
    <3>3. ledger.stat[c] # NoToken /\ row.precision = ledger.stat[c].precision
      BY <2>2 DEF Open
    <3>4. row.amount = 0
      OBVIOUS
    <3> HIDE DEF row
    <3>5. QED
      BY <3>1, <3>2, <3>3, <3>4
  <2>3. QED
    BY <2>1, <2>2
<1>3. PICK row \in BalanceRow \cup {NoBalance} :
        /\ ledger' = SetBalance(ledger, h, c, row)
        /\ row # NoBalance =>
              /\ row.amount = 0
              /\ ledger.stat[c] # NoToken
              /\ row.precision = ledger.stat[c].precision
        /\ BalanceOf(ledger, h, c) = 0
  BY <1>2
<1>4. /\ ledger' \in Ledger
      /\ ledger'.stat = ledger.stat
      /\ \A x \in Holder, d \in Code :
            ledger'.accounts[x][d] = IF x = h /\ d = c THEN row ELSE ledger.accounts[x][d]
  BY <1>1, <1>3, SetBalanceFacts
<1>5. SymbolsOf(ledger')
  BY <1>1, <1>3, <1>4 DEF SymbolsOf
<1>6. \A x \in Holder, d \in Code : BalanceOf(ledger', x, d) = BalanceOf(ledger, x, d)
  BY <1>3, <1>4 DEF BalanceOf
<1>7. ASSUME NEW d \in Code
      PROVE  Kept(ledger, ledger', d)
  <2>1. Balances(ledger', d) = Balances(ledger, d)
    BY <1>6 DEF Balances
  <2>2. QED
    BY <1>4, <2>1 DEF Kept, SameTerms, CapOf, MinterOf, DecimalsOf, SupplyOf
<1>8. QED
  BY <1>4, <1>5, <1>7 DEF Effect, Change

LEMMA NextEffect ==
    ASSUME TokenInv, TokenNext
    PROVE  Effect(ledger, ledger')
<1>0. LedgerInv(ledger)
  BY InvIsOfTheLedger
<1>1. ASSUME NEW h \in Holder, NEW q \in Asset, Retire({h}, q)
      PROVE  Effect(ledger, ledger')
  <2>1. ledger.stat[q.code].issuer \in Holder
    BY <1>1 DEF Retire, CanRetire
  <2>2. QED
    BY <1>1, <2>1, RetireEffect, AssetsAreAny
<1>2. ASSUME NEW h \in Holder, NEW c \in Code, NEW precision \in Precision,
             Open(h, c, precision)
      PROVE  Effect(ledger, ledger')
  BY <1>2, RowEffect
<1>3. ASSUME NEW h \in Holder, NEW c \in Code, Close(h, c)
      PROVE  Effect(ledger, ledger')
  BY <1>3, RowEffect
<1>4. ASSUME NEW signer \in Holder, NEW to \in Holder, NEW q \in Asset, Issue({signer}, to, q)
      PROVE  Effect(ledger, ledger')
  BY <1>0, <1>4, IssueEffect, AssetsAreAny DEF Issue
<1>5. ASSUME NEW signer \in Holder, NEW from \in Holder, NEW to \in Holder, NEW q \in Asset,
             Transfer({signer}, from, to, q)
      PROVE  Effect(ledger, ledger')
  BY <1>0, <1>5, TransferEffect, AssetsAreAny DEF Transfer
<1>6. QED
  BY <1>1, <1>2, <1>3, <1>4, <1>5, CreateEffect DEF TokenNext

-----------------------------------------------------------------------------
(* The tables start empty. *)
LEMMA InitialLedger ==
    ASSUME TokenInit
    PROVE  /\ TokenInv
           /\ \A c \in Code : /\ Balances(ledger, c) = [h \in Holder |-> 0]
                              /\ SupplyOf(ledger, c) = 0 /\ CapOf(ledger, c) = 0
                              /\ MinterOf(ledger, c) = NoToken
<1>1. /\ \A c \in Code : ledger.stat[c] = NoToken
      /\ \A h \in Holder, c \in Code : ledger.accounts[h][c] = NoBalance
      /\ TokenTypeOK
  BY DEF TokenInit, EmptyLedger, TokenTypeOK, Ledger
<1>2. ASSUME NEW c \in Code
      PROVE  /\ Balances(ledger, c) = [h \in Holder |-> 0]
             /\ SupplyOf(ledger, c) = 0 /\ CapOf(ledger, c) = 0
             /\ MinterOf(ledger, c) = NoToken
             /\ SupplyOf(ledger, c) = SumFunctionOnSet(Balances(ledger, c), Holder)
  <2>1. Balances(ledger, c) = [h \in Holder |-> 0]
    BY <1>1 DEF Balances, BalanceOf
  <2>2. SumFunctionOnSet(Balances(ledger, c), Holder) = 0
    BY <2>1, SumZero, TokenAssumption
  <2>3. QED
    BY <1>1, <2>1, <2>2 DEF SupplyOf, CapOf, MinterOf
<1>3. SupplyIsSumOfBalances
  BY <1>2 DEF SupplyIsSumOfBalances
<1>4. SupplyWithinMaximum
  BY <1>2 DEF SupplyWithinMaximum
<1>5. BalancesHaveTokenSymbol
  BY <1>1 DEF BalancesHaveTokenSymbol
<1>6. QED
  BY <1>1, <1>2, <1>3, <1>4, <1>5 DEF TokenInv

LEMMA NextKeepsInv ==
    ASSUME TokenInv, [TokenNext]_ledger
    PROVE  TokenInv'
<1>1. CASE TokenNext
  <2>1. Effect(ledger, ledger')
    BY <1>1, NextEffect
  <2>2. LedgerInv(ledger')
    BY <2>1, InvIsOfTheLedger, EffectKeepsInv
  <2>3. QED
    BY <2>2 DEF LedgerInv, SymbolsOf, TokenInv, TokenTypeOK, SupplyIsSumOfBalances,
                SupplyWithinMaximum, BalancesHaveTokenSymbol
<1>2. CASE UNCHANGED ledger
  BY <1>2 DEF TokenInv, TokenTypeOK, SupplyIsSumOfBalances, SupplyWithinMaximum,
              BalancesHaveTokenSymbol
<1>3. QED
  BY <1>1, <1>2

(* The four together are inductive. *)
THEOREM TokenInvariant == TokenSpec => []TokenInv
<1>1. TokenInit => TokenInv
  BY InitialLedger
<1>2. TokenInv /\ [TokenNext]_ledger => TokenInv'
  BY NextKeepsInv
<1>3. QED
  BY <1>1, <1>2, PTL DEF TokenSpec

(* Both tables of eosio.token keep their types: no amount leaves the range of an asset. *)
THEOREM TokenTypes == TokenSpec => []TokenTypeOK
<1>1. TokenInv => TokenTypeOK
  BY DEF TokenInv
<1>2. QED
  BY <1>1, TokenInvariant, PTL

(* No issue, retirement, transfer or row erased loses or makes tokens. *)
THEOREM SupplyIsConserved == TokenSpec => []SupplyIsSumOfBalances
<1>1. TokenInv => SupplyIsSumOfBalances
  BY DEF TokenInv
<1>2. QED
  BY <1>1, TokenInvariant, PTL

(* No token is issued beyond its maximum. *)
THEOREM SupplyIsCapped == TokenSpec => []SupplyWithinMaximum
<1>1. TokenInv => SupplyWithinMaximum
  BY DEF TokenInv
<1>2. QED
  BY <1>1, TokenInvariant, PTL

(* Every row of accounts has the symbol of its token. *)
THEOREM SymbolsAgree == TokenSpec => []BalancesHaveTokenSymbol
<1>1. TokenInv => BalancesHaveTokenSymbol
  BY DEF TokenInv
<1>2. QED
  BY <1>1, TokenInvariant, PTL

-----------------------------------------------------------------------------
(* A change of the watched token is a step of the abstract ledger. *)
LEMMA ChangeIsLedgerStep ==
    ASSUME ledger \in Ledger, ledger' \in Ledger, Change(ledger, ledger', Watched)
    PROVE  [Promise!LedgerNext]_(Promise!ledgerVars)
<1> DEFINE f == Balances(ledger, Watched)
           g == Balances(ledger', Watched)
           s == SupplyOf(ledger, Watched)
           t == SupplyOf(ledger', Watched)
<1>1. /\ f \in [Holder -> Nat] /\ g \in [Holder -> Nat]
      /\ s \in Nat /\ t \in Nat
      /\ \A h \in Holder : f[h] = BalanceOf(ledger, h, Watched)
  BY BalancesType, RowTypes, WatchedAssumption, TokenAssumption
<1>2. CASE Kept(ledger, ledger', Watched)
  BY <1>2 DEF Kept, SameTerms, Promise!ledgerVars
<1>3. CASE Founded(ledger, ledger', Watched)
  BY <1>3 DEF Founded, MinterOf, Promise!LedgerNext, Promise!Found
<1>4. ASSUME NEW h, NEW n, Raised(ledger, ledger', Watched, h, n)
      PROVE  Promise!Mint
  <2>1. /\ h \in Holder /\ h = MinterOf(ledger, Watched) /\ n \in 1..MaxAmount
        /\ t = s + n
        /\ t <= CapOf(ledger, Watched)
        /\ g = [f EXCEPT ![h] = @ + n]
        /\ SameTerms(ledger, ledger', Watched)
    BY <1>4 DEF Raised, Plus
  <2>2. t > s /\ t - s = n
    BY <1>1, <2>1, TokenAssumption
  <2>3. g = [f EXCEPT ![h] = @ + (t - s)]
    BY <2>1, <2>2
  <2>4. QED
    BY <2>1, <2>2, <2>3 DEF Promise!Mint, SameTerms
<1>5. ASSUME NEW h, NEW n, Lowered(ledger, ledger', Watched, h, n)
      PROVE  Promise!Burn
  <2>1. /\ h \in Holder /\ h = MinterOf(ledger, Watched) /\ n \in 1..MaxAmount
        /\ t = s - n
        /\ BalanceOf(ledger, h, Watched) >= n
        /\ g = [f EXCEPT ![h] = @ - n]
        /\ SameTerms(ledger, ledger', Watched)
    BY <1>5 DEF Lowered, Minus
  <2>2. t < s /\ s - t = n
    BY <1>1, <2>1, TokenAssumption
  <2>3. g = [f EXCEPT ![h] = @ - (s - t)]
    BY <2>1, <2>2
  <2>4. f[h] >= s - t
    BY <1>1, <2>1, <2>2
  <2>5. QED
    BY <2>1, <2>2, <2>3, <2>4 DEF Promise!Burn, SameTerms
<1>6. ASSUME NEW from, NEW to, NEW n, Moved(ledger, ledger', Watched, from, to, n)
      PROVE  Promise!Move(from, to)
  <2>1. /\ from \in Holder /\ to \in Holder /\ from # to /\ n \in Nat
        /\ t = s
        /\ BalanceOf(ledger, from, Watched) >= n
        /\ g = [[f EXCEPT ![from] = @ - n] EXCEPT ![to] = @ + n]
        /\ SameTerms(ledger, ledger', Watched)
    BY <1>6, TokenAssumption DEF Moved, Plus, Minus
  <2>2. g[from] = f[from] - n /\ f[from] - g[from] = n /\ g[from] \in 0..f[from]
    BY <1>1, <2>1
  <2>3. g = [f EXCEPT ![from] = g[from], ![to] = @ + (f[from] - g[from])]
    BY <1>1, <2>1, <2>2
  <2>4. QED
    BY <2>1, <2>2, <2>3 DEF Promise!Move, SameTerms
<1>7. QED
  <2>1. (\E h, n : Raised(ledger, ledger', Watched, h, n)) => Promise!LedgerNext
    BY <1>4 DEF Promise!LedgerNext
  <2>2. (\E h, n : Lowered(ledger, ledger', Watched, h, n)) => Promise!LedgerNext
    BY <1>5 DEF Promise!LedgerNext
  <2>3. (\E from, to, n : Moved(ledger, ledger', Watched, from, to, n)) => Promise!LedgerNext
    BY <1>6 DEF Promise!LedgerNext, Moved
  <2>4. QED
    BY <1>2, <1>3, <2>1, <2>2, <2>3 DEF Change

(***************************************************************************)
(* eosio.token implements the abstract ledger, whichever token is watched. *)
(***************************************************************************)
THEOREM TokenRefinesLedger == TokenSpec => ImplementsLedger
<1>1. TokenInit => Promise!LedgerInit
  BY InitialLedger, WatchedAssumption DEF Promise!LedgerInit
<1>2. TokenInv /\ [TokenNext]_ledger => [Promise!LedgerNext]_(Promise!ledgerVars)
  <2>1. ASSUME TokenInv, TokenNext
        PROVE  [Promise!LedgerNext]_(Promise!ledgerVars)
    BY <2>1, NextEffect, ChangeIsLedgerStep, WatchedAssumption
       DEF Effect, TokenInv, TokenTypeOK
  <2>2. ASSUME UNCHANGED ledger
        PROVE  UNCHANGED Promise!ledgerVars
    BY <2>2 DEF Promise!ledgerVars
  <2>3. QED
    BY <2>1, <2>2
<1>3. QED
  BY <1>1, <1>2, TokenInvariant, PTL DEF TokenSpec, ImplementsLedger, Promise!LedgerSpec

=============================================================================
