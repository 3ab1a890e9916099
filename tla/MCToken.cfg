SPECIFICATION TokenSpec
CONSTANTS
    a = a
    b = b
    ghost = ghost
    NoToken = NoToken
    NoBalance = NoBalance
    Holder = {a, b}
    Issuer = {a, ghost}
    Code = {"LIBRE", "USDT"}
    Watched = "LIBRE"
    Precision = {0, 4}
    Quantity <- Amounts
    MaxAmount = 3
INVARIANTS TokenTypeOK SupplyIsSumOfBalances SupplyWithinMaximum BalancesHaveTokenSymbol
PROPERTY ImplementsLedger
CHECK_DEADLOCK FALSE
