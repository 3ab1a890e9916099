SPECIFICATION BlockSpec
CONSTANTS
    eosio = eosio
    libre = libre
    bpay = bpay
    p = p
    q = q
    r = r
    v = v
    w = w
    NoRow = NoRow
    Account = {p, q, r}
    Privileged = {p, q, r}
    PermVectors = {}
    PermMaps = {}
    Requests = {}
    Garbage = {0}
    Voter = {v, w}
    Name = {p, q, r}
    StaleName = {p}
    Key = {"k0"}
    BadKey = {}
    StakeId = {1, 2}
    Amount = {1, 2}
    Int64 = 1
    Holder = {p, q, r, eosio, bpay}
    Issuer = {eosio}
    Code = {"LIBRE"}
    Precision = {0}
    Quantity = {}
    MaxAmount = 12
    NoToken = NoToken
    NoBalance = NoBalance
    Eosio = eosio
    Bpay = bpay
    NameValue <- Names3
    Genesis <- Boot
    FirstSlot = 1000000
    ScheduleLimit = 1
    Gaps = {91}
    MaxBlocks = 1
INVARIANT TopAreTheBest
SYMMETRY Sym
CHECK_DEADLOCK FALSE
