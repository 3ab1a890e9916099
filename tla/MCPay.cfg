SPECIFICATION BlockSpec
CONSTANTS
    eosio = eosio
    libre = libre
    bpay = bpay
    p = p
    q = q
    r = r
    v = v
    w = w
    NoRow = NoRow
    Account = {eosio, libre}
    Privileged = {eosio, libre}
    PermVectors = {}
    PermMaps = {}
    Requests = {}
    Garbage = {0}
    Voter = {}
    Name = {eosio, libre}
    StaleName = {}
    Key = {"k0"}
    BadKey = {}
    StakeId = {}
    Amount = {}
    Int64 = 2
    Holder = {eosio, libre, bpay}
    Issuer = {eosio}
    Code = {"LIBRE"}
    Precision = {0, 1}
    Quantity = {12}
    MaxAmount = 12
    NoToken = NoToken
    NoBalance = NoBalance
    Eosio = eosio
    Bpay = bpay
    NameValue <- PayNames
    Genesis <- PayGenesis
    FirstSlot = 1000000
    ScheduleLimit = 2
    Gaps = {1, 172800}
    MaxBlocks = 5
INVARIANTS ProductionTypeOK UnpaidAddUp PaymentsAreFunded ClaimsAreHonoured 
PROPERTY ImplementsPayroll
CHECK_DEADLOCK FALSE
