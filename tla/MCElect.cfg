SPECIFICATION BlockSpec
CONSTANTS
    eosio = eosio
    libre = libre
    bpay = bpay
    p = p
    q = q
    r = r
    v = v
    w = w
    NoRow = NoRow
    Account = {eosio, libre}
    Privileged = {eosio, libre}
    PermVectors = {}
    PermMaps = {}
    Requests = {}
    Garbage = {0}
    Voter = {v, w}
    Name = {eosio, libre}
    StaleName = {eosio, libre}
    Key = {"k0"}
    BadKey = {}
    StakeId = {1, 2}
    Amount = {1}
    Int64 = 1
    Holder = {eosio, libre, bpay}
    Issuer = {eosio}
    Code = {"LIBRE"}
    Precision = {0}
    Quantity = {}
    MaxAmount = 12
    NoToken = NoToken
    NoBalance = NoBalance
    Eosio = eosio
    Bpay = bpay
    NameValue <- PayNames
    Genesis <- ElectGenesis
    FirstSlot = 1000000
    ScheduleLimit = 2
    Gaps = {91}
    MaxBlocks = 5
 
PROPERTIES ScheduleNeverShrinks
SYMMETRY Sym
CHECK_DEADLOCK FALSE
