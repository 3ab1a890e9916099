SPECIFICATION AccountsSpec
CONSTANTS
    eosio = eosio
    bob = bob
    xbob = xbob
    ybob = ybob
    v1 = v1
    v2 = v2
    NoRow = NoRow
    NoOne = NoOne
    Unlimited = Unlimited
    NewLimits = NewLimits
    Account = {eosio, bob, xbob, ybob}
    Privileged = {eosio}
    PermVectors <- FullVectors
    PermMaps <- Maps
    Requests = {"setalimits"}
    Garbage = {0}
    Self = eosio
    SuffixOf <- Suffixes
    ABI = {v1, v2}
    Developer = {bob}
    PrivSubject = {eosio}
INVARIANTS AccountsTypeOK RowsHaveAccounts HashesAgree
PROPERTIES GrantedBeforeDone StuckWithoutPrivilege
SYMMETRY Sym
