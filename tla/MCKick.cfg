SPECIFICATION HistSpec
CONSTANTS
    a = a
    b = b
    c = c
    v = v
    w = w
    NoRow = NoRow
    Account = {a, b}
    Privileged = {b}
    PermVectors <- AllOn
    PermMaps <- Revoke
    Requests = {"regprod"}
    Garbage = {0}
    Voter = {v, w}
    Name = {a, b, c}
    StaleName = {a, b, c}
    Key = {"key"}
    BadKey = {"bad"}
    StakeId = {1, 2}
    Amount = {1, 2}
    Int64 = 2
INVARIANTS TypeOK VotesMatchVoters WeightIsSumOfVotes StakeLiesWithProducers   KickedStayOut
PROPERTIES InactiveKeepVoters ImplementsBallots
SYMMETRY Sym
