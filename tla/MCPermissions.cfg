SPECIFICATION AuditSpec
CONSTANTS
    a = a
    b = b
    Account = {a, b}
    Privileged = {b}
    PermVectors <- FullVectors
    PermMaps <- Maps
    Requests = {"regprod", "vote", "stake", "nonsense"}
    Garbage = {0}
INVARIANTS AuditTypeOK 
