SPECIFICATION AuditSpec
CONSTANTS
    a = a
    b = b
    Account = {a}
    Privileged = {}
    PermVectors <- ShortVectors
    PermMaps = {}
    Requests = {}
    Garbage = {0, 1}
INVARIANT ShortVectorSetsWhatItNames
