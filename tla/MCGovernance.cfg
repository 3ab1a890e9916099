SPECIFICATION GovSpec
CONSTANTS
    alice = alice
    bob = bob
    active = active
    owner = owner
    bobs = bobs
    pay = pay
    upgrade = upgrade
    NoHash = NoHash
    NoRow = NoRow
    Silent = Silent
    Account = {alice, bob}
    Proposer = {alice}
    ProposalName = {"p"}
    Level <- Levels
    ActorOf <- Actors
    Transaction = {pay, upgrade}
    Expiration <- Expirations
    Authority <- Authorities
    Requested <- RequestedLists
    OldRow <- OldRows
    Executer = {bob}
    WrapTransaction = {upgrade}
    MaxSlot = 2
    MaxDeferred = 2
INVARIANTS GovTypeOK RowsInStep EachAskedAsListed CountedStandByIt 
PROPERTIES ImplementsConsent
