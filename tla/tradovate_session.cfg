SPECIFICATION FairSpec
CONSTANTS
    Thread = {"t1", "t2"}
    Does <- Roles
    Lifetime = 5
    Leeway = 3
    MaxCall = 1
    Account = {"a1", "a2", "b1"}
    NameOf <- Names
    Own <- OwnAccounts
    Pins <- IdOrName
    Lists <- Orders
    None = None
    MaxFaults = 1
INVARIANTS
    TypeOK
    NoExpiredToken
    OrdersOnAccount
PROPERTY
    SessionRecovers
