SPECIFICATION FairSpec
CONSTANTS
    amy = amy  ben = ben
    tenant = tenant  amyUser = amyUser  benUser = benUser
    Buckets = {tenant, amyUser, benUser}
    Callers = {amy, ben}
    Scopes <- TwoUsers
    Limit <- Limits
    Window = 3
    SecondTicks = 2
    MaxCount = 4
INVARIANTS AtMostTwiceTheLimit RetryAfterSuffices
PROPERTY BucketsReopen
