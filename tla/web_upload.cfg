SPECIFICATION AcrossSites
CONSTANTS
    Calls = {k1}
    MaxLogins = 1
    MaxExpiries = 1
    MaxReloads = 1
    Person <- Strangers
    MaxJobs = 2
    MaxPolls = 1
    None = None
INVARIANT SuccessIsEarned
PROPERTY PageComesToRest
CHECK_DEADLOCK FALSE
