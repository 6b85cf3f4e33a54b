SPECIFICATION FairSpec
CONSTANTS
    t1 = t1  amy = amy  ben = ben
    Tenants <- OneTenant
    Runs = {r1, r2, r3}
    Admins <- TwoAdmins
    MaxRetries = 2
    Cooldown = 2
    None = None
INVARIANTS TypeOK EventsAreTrue StatsAreTrue
PROPERTIES OneOutcomeEach CooldownIsExact
