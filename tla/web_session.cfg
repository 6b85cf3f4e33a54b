SPECIFICATION SessionSpec
CONSTANTS
    Calls = {k1, k2}
    MaxLogins = 2
    MaxExpiries = 2
    MaxReloads = 1
    Person <- Strangers
SYMMETRY Symmetry
INVARIANTS SharedRefreshServes CleanLogoutIsFinal ActsAsShown
CHECK_DEADLOCK FALSE
