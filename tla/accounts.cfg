SPECIFICATION Spec
CONSTANTS
    Users = {u1, u2}
    Orgs = {o1, o2}
    TokenLife = 1
    InviteLife = 1
    MaxCalls = 2
    Idle = Idle
    Unclear = Unclear
SYMMETRY Symmetry
INVARIANTS OneOrgEach AuditTellsRights
PROPERTIES TenantsApart PowersFade LastAdminByStaleToken
CHECK_DEADLOCK FALSE
