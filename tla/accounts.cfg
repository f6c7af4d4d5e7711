\* Three people, two requests at a time of which one may fail, two tenants.
CONSTANTS
    People = {ana, bia, cid}
    Roles = {"ADMIN", "USER"}
    None = None
    Requests = {r1, r2}
    MaxUsers = 2
    MaxTenants = 2
    MaxInvites = 2
    MaxFaults = 1
    MaxRequests = 5
SPECIFICATION Spec
INVARIANTS TypeOK SeatsWithinPlan AdminRemains AcceptedMeansMember NavigationSettles
CHECK_DEADLOCK FALSE
SYMMETRY Symmetry
