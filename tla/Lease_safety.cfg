SPECIFICATION Spec
CONSTANTS
    HeartbeatInterval = 2
    LeaseDuration = 9
    HTTPBudget = 1
    ClaimBudget = 6
    CommandTimeout = 2
    GrantPolicies = {{7, 9, 12}, {3, 9}}
    Deadline = 15
    Composite = FALSE
    Horizon = 17
INVARIANTS
    AuthorityWithinLease
    HeartbeatsKeepLease
    WatchdogTracksLease
CHECK_DEADLOCK FALSE
