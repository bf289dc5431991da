SPECIFICATION Spec
CONSTANTS
    HeartbeatInterval = 2
    LeaseDuration = 9
    HTTPBudget = 1
    ClaimBudget = 6
    CommandTimeout = 2
    GrantPolicies = {{9}}
    Deadline = 15
    Composite = TRUE
    Horizon = 17
INVARIANTS
    WatchdogTracksLease
CHECK_DEADLOCK FALSE
