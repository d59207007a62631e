CONSTANTS
    Requests = {1, 2}
    Pref <- FallbackAndNot
    Playground = {2}
    Forced = {1}
    Quotas <- Rising
    Cost <- BelowAndAbove
    Wallet = 2
    Token = 1
    Unlimited = FALSE
    TrustQuota = 0
    Total = 3
    MaxAttempts <- Twice
    MaxPeriod = 2
    MaxFaults = 0
SPECIFICATION Spec
CHECK_DEADLOCK FALSE
INVARIANTS TypeOK ChargedExactly WithinTotal UsedExplained ResetOncePerPeriod
