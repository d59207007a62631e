CONSTANTS
    Requests = {1}
    Pref <- SubOnly
    Playground = {}
    Forced = {1}
    Quotas <- Rising
    Cost <- Nothing
    Wallet = 0
    Token = 4
    Unlimited = FALSE
    TrustQuota = 0
    Total = 4
    MaxAttempts <- Twice
    MaxPeriod = 0
    MaxFaults = 1
SPECIFICATION Spec
CHECK_DEADLOCK FALSE
INVARIANT ReservationAgrees
