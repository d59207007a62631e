CONSTANTS
    Requests = {1, 2, 3}
    Pref <- NotAndFallback
    Playground = {}
    Forced = {1, 2}
    Quotas <- RisingAndNone
    Cost <- AroundTwo
    Wallet = 3
    Token = 4
    Unlimited = FALSE
    TrustQuota = 2
    Total = 3
    MaxAttempts <- SecondRetried
    MaxPeriod = 0
    MaxFaults = 1
SPECIFICATION Spec
CHECK_DEADLOCK FALSE
INVARIANTS FundNeverPays TokenNeverPays ChargedExactly
