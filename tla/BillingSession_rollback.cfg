CONSTANTS
    Requests = {1}
    Pref <- WalletOnly
    Playground = {}
    Forced = {1}
    Quotas <- Rising
    Cost <- Nothing
    Wallet = 2
    Token = 1
    Unlimited = FALSE
    TrustQuota = 0
    Total = 0
    MaxAttempts <- Once
    MaxPeriod = 0
    MaxFaults = 1
SPECIFICATION Spec
CHECK_DEADLOCK FALSE
INVARIANT FundNeverPays
