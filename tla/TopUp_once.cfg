CONSTANTS
    n1 = n1
    n2 = n2
    h1 = h1
    h2 = h2
    h3 = h3
    Orders = {o1}
    Codes = {c1, c2}
    Editable = {c2}
    Handlers = {h1, h2, h3}
    Nodes = {n1, n2}
    NodeOf <- MCNodeOf
    EpayHandlers = {h1, h2}
    Amount <- MCAmount
    QuotaPerUnit = 2
    MaxFaults = 1
    MaxEdits = 1
SPECIFICATION FairSpec
INVARIANTS TypeOK CreditedOnce SuccessIsCredited RebatedPerCredit
PROPERTIES ImplementsCreditOnce PaidIsCredited
CHECK_DEADLOCK FALSE
