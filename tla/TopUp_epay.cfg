CONSTANTS
    n1 = n1
    n2 = n2
    h1 = h1
    h2 = h2
    h3 = h3
    Orders = {o1}
    Codes = {}
    Editable = {}
    Handlers = {h1, h3}
    Nodes = {n1, n2}
    NodeOf <- MCNodeOf
    EpayHandlers = {h1, h3}
    Amount <- MCAmount
    QuotaPerUnit = 2
    MaxFaults = 0
    MaxEdits = 0
SPECIFICATION Spec
INVARIANT NeverCreditedTwice
CHECK_DEADLOCK FALSE
