CONSTANTS
    Requests = {1, 2, 3, 4}
    Tokens = {"a", "b", "c"}
    Users = {"u", "v"}
    Instances = {"p", "q"}
    TokenOf <- TwoOneAndOne
    Owner <- TwoUsers
    InstanceOf <- LastApart
    Unset = Unset
    Setting <- SecondUnlimited
    DefaultMax = 2
    TokenMax <- OneManyNone
    TTL = 2
    MaxFaults = 1
SPECIFICATION Spec
INVARIANTS TypeOK WithinLimit NoLeak CountExact InflightExact
PROPERTIES JustRefusal LeakHeals
