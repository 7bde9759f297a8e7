SPECIFICATION Spec
CONSTANTS
    Order <- MCOrder
    Addrs <- MCAddrs
    TrapSlots <- MCTrapSlots
    SpecsOf <- MCSpecsOf
    Opposite <- MCOpposite
    NoSpec = NoSpec
    Absent = Absent
    MaxIds = 2
    MaxCommands = 2
    MaxCalls = 2
    MaxRuns = 1
    MaxStops = 2
    MaxInputs = 3
    MaxDisturbances = 1
INVARIANTS OwnershipExact PolicyCurrent
PROPERTIES StayWins
CHECK_DEADLOCK FALSE
