CONSTANTS
    Paid = 5
    ChargeFee = 1
    PlanFee = 1
    DisputeFee = 1
    DisputeAmounts = {}
    PayUnit = 1
    MaxPayouts = 0
    MaxDestinations = 0
    Retained = {3}
    AmountStep = 2
    MAX_ATTEMPTS = 2
    MaxCommands = 2
    MaxErrors = 1
    MaxCrashes = 1
    DashboardAmounts = {4}
    MaxDashboard = 1
SPECIFICATION FairSpec
INVARIANTS
    RefundedIsStripes
PROPERTIES
    RefundResolves
    RefundPromise
CHECK_DEADLOCK FALSE
