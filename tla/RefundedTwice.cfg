CONSTANTS
    Paid = 5
    ChargeFee = 1
    PlanFee = 1
    DisputeFee = 1
    DisputeAmounts = {}
    PayUnit = 1
    MaxPayouts = 0
    MaxDestinations = 0
    Retained = {3}
    AmountStep = 2
    MAX_ATTEMPTS = 1
    MaxCommands = 2
    MaxErrors = 0
    MaxCrashes = 1
    DashboardAmounts = {4}
    MaxDashboard = 1
SPECIFICATION Spec
INVARIANTS
    NeverRefundedTwice
CHECK_DEADLOCK FALSE
