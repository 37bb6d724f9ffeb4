CONSTANTS
    Paid = 4
    ChargeFee = 1
    PlanFee = 1
    DisputeFee = 1
    DisputeAmounts = {3}
    PayUnit = 2
    MaxPayouts = 2
    MaxDestinations = 2
    Retained = {0, 2}
    AmountStep = 3
    MAX_ATTEMPTS = 1
    MaxCommands = 1
    MaxErrors = 0
    MaxCrashes = 0
    DashboardAmounts = {1}
    MaxDashboard = 1
SPECIFICATION Spec
INVARIANTS
    TypeOK
    TakenExact
    PaidOutAtMostEarned
PROPERTIES
    PayoutToApprovedAccount
CHECK_DEADLOCK FALSE
