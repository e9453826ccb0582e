SPECIFICATION FairSpec
CONSTANTS
    RatingGroups <- TwoGroups
    Tariff <- TwoTariffs
    InitBalance <- TwoBalances
    U32 = 5
    Usages <- CrossUsages
    RechargeAmount = 5
    Failures <- AllFailures
    MaxUsages = 2
    MaxAcctTimeouts = 2
    MaxRatingTimeouts = 1
    MaxRecharges = 1
    MaxCrashes = 1
INVARIANTS
    Conservation
    PendingInFlight
    AnswersMatch
    UsageCharged
PROPERTIES
    ImplementsLedger
    LockReleased
