SPECIFICATION Spec
CONSTANTS
    RatingGroups <- OneGroup
    Tariff <- OneTariff
    InitBalance <- OneBalance
    U32 = 1000
    Usages <- FullUsages
    RechargeAmount = 5
    Failures <- NoFailures
    MaxUsages = 3
    MaxAcctTimeouts = 1
    MaxRatingTimeouts = 1
    MaxRecharges = 1
    MaxCrashes = 1
INVARIANTS
    TypeOK
    UsageCharged
    GrantBacked
PROPERTIES
    NoOverdraft
