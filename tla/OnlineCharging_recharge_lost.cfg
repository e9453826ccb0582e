SPECIFICATION Spec
CONSTANTS
    RatingGroups <- OneGroup
    Tariff <- OneTariff
    InitBalance <- OneBalance
    U32 = 1000
    Usages <- FullUsages
    RechargeAmount = 5
    Failures <- NoFailures
    MaxUsages = 2
    MaxAcctTimeouts = 0
    MaxRatingTimeouts = 0
    MaxRecharges = 1
    MaxCrashes = 0
PROPERTIES
    RechargeNotLost
