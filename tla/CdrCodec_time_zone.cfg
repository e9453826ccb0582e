\* The CHF in a time zone of half an hour more.
CONSTANTS
    NfId <- McNfId
    Requests <- McRequests
    Usages <- McUsages
    Times <- McTimes
    FileHeaders <- McFileHeaders
    Zones = {0, 19800}
    MaxRecords = 1
    MaxReports = 1
SPECIFICATION Spec
INVARIANT OpeningTimesAreBcd
CHECK_DEADLOCK FALSE
