\* Up to two CDRs of every kind of request, with usage, in files of dumpCdrFile
\* and of others, read back.
CONSTANTS
    NfId <- McNfId
    Requests <- McRequests
    Usages <- McUsages
    Times <- McTimes
    FileHeaders <- McFileHeaders
    Zones = {28800}
    MaxRecords = 2
    MaxReports = 1
SPECIFICATION Spec
INVARIANTS
    RecordsCanBeEncoded
    LengthsAreTrue
    FilesReadBack
    CdrsSayWhatWasReported
CHECK_DEADLOCK FALSE
